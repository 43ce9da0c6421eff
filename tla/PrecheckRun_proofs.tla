------------------------- MODULE PrecheckRun_proofs -------------------------
(***************************************************************************)
(* Theorems about PrecheckRun for any number of Runs, Hosts, inventories,  *)
(* executions, drifts and crashes, and any combination of faults; and      *)
(* about the store of what its Runs produce (A) for any number of Runs and *)
(* contents, any number of records, deaths and damages.                    *)
(***************************************************************************)
EXTENDS PrecheckRun, Sequences, TLAPS

CONSTANTS Bytes, Needs, MaxWork, MaxStops, MaxDamages, None
VARIABLES
  works, attached, artifacts, files, recent, vault, keeping, stage, about, seen, gained,
  filed, registered, cleaning, plan, damaged, stops

\* The same Runs, which publish and seal in the store of Artifacts and Results.
A == INSTANCE ArtifactStore WITH Contents <- Bytes, state <- keeping, step <- stage, sealed <- filed

-----------------------------------------------------------------------------
(* Type correctness, one part of the state at a time: a step types the     *)
(* parts it disturbs, and what it leaves alone keeps its type.             *)

\* The parts of the type invariant.
RowType == state \in [Runs -> RunStates] /\ conf \in [Runs -> Confirmations]
ReviewType ==
  review \in [Runs -> [inv : Inventories \cup {NoInventory}, state : ReviewStates]]
LeaseType == lease \in [Runs -> [owner : Hosts \cup {NoHost, DeadHost}, fresh : BOOLEAN]]
AccountingType ==
  acc \in [Runs -> [status : {"running", "paused", "blocked", "completed"},
                    inv : Inventories \cup {NoInventory}]]
ResultType ==
  /\ tries \in [Runs -> 0..MaxTries]
  /\ located \in [Runs -> SUBSET (Inventories \cup {NoInventory})]
  /\ sealed \in [Runs -> Inventories \cup {NoInventory}]
  /\ published \in [Runs -> Inventories \cup {NoInventory}]
TreeType == disk \in Inventories /\ drifts \in 0..MaxDrift
CallType == call \in [Hosts -> [run : Runs \cup {NoRun}, step : CallSteps]]
ThreadType == pc \in [Hosts -> [Runs -> PCs]]
HostType == /\ beating \in [Hosts -> [Runs -> BOOLEAN]]
            /\ wanted \in [Hosts -> [Runs -> Contents]]
            /\ crashes \in 0..MaxCrashes
GhostType == /\ granted \in SUBSET (Runs \X Contents)
             /\ effects \in SUBSET (Runs \X Contents)

\* All of them.
Types ==
  /\ RowType /\ ReviewType /\ LeaseType /\ AccountingType /\ ResultType
  /\ TreeType /\ CallType /\ ThreadType /\ HostType /\ GhostType

\* The parts are the whole type invariant.
LEMMA TypeParts == TypeOK <=> Types
BY DEF TypeOK, Types, RowType, ReviewType, LeaseType, AccountingType, ResultType,
   TreeType, CallType, ThreadType, HostType, GhostType

\* The values a row starts from and is updated with.
LEMMA NamesType ==
  /\ NoContent \in Contents
  /\ NoConf \in Confirmations
  /\ \A k \in {"source_scope", "external_effect"}, c \in Contents :
        Asking(k, c) \in Confirmations
  /\ RunStates = {"absent", "running", "paused", "blocked", "completed", "cancelled", "failed"}
BY BoundsAssumption DEF NoContent, NoConf, Asking, Contents, Confirmations, RunStates,
   Unfinished, Terminal

\* The steps of a thread, by name.
LEMMA StepNames ==
  PCs = {"media", "geo", "sealing", "asking", "granted", "effect", "inflight", "scanning",
     "scanned", "review", "completing", "blocking", "failing", "interrupting", "leaving",
     "releasing", "none", "claimed", "ending", "popping"}
BY DEF PCs, Body, MediaSteps, GeoSteps, Exits, Outside

\* An update of a Run row writes a state and a confirmation.
LEMMA UpdateStateType ==
  ASSUME RowType, NEW r, NEW s \in RunStates, NEW c \in Confirmations, UpdateState(r, s, c)
  PROVE  RowType'
BY DEF RowType, UpdateState

\* A thread moves to a step of the worker.
LEMMA GotoType ==
  ASSUME ThreadType, NEW h \in Hosts, NEW r, NEW step \in PCs, Goto(h, r, step)
  PROVE  ThreadType'
BY DEF ThreadType, Goto

\* A call moves on, for some Run.
LEMMA CallStepType ==
  ASSUME CallType, NEW h \in Hosts, NEW r \in Runs, NEW step \in CallSteps,
         CallStep(h, r, step)
  PROVE  CallType'
BY DEF CallType, CallStep

\* A call returns.
LEMMA ReturnType ==
  ASSUME CallType, NEW h \in Hosts, Return(h)
  PROVE  CallType'
BY DEF CallType, Return, NoCall, CallSteps

\* Pausing the accounting of a Run, or not.
LEMMA PauseAccountingType ==
  ASSUME AccountingType, NEW r, NEW from, PauseAccounting(r, from)
  PROVE  AccountingType'
BY DEF AccountingType, PauseAccounting

\* Recording an interruption, or not.
LEMMA InterruptType ==
  ASSUME RowType, NEW r \in Runs, InterruptIfRunning(r)
  PROVE  RowType'
<1>1. CASE state[r] = "running"
  BY <1>1, UpdateStateType, NamesType DEF InterruptIfRunning
<1> QED BY <1>1 DEF InterruptIfRunning, RowType

\* A lease is replaced.
LEMMA LeaseStep ==
  ASSUME LeaseType, NEW r, NEW v \in [owner : Hosts \cup {NoHost, DeadHost}, fresh : BOOLEAN]
  PROVE  [lease EXCEPT ![r] = v]
            \in [Runs -> [owner : Hosts \cup {NoHost, DeadHost}, fresh : BOOLEAN]]
BY DEF LeaseType

\* A heartbeat starts or stops.
LEMMA BeatStep ==
  ASSUME HostType, NEW h \in Hosts, NEW r \in Runs, NEW b \in BOOLEAN
  PROVE  [beating EXCEPT ![h][r] = b] \in [Hosts -> [Runs -> BOOLEAN]]
BY DEF HostType

\* A worker takes a disclosure with it.
LEMMA WantedStep ==
  ASSUME HostType, NEW h \in Hosts, NEW r \in Runs, NEW c \in Contents
  PROVE  [wanted EXCEPT ![h][r] = c] \in [Hosts -> [Runs -> Contents]]
BY DEF HostType

\* The disclosure of the current execution stays within the bound on executions.
LEMMA ContentType ==
  ASSUME AccountingType, ResultType, NEW r \in Runs
  PROVE  Content(r) \in Contents
BY BoundsAssumption DEF AccountingType, ResultType, Content, Contents

\* What a step leaves alone keeps its type.
LEMMA Unchanged ==
  /\ RowType /\ UNCHANGED <<state, conf>> => RowType'
  /\ ReviewType /\ UNCHANGED review => ReviewType'
  /\ LeaseType /\ UNCHANGED lease => LeaseType'
  /\ AccountingType /\ UNCHANGED acc => AccountingType'
  /\ ResultType /\ UNCHANGED <<tries, located, sealed, published>> => ResultType'
  /\ TreeType /\ UNCHANGED <<disk, drifts>> => TreeType'
  /\ CallType /\ UNCHANGED call => CallType'
  /\ ThreadType /\ UNCHANGED pc => ThreadType'
  /\ HostType /\ UNCHANGED <<beating, wanted, crashes>> => HostType'
  /\ GhostType /\ UNCHANGED <<granted, effects>> => GhostType'
BY DEF RowType, ReviewType, LeaseType, AccountingType, ResultType, TreeType, CallType,
       ThreadType, HostType, GhostType

\* A Dataset without Runs is well typed.
LEMMA TypeInit == Init => Types
<1> SUFFICES ASSUME Init PROVE Types
  OBVIOUS
<1>1. RowType /\ ReviewType /\ LeaseType /\ AccountingType
  BY NamesType DEF Init, RowType, ReviewType, LeaseType, AccountingType, ReviewStates
<1>2. ResultType /\ TreeType /\ GhostType
  BY BoundsAssumption DEF Init, ResultType, TreeType, GhostType
<1>3. CallType /\ ThreadType /\ HostType
  BY NamesType, StepNames, BoundsAssumption DEF Init, CallType, ThreadType, HostType,
     NoCall, CallSteps
<1> QED BY <1>1, <1>2, <1>3 DEF Types

\* Every step keeps every part.
LEMMA TypeStep == Types /\ [Next]_vars => Types'
<1> SUFFICES ASSUME Types, [Next]_vars PROVE Types'
  OBVIOUS
<1> RowType /\ ReviewType /\ LeaseType /\ AccountingType /\ ResultType
    /\ TreeType /\ CallType /\ ThreadType /\ HostType /\ GhostType
  BY DEF Types
<1>1. ASSUME NEW r \in Runs, Pause(r)
      PROVE  Types'
  <2>1. RowType'
    BY <1>1, UpdateStateType, NamesType, Unchanged DEF Pause
  <2> QED
    BY <1>1, <2>1, Unchanged
    DEF Types, Pause,
        rowVars, workVars, treeVars, hostVars, ghostVars
<1>2. ASSUME NEW r \in Runs, Cancel(r)
      PROVE  Types'
  <2>1. RowType'
    BY <1>2, UpdateStateType, NamesType, Unchanged DEF Cancel
  <2> QED
    BY <1>2, <2>1, Unchanged
    DEF Types, Cancel,
        rowVars, workVars, treeVars, hostVars, ghostVars
<1>3. ASSUME NEW h \in Hosts, NEW r \in Runs, Start(h, r)
      PROVE  Types'
  <2>1. RowType'
    BY <1>3, NamesType DEF Start, RowType
  <2>2. CallType'
    BY <1>3, CallStepType, ReturnType DEF Start, CallSteps
  <2> QED
    BY <1>3, <2>1, <2>2, Unchanged
    DEF Types, Start,
        rowVars, workVars, treeVars, hostVars, ghostVars
<1>4. ASSUME NEW h \in Hosts, NEW r \in Runs, CheckResume(h, r)
      PROVE  Types'
  <2>1. CallType'
    BY <1>4, CallStepType, ReturnType DEF CheckResume, CallSteps
  <2> QED
    BY <1>4, <2>1, Unchanged
    DEF Types, CheckResume,
        rowVars, workVars, treeVars, hostVars, ghostVars
<1>5. ASSUME NEW h \in Hosts, NEW r \in Runs, ResumePlain(h, r)
      PROVE  Types'
  <2>1. RowType'
    BY <1>5, UpdateStateType, NamesType, Unchanged DEF ResumePlain
  <2>2. CallType'
    BY <1>5, CallStepType, ReturnType DEF ResumePlain, CallSteps
  <2> QED
    BY <1>5, <2>1, <2>2, Unchanged
    DEF Types, ResumePlain,
        rowVars, workVars, treeVars, hostVars, ghostVars
<1>6. ASSUME NEW h \in Hosts, NEW r \in Runs, NEW i \in Inventories, AcceptScope(h, r, i)
      PROVE  Types'
  <2>1. RowType'
    BY <1>6, UpdateStateType, NamesType, Unchanged DEF AcceptScope
  <2>2. CallType'
    BY <1>6, CallStepType, ReturnType DEF AcceptScope, CallSteps
  <2>3. ReviewType'
    BY <1>6 DEF AcceptScope, ReviewType, ReviewStates, AccountingType
  <2> QED
    BY <1>6, <2>1, <2>2, <2>3, Unchanged
    DEF Types, AcceptScope,
        rowVars, workVars, treeVars, hostVars, ghostVars
<1>7. ASSUME NEW h \in Hosts, NEW r \in Runs, NEW c \in Contents, Proceed(h, r, c)
      PROVE  Types'
  <2>1. RowType'
    BY <1>7, UpdateStateType, NamesType DEF Proceed, Confirmations, RowType
  <2>2. CallType'
    BY <1>7, CallStepType, ReturnType DEF Proceed, CallSteps
  <2>3. GhostType'
    BY <1>7 DEF Proceed, GhostType
  <2> QED
    BY <1>7, <2>1, <2>2, <2>3, Unchanged
    DEF Types, Proceed,
        rowVars, workVars, treeVars, hostVars, ghostVars
<1>8. ASSUME NEW h \in Hosts, NEW r \in Runs, Decline(h, r)
      PROVE  Types'
  <2>1. RowType'
    BY <1>8, UpdateStateType, NamesType, ZenonT(60) DEF Decline, Confirmations, RowType
  <2>2. CallType'
    BY <1>8, CallStepType, ReturnType DEF Decline, CallSteps
  <2> QED
    BY <1>8, <2>1, <2>2, Unchanged
    DEF Types, Decline,
        rowVars, workVars, treeVars, hostVars, ghostVars
<1>9. ASSUME NEW h \in Hosts, NEW r \in Runs, RefuseResume(h, r)
      PROVE  Types'
  <2>1. CallType'
    BY <1>9, CallStepType, ReturnType DEF RefuseResume, CallSteps
  <2> QED
    BY <1>9, <2>1, Unchanged
    DEF Types, RefuseResume,
        rowVars, workVars, treeVars, hostVars, ghostVars
<1>10. ASSUME NEW h \in Hosts, NEW s \in {"blocked", "failed"}, PrepareFails(h, s)
      PROVE  Types'
  <2>1. RowType'
    BY <1>10, UpdateStateType, NamesType, Unchanged DEF PrepareFails
  <2>2. AccountingType'
    BY <1>10, PauseAccountingType, Unchanged DEF PrepareFails
  <2>3. CallType'
    BY <1>10, CallStepType, ReturnType DEF PrepareFails, CallSteps
  <2> QED
    BY <1>10, <2>1, <2>2, <2>3, Unchanged
    DEF Types, PrepareFails,
        rowVars, workVars, treeVars, hostVars, ghostVars
<1>11. ASSUME NEW h \in Hosts, Schedule(h)
      PROVE  Types'
  <2>1. LeaseType'
    <3>1. [owner |-> h, fresh |-> TRUE]
             \in [owner : Hosts \cup {NoHost, DeadHost}, fresh : BOOLEAN]
      OBVIOUS
    <3>2. \/ lease' = [lease EXCEPT ![call[h].run] = [owner |-> h, fresh |-> TRUE]]
          \/ UNCHANGED lease
      BY <1>11 DEF Schedule
    <3> QED BY <3>1, <3>2, LeaseStep DEF LeaseType
  <2>2. ThreadType'
    BY <1>11, GotoType, StepNames DEF Schedule, ThreadType
  <2>3. CallType'
    BY <1>11, CallStepType, ReturnType DEF Schedule, CallSteps
  <2> QED
    BY <1>11, <2>1, <2>2, <2>3, Unchanged
    DEF Types, Schedule,
        rowVars, workVars, treeVars, hostVars, ghostVars
<1>12. ASSUME NEW h \in Hosts, LaunchFails(h)
      PROVE  Types'
  <2>1. RowType'
    BY <1>12, UpdateStateType, NamesType, Unchanged DEF LaunchFails
  <2>2. LeaseType'
    BY <1>12, LeaseStep DEF LaunchFails, LeaseType
  <2>3. AccountingType'
    BY <1>12, PauseAccountingType, Unchanged DEF LaunchFails
  <2>4. CallType'
    BY <1>12, CallStepType, ReturnType DEF LaunchFails, CallSteps
  <2> QED
    BY <1>12, <2>1, <2>2, <2>3, <2>4, Unchanged
    DEF Types, LaunchFails,
        rowVars, workVars, treeVars, hostVars, ghostVars
<1>13. ASSUME NEW h \in Hosts, NEW r \in Runs, EnterRun(h, r)
      PROVE  Types'
  <2>1. ThreadType'
    <3>1. \E step \in {"scanned", "scanning", "ending"} : Goto(h, r, step)
      BY <1>13 DEF EnterRun, BeginScan
    <3> QED BY <3>1, GotoType, StepNames
  <2>2. AccountingType'
    BY <1>13 DEF EnterRun, BeginScan, AccountingType
  <2>3. HostType'
    <3>1. CASE state[r] = "running" /\ lease[r].owner = h
      <4>1. beating' = [beating EXCEPT ![h][r] = TRUE]
        BY <1>13, <3>1 DEF EnterRun
      <4> QED BY <1>13, <4>1, BeatStep DEF EnterRun, HostType, WorkerVars
    <3>2. CASE ~(state[r] = "running" /\ lease[r].owner = h)
      BY <1>13, <3>2, Unchanged DEF EnterRun, WorkerVars
    <3> QED BY <3>1, <3>2
  <2> QED
    BY <1>13, <2>1, <2>2, <2>3, Unchanged
    DEF Types, EnterRun, WorkerVars,
        rowVars, workVars, treeVars, hostVars, ghostVars
<1>14. ASSUME NEW h \in Hosts, NEW r \in Runs, EndScan(h, r)
      PROVE  Types'
  <2>1. ThreadType'
    BY <1>14, GotoType, StepNames DEF EndScan
  <2>2. AccountingType'
    BY <1>14 DEF EndScan, AccountingType, TreeType
  <2> QED
    BY <1>14, <2>1, <2>2, Unchanged
    DEF Types, EndScan, WorkerVars,
        rowVars, workVars, treeVars, hostVars, ghostVars
<1>15. ASSUME NEW h \in Hosts, NEW r \in Runs, SyncAccounting(h, r)
      PROVE  Types'
  <2>1. ThreadType'
    BY <1>15, GotoType, StepNames DEF SyncAccounting
  <2> QED
    BY <1>15, <2>1, Unchanged
    DEF Types, SyncAccounting, WorkerVars,
        rowVars, workVars, treeVars, hostVars, ghostVars
<1>16. ASSUME NEW h \in Hosts, NEW r \in Runs, EnsureScopeReview(h, r)
      PROVE  Types'
  <2>1. RowType'
    <3>1. [of |-> acc[r].inv, try |-> 0] \in Contents
      BY BoundsAssumption DEF Contents, AccountingType
    <3> QED BY <1>16, <3>1, UpdateStateType, NamesType, Unchanged DEF EnsureScopeReview
  <2>2. ThreadType'
    BY <1>16, GotoType, StepNames DEF EnsureScopeReview
  <2>3. ReviewType'
    BY <1>16 DEF EnsureScopeReview, ReviewType, ReviewStates, AccountingType
  <2> QED
    BY <1>16, <2>1, <2>2, <2>3, Unchanged
    DEF Types, EnsureScopeReview, WorkerVars,
        rowVars, workVars, treeVars, hostVars, ghostVars
<1>17. ASSUME NEW h \in Hosts, NEW r \in Runs, EndMedia(h, r)
      PROVE  Types'
  <2>1. ThreadType'
    BY <1>17, GotoType, StepNames DEF EndMedia, NextPhase
  <2> QED
    BY <1>17, <2>1, Unchanged
    DEF Types, EndMedia, WorkerVars,
        rowVars, workVars, treeVars, hostVars, ghostVars
<1>18. ASSUME NEW h \in Hosts, NEW r \in Runs, BeginGeo(h, r)
      PROVE  Types'
  <2>1. ThreadType'
    BY <1>18, GotoType, StepNames DEF BeginGeo
  <2> QED
    BY <1>18, <2>1, Unchanged
    DEF Types, BeginGeo, WorkerVars,
        rowVars, workVars, treeVars, hostVars, ghostVars
<1>19. ASSUME NEW h \in Hosts, NEW r \in Runs, RequireConfirmation(h, r)
      PROVE  Types'
  <2>1. RowType'
    <3>1. conf[r] \in Confirmations
      BY DEF RowType
    <3> QED BY <1>19, <3>1, UpdateStateType, NamesType, ContentType, Unchanged DEF
       RequireConfirmation
  <2>2. ThreadType'
    BY <1>19, GotoType, StepNames DEF RequireConfirmation
  <2>3. HostType'
    <3>1. \/ wanted' = [wanted EXCEPT ![h][r] = Content(r)]
          \/ UNCHANGED wanted
      BY <1>19 DEF RequireConfirmation
    <3>2. UNCHANGED <<beating, crashes>>
      BY <1>19 DEF RequireConfirmation, WorkerVars
    <3>3. Content(r) \in Contents
      BY ContentType
    <3>4. wanted' \in [Hosts -> [Runs -> Contents]]
      <4>1. [wanted EXCEPT ![h][r] = Content(r)] \in [Hosts -> [Runs -> Contents]]
        BY <3>3, WantedStep
      <4>2. wanted \in [Hosts -> [Runs -> Contents]]
        BY DEF HostType
      <4> QED BY <3>1, <4>1, <4>2
    <3> QED BY <3>2, <3>4 DEF HostType
  <2> QED
    BY <1>19, <2>1, <2>2, <2>3, Unchanged
    DEF Types, RequireConfirmation, WorkerVars,
        rowVars, workVars, treeVars, hostVars, ghostVars
<1>20. ASSUME NEW h \in Hosts, NEW r \in Runs, ReadAuthority(h, r)
      PROVE  Types'
  <2>1. ThreadType'
    BY <1>20, GotoType, StepNames DEF ReadAuthority
  <2> QED
    BY <1>20, <2>1, Unchanged
    DEF Types, ReadAuthority, WorkerVars,
        rowVars, workVars, treeVars, hostVars, ghostVars
<1>21. ASSUME NEW h \in Hosts, NEW r \in Runs, BeginEffect(h, r)
      PROVE  Types'
  <2>1. ThreadType'
    BY <1>21, GotoType, StepNames DEF BeginEffect
  <2>2. ResultType'
    BY <1>21, BoundsAssumption DEF BeginEffect, ResultType
  <2>3. GhostType'
    BY <1>21 DEF BeginEffect, GhostType, HostType, WorkerVars
  <2> QED
    BY <1>21, <2>1, <2>2, <2>3, Unchanged
    DEF Types, BeginEffect, WorkerVars,
        rowVars, workVars, treeVars, hostVars, ghostVars
<1>22. ASSUME NEW h \in Hosts, NEW r \in Runs, EndEffect(h, r)
      PROVE  Types'
  <2>1. ThreadType'
    BY <1>22, GotoType, StepNames DEF EndEffect
  <2>2. ResultType'
    BY <1>22 DEF EndEffect, ResultType, HostType, Contents
  <2> QED
    BY <1>22, <2>1, <2>2, Unchanged
    DEF Types, EndEffect, WorkerVars,
        rowVars, workVars, treeVars, hostVars, ghostVars
<1>23. ASSUME NEW h \in Hosts, NEW r \in Runs, SealResult(h, r)
      PROVE  Types'
  <2>1. ThreadType'
    BY <1>23, GotoType, StepNames DEF SealResult
  <2>2. ResultType'
    BY <1>23 DEF SealResult, ResultType, AccountingType
  <2> QED
    BY <1>23, <2>1, <2>2, Unchanged
    DEF Types, SealResult, WorkerVars,
        rowVars, workVars, treeVars, hostVars, ghostVars
<1>24. ASSUME NEW h \in Hosts, NEW r \in Runs, SetCompleted(h, r)
      PROVE  Types'
  <2>1. RowType'
    BY <1>24, UpdateStateType, NamesType, Unchanged DEF SetCompleted
  <2>2. ThreadType'
    BY <1>24, GotoType, StepNames DEF SetCompleted
  <2>3. ResultType'
    BY <1>24 DEF SetCompleted, ResultType
  <2> QED
    BY <1>24, <2>1, <2>2, <2>3, Unchanged
    DEF Types, SetCompleted, WorkerVars,
        rowVars, workVars, treeVars, hostVars, ghostVars
<1>25. ASSUME NEW h \in Hosts, NEW r \in Runs, MarkBlocked(h, r)
      PROVE  Types'
  <2>1. RowType'
    BY <1>25, UpdateStateType, NamesType, Unchanged DEF MarkBlocked
  <2>2. ThreadType'
    BY <1>25, GotoType, StepNames DEF MarkBlocked
  <2> QED
    BY <1>25, <2>1, <2>2, Unchanged
    DEF Types, MarkBlocked, WorkerVars,
        rowVars, workVars, treeVars, hostVars, ghostVars
<1>26. ASSUME NEW h \in Hosts, NEW r \in Runs, MarkInterrupted(h, r)
      PROVE  Types'
  <2>1. RowType'
    BY <1>26, UpdateStateType, NamesType, Unchanged DEF MarkInterrupted
  <2>2. ThreadType'
    BY <1>26, GotoType, StepNames DEF MarkInterrupted
  <2> QED
    BY <1>26, <2>1, <2>2, Unchanged
    DEF Types, MarkInterrupted, WorkerVars,
        rowVars, workVars, treeVars, hostVars, ghostVars
<1>27. ASSUME NEW h \in Hosts, NEW r \in Runs, MarkFailed(h, r)
      PROVE  Types'
  <2>1. RowType'
    BY <1>27, UpdateStateType, NamesType, Unchanged DEF MarkFailed
  <2>2. ThreadType'
    BY <1>27, GotoType, StepNames DEF MarkFailed
  <2>3. AccountingType'
    BY <1>27, PauseAccountingType, Unchanged DEF MarkFailed
  <2> QED
    BY <1>27, <2>1, <2>2, <2>3, Unchanged
    DEF Types, MarkFailed, WorkerVars,
        rowVars, workVars, treeVars, hostVars, ghostVars
<1>28. ASSUME NEW h \in Hosts, NEW r \in Runs, LeaveRun(h, r)
      PROVE  Types'
  <2>1. RowType'
    BY <1>28, InterruptType DEF LeaveRun
  <2>2. ThreadType'
    BY <1>28, GotoType, StepNames DEF LeaveRun
  <2> QED
    BY <1>28, <2>1, <2>2, Unchanged
    DEF Types, LeaveRun, WorkerVars,
        rowVars, workVars, treeVars, hostVars, ghostVars
<1>29. ASSUME NEW h \in Hosts, NEW r \in Runs, ReleaseLease(h, r)
      PROVE  Types'
  <2>1. LeaseType'
    BY <1>29, LeaseStep DEF ReleaseLease, LeaseType, WorkerVars
  <2>2. HostType'
    BY <1>29, NamesType DEF ReleaseLease, HostType, WorkerVars
  <2>3. ThreadType'
    BY <1>29, GotoType, StepNames DEF ReleaseLease
  <2> QED
    BY <1>29, <2>1, <2>2, <2>3, Unchanged
    DEF Types, ReleaseLease, WorkerVars,
        rowVars, workVars, treeVars, hostVars, ghostVars
<1>30. ASSUME NEW h \in Hosts, NEW r \in Runs, EndThread(h, r)
      PROVE  Types'
  <2>1. RowType'
    BY <1>30, InterruptType DEF EndThread
  <2>2. ThreadType'
    BY <1>30, GotoType, StepNames DEF EndThread
  <2> QED
    BY <1>30, <2>1, <2>2, Unchanged
    DEF Types, EndThread, WorkerVars,
        rowVars, workVars, treeVars, hostVars, ghostVars
<1>31. ASSUME NEW h \in Hosts, NEW r \in Runs, ForgetThread(h, r)
      PROVE  Types'
  <2>1. ThreadType'
    BY <1>31, GotoType, StepNames DEF ForgetThread
  <2> QED
    BY <1>31, <2>1, Unchanged
    DEF Types, ForgetThread, WorkerVars,
        rowVars, workVars, treeVars, hostVars, ghostVars
<1>32. ASSUME NEW h \in Hosts, Crash(h)
      PROVE  Types'
  <2>1. ThreadType'
    BY <1>32, StepNames DEF Crash, ThreadType
  <2>2. CallType'
    BY <1>32 DEF Crash, CallType, NoCall, CallSteps
  <2>3. LeaseType'
    BY <1>32 DEF Crash, LeaseType
  <2>4. HostType'
    BY <1>32, NamesType, BoundsAssumption DEF Crash, HostType
  <2> QED
    BY <1>32, <2>1, <2>2, <2>3, <2>4, Unchanged
    DEF Types, Crash,
        rowVars, workVars, treeVars, hostVars, ghostVars
<1>33. ASSUME NEW h \in Hosts, NEW r \in Runs, MeetsCondition(h, r)
      PROVE  Types'
  <2>1. ThreadType'
    BY <1>33, GotoType, StepNames DEF MeetsCondition
  <2> QED
    BY <1>33, <2>1, Unchanged
    DEF Types, MeetsCondition, WorkerVars,
        rowVars, workVars, treeVars, hostVars, ghostVars
<1>34. ASSUME NEW h \in Hosts, NEW r \in Runs, WorkerRaises(h, r)
      PROVE  Types'
  <2>1. ThreadType'
    BY <1>34, GotoType, StepNames DEF WorkerRaises
  <2> QED
    BY <1>34, <2>1, Unchanged
    DEF Types, WorkerRaises, WorkerVars,
        rowVars, workVars, treeVars, hostVars, ghostVars
<1>35. ASSUME NEW h \in Hosts, NEW r \in Runs, Heartbeat(h, r)
      PROVE  Types'
  <2>1. LeaseType'
    <3>1. CASE state[r] = "running" /\ lease[r].owner = h
      BY <1>35, <3>1 DEF Heartbeat, LeaseType
    <3>2. CASE ~(state[r] = "running" /\ lease[r].owner = h)
      BY <1>35, <3>2, Unchanged DEF Heartbeat
    <3> QED BY <3>1, <3>2
  <2>2. HostType'
    <3>1. CASE state[r] = "running" /\ lease[r].owner = h
      BY <1>35, <3>1, Unchanged DEF Heartbeat, WorkerVars
    <3>2. CASE ~(state[r] = "running" /\ lease[r].owner = h)
      <4>1. beating' = [beating EXCEPT ![h][r] = FALSE]
        BY <1>35, <3>2 DEF Heartbeat
      <4> QED BY <1>35, <4>1, BeatStep DEF Heartbeat, HostType, WorkerVars
    <3> QED BY <3>1, <3>2
  <2> QED
    BY <1>35, <2>1, <2>2, Unchanged
    DEF Types, Heartbeat, WorkerVars,
        rowVars, workVars, treeVars, hostVars, ghostVars
<1>36. ASSUME NEW r \in Runs, LeaseExpires(r)
      PROVE  Types'
  <2>1. LeaseType'
    BY <1>36, LeaseStep DEF LeaseExpires, LeaseType
  <2> QED
    BY <1>36, <2>1, Unchanged
    DEF Types, LeaseExpires,
        rowVars, workVars, treeVars, hostVars, ghostVars
<1>37. ASSUME SourceChanges
      PROVE  Types'
  <2>1. TreeType'
    BY <1>37, BoundsAssumption DEF SourceChanges, TreeType
  <2> QED
    BY <1>37, <2>1, Unchanged
    DEF Types, SourceChanges,
        rowVars, workVars, treeVars, hostVars, ghostVars
<1>38. CASE UNCHANGED vars
  BY <1>38, Unchanged DEF Types, vars, rowVars, workVars, treeVars, hostVars, ghostVars
<1> QED
  BY <1>1, <1>2, <1>3, <1>4, <1>5, <1>6, <1>7, <1>8, <1>9, <1>10, <1>11, <1>12, <1>13,
     <1>14, <1>15, <1>16, <1>17, <1>18, <1>19, <1>20, <1>21, <1>22, <1>23, <1>24, <1>25,
     <1>26, <1>27, <1>28, <1>29, <1>30, <1>31, <1>32, <1>33, <1>34, <1>35, <1>36, <1>37,
     <1>38 DEF Next, Human, Worker, Environment

\* Every variable keeps its type: states the Run table names, threads at a step
\* of the worker, leases of a Host, disclosures within their bounds.
THEOREM TypeCorrect == Spec => []TypeOK
<1>1. Spec => []Types
  BY TypeInit, TypeStep, PTL DEF Spec
<1> QED BY <1>1, TypeParts, PTL

-----------------------------------------------------------------------------
(* Nothing is sent out but what was confirmed.                             *)

\* Only a confirmed disclosure carries the decision to proceed.
ProceedIsGranted ==
  \A r \in Runs : conf[r].decision = "proceed" => <<r, conf[r].content>> \in granted

\* A request about to be journalled is the one that was confirmed.
EffectIsGranted ==
  \A h \in Hosts, r \in Runs : pc[h][r] = "effect" => <<r, wanted[h][r]>> \in granted

Confirmed == ProceedIsGranted /\ EffectIsGranted /\ EffectsConfirmed

\* A step that neither decides, nor admits a request, nor sends one.
Neutral ==
  /\ \A r \in Runs : conf'[r].decision = "proceed" => conf'[r] = conf[r]
  /\ \A h \in Hosts, r \in Runs : pc'[h][r] = "effect" => pc[h][r] = "effect"
  /\ UNCHANGED <<wanted, granted, effects>>

\* Such a step keeps the authority of what was and will be sent.
LEMMA NeutralKeeps == Confirmed /\ Neutral => Confirmed'
BY DEF Confirmed, Neutral, ProceedIsGranted, EffectIsGranted, EffectsConfirmed

\* A confirmation written without a decision to proceed decides nothing.
LEMMA NoDecision ==
  ASSUME RowType, NEW r, NEW s, NEW c, UpdateState(r, s, c), c.decision # "proceed"
  PROVE  \A q \in Runs : conf'[q].decision = "proceed" => conf'[q] = conf[q]
BY DEF RowType, UpdateState

\* A thread that moves elsewhere is not about to send.
LEMMA GoesElsewhere ==
  ASSUME ThreadType, NEW h, NEW r, NEW step, Goto(h, r, step), step # "effect"
  PROVE  \A g \in Hosts, q \in Runs : pc'[g][q] = "effect" => pc[g][q] = "effect"
BY DEF ThreadType, Goto

\* At first nothing is confirmed and nothing sent.
LEMMA ConfirmedInit == Init => Confirmed
BY DEF Init, Confirmed, ProceedIsGranted, EffectIsGranted, EffectsConfirmed, NoConf

\* Only Proceed decides, and it records what it grants; the worker carries exactly the
\* disclosure it read the decision of to the request.
LEMMA ConfirmedStep == Types /\ Confirmed /\ [Next]_vars => Confirmed'
<1> SUFFICES ASSUME Types, Confirmed, [Next]_vars PROVE Confirmed'
  OBVIOUS
<1> RowType /\ ThreadType /\ HostType
  BY DEF Types
<1>1. ASSUME NEW r \in Runs, Pause(r)
      PROVE  Confirmed'
  <2> Neutral
    BY <1>1, NoDecision
    DEF Neutral, Pause, NoConf, hostVars, ghostVars
  <2> QED BY NeutralKeeps
<1>2. ASSUME NEW r \in Runs, Cancel(r)
      PROVE  Confirmed'
  <2> Neutral
    BY <1>2, NoDecision
    DEF Neutral, Cancel, NoConf, hostVars, ghostVars
  <2> QED BY NeutralKeeps
<1>3. ASSUME NEW h \in Hosts, NEW r \in Runs, Start(h, r)
      PROVE  Confirmed'
  <2> Neutral
    BY <1>3
    DEF Neutral, Start, hostVars, ghostVars
  <2> QED BY NeutralKeeps
<1>4. ASSUME NEW h \in Hosts, NEW r \in Runs, CheckResume(h, r)
      PROVE  Confirmed'
  <2> Neutral
    BY <1>4
    DEF Neutral, CheckResume, rowVars, hostVars, ghostVars
  <2> QED BY NeutralKeeps
<1>5. ASSUME NEW h \in Hosts, NEW r \in Runs, ResumePlain(h, r)
      PROVE  Confirmed'
  <2> Neutral
    BY <1>5, NoDecision
    DEF Neutral, ResumePlain, NoConf, hostVars, ghostVars
  <2> QED BY NeutralKeeps
<1>6. ASSUME NEW h \in Hosts, NEW r \in Runs, NEW i \in Inventories, AcceptScope(h, r, i)
      PROVE  Confirmed'
  <2> Neutral
    BY <1>6, NoDecision
    DEF Neutral, AcceptScope, NoConf, hostVars, ghostVars
  <2> QED BY NeutralKeeps
<1>7. ASSUME NEW h \in Hosts, NEW r \in Runs, NEW c \in Contents, Proceed(h, r, c)
      PROVE  Confirmed'
  <2>1. ProceedIsGranted'
    BY <1>7 DEF Proceed, UpdateState, NamesPending, Confirmed, ProceedIsGranted, RowType
  <2> QED
    BY <1>7, <2>1 DEF Proceed, Confirmed, EffectIsGranted, EffectsConfirmed
<1>8. ASSUME NEW h \in Hosts, NEW r \in Runs, Decline(h, r)
      PROVE  Confirmed'
  <2>1. [conf[r] EXCEPT !.decision = "decline"].decision = "decline"
    BY DEF RowType, Confirmations
  <2> Neutral
    BY <1>8, <2>1, NoDecision DEF Neutral, Decline, hostVars, ghostVars
  <2> QED BY NeutralKeeps
<1>9. ASSUME NEW h \in Hosts, NEW r \in Runs, RefuseResume(h, r)
      PROVE  Confirmed'
  <2> Neutral
    BY <1>9
    DEF Neutral, RefuseResume, rowVars, hostVars, ghostVars
  <2> QED BY NeutralKeeps
<1>10. ASSUME NEW h \in Hosts, NEW s \in {"blocked", "failed"}, PrepareFails(h, s)
      PROVE  Confirmed'
  <2> Neutral
    BY <1>10, NoDecision
    DEF Neutral, PrepareFails, NoConf, hostVars, ghostVars
  <2> QED BY NeutralKeeps
<1>11. ASSUME NEW h \in Hosts, Schedule(h)
      PROVE  Confirmed'
  <2> Neutral
    BY <1>11, GoesElsewhere
    DEF Neutral, Schedule, rowVars, hostVars, ghostVars
  <2> QED BY NeutralKeeps
<1>12. ASSUME NEW h \in Hosts, LaunchFails(h)
      PROVE  Confirmed'
  <2> Neutral
    BY <1>12, NoDecision
    DEF Neutral, LaunchFails, NoConf, hostVars, ghostVars
  <2> QED BY NeutralKeeps
<1>13. ASSUME NEW h \in Hosts, NEW r \in Runs, EnterRun(h, r)
      PROVE  Confirmed'
  <2> Neutral
    BY <1>13, GoesElsewhere
    DEF Neutral, EnterRun, BeginScan, WorkerVars, rowVars, hostVars, ghostVars
  <2> QED BY NeutralKeeps
<1>14. ASSUME NEW h \in Hosts, NEW r \in Runs, EndScan(h, r)
      PROVE  Confirmed'
  <2> Neutral
    BY <1>14, GoesElsewhere
    DEF Neutral, EndScan, WorkerVars, rowVars, hostVars, ghostVars
  <2> QED BY NeutralKeeps
<1>15. ASSUME NEW h \in Hosts, NEW r \in Runs, SyncAccounting(h, r)
      PROVE  Confirmed'
  <2> Neutral
    BY <1>15, GoesElsewhere
    DEF Neutral, SyncAccounting, WorkerVars, rowVars, hostVars, ghostVars
  <2> QED BY NeutralKeeps
<1>16. ASSUME NEW h \in Hosts, NEW r \in Runs, EnsureScopeReview(h, r)
      PROVE  Confirmed'
  <2> Neutral
    BY <1>16, NoDecision, GoesElsewhere
    DEF Neutral, EnsureScopeReview, NoConf, Asking, WorkerVars, hostVars, ghostVars
  <2> QED BY NeutralKeeps
<1>17. ASSUME NEW h \in Hosts, NEW r \in Runs, EndMedia(h, r)
      PROVE  Confirmed'
  <2> Neutral
    BY <1>17, GoesElsewhere
    DEF Neutral, EndMedia, NextPhase, WorkerVars, rowVars, hostVars, ghostVars
  <2> QED BY NeutralKeeps
<1>18. ASSUME NEW h \in Hosts, NEW r \in Runs, BeginGeo(h, r)
      PROVE  Confirmed'
  <2> Neutral
    BY <1>18, GoesElsewhere
    DEF Neutral, BeginGeo, WorkerVars, rowVars, hostVars, ghostVars
  <2> QED BY NeutralKeeps
<1>19. ASSUME NEW h \in Hosts, NEW r \in Runs, RequireConfirmation(h, r)
      PROVE  Confirmed'
  <2>1. \A q \in Runs : conf'[q].decision = "proceed" => conf'[q] = conf[q]
    <3>1. \/ UNCHANGED conf
          \/ conf' = [conf EXCEPT ![r] = conf[r]]
          \/ UpdateState(r, "paused", Asking("external_effect", Content(r)))
      BY <1>19 DEF RequireConfirmation, UpdateState
    <3>2. CASE UNCHANGED conf
      BY <3>2
    <3>3. CASE conf' = [conf EXCEPT ![r] = conf[r]]
      BY <3>3 DEF RowType
    <3>4. CASE UpdateState(r, "paused", Asking("external_effect", Content(r)))
      <4>1. Asking("external_effect", Content(r)).decision # "proceed"
        BY DEF Asking
      <4> QED BY <3>4, <4>1, NoDecision
    <3> QED BY <3>1, <3>2, <3>3, <3>4
  <2>2. \A g \in Hosts, q \in Runs :
           pc'[g][q] = "effect" => pc[g][q] = "effect" /\ wanted'[g][q] = wanted[g][q]
    <3>1. PICK step \in {"sealing", "blocking", "granted", "leaving", "failing"} :
             Goto(h, r, step)
      BY <1>19 DEF RequireConfirmation
    <3>2. \A g \in Hosts, q \in Runs : pc'[g][q] = "effect" =>
             pc[g][q] = "effect" /\ (g # h \/ q # r)
      BY <3>1 DEF Goto, ThreadType
    <3>3. wanted' = [wanted EXCEPT ![h][r] = Content(r)] \/ UNCHANGED wanted
      BY <1>19 DEF RequireConfirmation
    <3>4. \A g \in Hosts, q \in Runs : g # h \/ q # r => wanted'[g][q] = wanted[g][q]
      BY <3>3 DEF HostType
    <3> QED BY <3>2, <3>4
  <2> QED
    BY <1>19, <2>1, <2>2
    DEF RequireConfirmation, Confirmed, ProceedIsGranted, EffectIsGranted,
       EffectsConfirmed, WorkerVars
<1>20. ASSUME NEW h \in Hosts, NEW r \in Runs, ReadAuthority(h, r)
      PROVE  Confirmed'
  <2>1. ProceedIsGranted' /\ EffectsConfirmed'
    BY <1>20 DEF ReadAuthority, Confirmed, ProceedIsGranted, EffectsConfirmed,
       WorkerVars, rowVars
  <2>2. EffectIsGranted'
    <3>1. CASE Covers(r, wanted[h][r])
      <4>1. <<r, wanted[h][r]>> \in granted
        BY <3>1 DEF Covers, Confirmed, ProceedIsGranted
      <4> QED
        BY <1>20, <3>1, <4>1
        DEF ReadAuthority, Goto, Confirmed, EffectIsGranted, ThreadType, WorkerVars
    <3>2. CASE ~Covers(r, wanted[h][r])
      BY <1>20, <3>2, GoesElsewhere DEF ReadAuthority, Confirmed, EffectIsGranted,
         WorkerVars
    <3> QED BY <3>1, <3>2
  <2> QED BY <2>1, <2>2 DEF Confirmed
<1>21. ASSUME NEW h \in Hosts, NEW r \in Runs, BeginEffect(h, r)
      PROVE  Confirmed'
  <2>1. <<r, wanted[h][r]>> \in granted
    BY <1>21 DEF BeginEffect, Confirmed, EffectIsGranted
  <2>2. EffectsConfirmed'
    BY <1>21, <2>1 DEF BeginEffect, Confirmed, EffectsConfirmed, WorkerVars
  <2>3. ProceedIsGranted' /\ EffectIsGranted'
    BY <1>21, GoesElsewhere
    DEF BeginEffect, Confirmed, ProceedIsGranted, EffectIsGranted, WorkerVars, rowVars
  <2> QED BY <2>2, <2>3 DEF Confirmed
<1>22. ASSUME NEW h \in Hosts, NEW r \in Runs, EndEffect(h, r)
      PROVE  Confirmed'
  <2> Neutral
    BY <1>22, GoesElsewhere
    DEF Neutral, EndEffect, WorkerVars, rowVars, hostVars, ghostVars
  <2> QED BY NeutralKeeps
<1>23. ASSUME NEW h \in Hosts, NEW r \in Runs, SealResult(h, r)
      PROVE  Confirmed'
  <2> Neutral
    BY <1>23, GoesElsewhere
    DEF Neutral, SealResult, WorkerVars, rowVars, hostVars, ghostVars
  <2> QED BY NeutralKeeps
<1>24. ASSUME NEW h \in Hosts, NEW r \in Runs, SetCompleted(h, r)
      PROVE  Confirmed'
  <2> Neutral
    BY <1>24, NoDecision, GoesElsewhere
    DEF Neutral, SetCompleted, NoConf, WorkerVars, hostVars, ghostVars
  <2> QED BY NeutralKeeps
<1>25. ASSUME NEW h \in Hosts, NEW r \in Runs, MarkBlocked(h, r)
      PROVE  Confirmed'
  <2> Neutral
    BY <1>25, NoDecision, GoesElsewhere
    DEF Neutral, MarkBlocked, NoConf, WorkerVars, hostVars, ghostVars
  <2> QED BY NeutralKeeps
<1>26. ASSUME NEW h \in Hosts, NEW r \in Runs, MarkInterrupted(h, r)
      PROVE  Confirmed'
  <2> Neutral
    BY <1>26, NoDecision, GoesElsewhere
    DEF Neutral, MarkInterrupted, NoConf, WorkerVars, hostVars, ghostVars
  <2> QED BY NeutralKeeps
<1>27. ASSUME NEW h \in Hosts, NEW r \in Runs, MarkFailed(h, r)
      PROVE  Confirmed'
  <2> Neutral
    BY <1>27, NoDecision, GoesElsewhere
    DEF Neutral, MarkFailed, NoConf, WorkerVars, hostVars, ghostVars
  <2> QED BY NeutralKeeps
<1>28. ASSUME NEW h \in Hosts, NEW r \in Runs, LeaveRun(h, r)
      PROVE  Confirmed'
  <2> Neutral
    BY <1>28, NoDecision, GoesElsewhere
    DEF Neutral, LeaveRun, NoConf, InterruptIfRunning, WorkerVars, hostVars, ghostVars
  <2> QED BY NeutralKeeps
<1>29. ASSUME NEW h \in Hosts, NEW r \in Runs, ReleaseLease(h, r)
      PROVE  Confirmed'
  <2>1. \A g \in Hosts, q \in Runs :
           pc'[g][q] = "effect" => pc[g][q] = "effect" /\ wanted'[g][q] = wanted[g][q]
    BY <1>29 DEF ReleaseLease, Goto, ThreadType, HostType
  <2> QED
    BY <1>29, <2>1
    DEF ReleaseLease, Confirmed, ProceedIsGranted, EffectIsGranted, EffectsConfirmed,
       WorkerVars
<1>30. ASSUME NEW h \in Hosts, NEW r \in Runs, EndThread(h, r)
      PROVE  Confirmed'
  <2> Neutral
    BY <1>30, NoDecision, GoesElsewhere
    DEF Neutral, EndThread, NoConf, InterruptIfRunning, WorkerVars, hostVars, ghostVars
  <2> QED BY NeutralKeeps
<1>31. ASSUME NEW h \in Hosts, NEW r \in Runs, ForgetThread(h, r)
      PROVE  Confirmed'
  <2> Neutral
    BY <1>31, GoesElsewhere
    DEF Neutral, ForgetThread, WorkerVars, rowVars, hostVars, ghostVars
  <2> QED BY NeutralKeeps
<1>32. ASSUME NEW h \in Hosts, Crash(h)
      PROVE  Confirmed'
  <2>1. \A g \in Hosts, q \in Runs :
           pc'[g][q] = "effect" => pc[g][q] = "effect" /\ wanted'[g][q] = wanted[g][q]
    BY <1>32 DEF Crash, ThreadType, HostType
  <2> QED
    BY <1>32, <2>1 DEF Crash, Confirmed, ProceedIsGranted, EffectIsGranted,
       EffectsConfirmed, ghostVars
<1>33. ASSUME NEW h \in Hosts, NEW r \in Runs, MeetsCondition(h, r)
      PROVE  Confirmed'
  <2> Neutral
    BY <1>33, GoesElsewhere
    DEF Neutral, MeetsCondition, WorkerVars, rowVars, hostVars, ghostVars
  <2> QED BY NeutralKeeps
<1>34. ASSUME NEW h \in Hosts, NEW r \in Runs, WorkerRaises(h, r)
      PROVE  Confirmed'
  <2> Neutral
    BY <1>34, GoesElsewhere
    DEF Neutral, WorkerRaises, WorkerVars, rowVars, hostVars, ghostVars
  <2> QED BY NeutralKeeps
<1>35. ASSUME NEW h \in Hosts, NEW r \in Runs, Heartbeat(h, r)
      PROVE  Confirmed'
  <2> Neutral
    BY <1>35
    DEF Neutral, Heartbeat, WorkerVars, rowVars, hostVars, ghostVars
  <2> QED BY NeutralKeeps
<1>36. ASSUME NEW r \in Runs, LeaseExpires(r)
      PROVE  Confirmed'
  <2> Neutral
    BY <1>36
    DEF Neutral, LeaseExpires, rowVars, hostVars, ghostVars
  <2> QED BY NeutralKeeps
<1>37. ASSUME SourceChanges
      PROVE  Confirmed'
  <2> Neutral
    BY <1>37
    DEF Neutral, SourceChanges, rowVars, hostVars, ghostVars
  <2> QED BY NeutralKeeps
<1>38. CASE UNCHANGED vars
  BY <1>38, NeutralKeeps DEF Neutral, vars, rowVars, hostVars, ghostVars
<1> QED
  BY <1>1, <1>2, <1>3, <1>4, <1>5, <1>6, <1>7, <1>8, <1>9, <1>10, <1>11, <1>12, <1>13,
     <1>14, <1>15, <1>16, <1>17, <1>18, <1>19, <1>20, <1>21, <1>22, <1>23, <1>24, <1>25,
     <1>26, <1>27, <1>28, <1>29, <1>30, <1>31, <1>32, <1>33, <1>34, <1>35, <1>36, <1>37,
     <1>38 DEF Next, Human, Worker, Environment

\* What was sent out had been confirmed by the Human, for that Run and in those
\* words, whichever Host sent it and whatever stopped the Run in between.
THEOREM EffectsAreConfirmed == Spec => []EffectsConfirmed
<1>1. Spec => []Types
  BY TypeInit, TypeStep, PTL DEF Spec
<1>2. Spec => []Confirmed
  BY <1>1, ConfirmedInit, ConfirmedStep, PTL DEF Spec
<1>3. Confirmed => EffectsConfirmed
  BY DEF Confirmed
<1> QED BY <1>2, <1>3, PTL

-----------------------------------------------------------------------------
(* One execution of a disclosure at a time.                                *)

\* The Geo production of a Run has one owner.
GeoAlone ==
  \A r \in Runs : \A h, other \in Hosts :
     pc[h][r] \in GeoSteps /\ pc[other][r] \in GeoSteps => other = h

\* A step by which no thread enters the Geo production.
NobodyEnters ==
  \A h \in Hosts, r \in Runs : pc'[h][r] \in GeoSteps => pc[h][r] \in GeoSteps

\* Such a step leaves the production with its owner.
LEMMA NobodyEntersKeeps == GeoAlone /\ NobodyEnters => GeoAlone'
BY DEF GeoAlone, NobodyEnters

\* A thread that goes on inside the production, or elsewhere, does not enter it.
LEMMA NotEntering ==
  ASSUME ThreadType, NEW h \in Hosts, NEW r \in Runs, NEW step, Goto(h, r, step),
         step \notin GeoSteps \/ pc[h][r] \in GeoSteps
  PROVE  NobodyEnters
BY DEF ThreadType, Goto, NobodyEnters

\* The production is entered only past the ownership lock.
LEMMA GeoAloneStep == Types /\ GeoAlone /\ [Next]_vars => GeoAlone'
<1> SUFFICES ASSUME Types, GeoAlone, [Next]_vars PROVE GeoAlone'
  OBVIOUS
<1> ThreadType
  BY DEF Types
<1>1. ASSUME NEW r \in Runs, Pause(r)
      PROVE  GeoAlone'
  BY <1>1, NobodyEntersKeeps DEF Pause, NobodyEnters, hostVars
<1>2. ASSUME NEW r \in Runs, Cancel(r)
      PROVE  GeoAlone'
  BY <1>2, NobodyEntersKeeps DEF Cancel, NobodyEnters, hostVars
<1>3. ASSUME NEW h \in Hosts, NEW r \in Runs, Start(h, r)
      PROVE  GeoAlone'
  BY <1>3, NobodyEntersKeeps DEF Start, NobodyEnters, hostVars
<1>4. ASSUME NEW h \in Hosts, NEW r \in Runs, CheckResume(h, r)
      PROVE  GeoAlone'
  BY <1>4, NobodyEntersKeeps DEF CheckResume, NobodyEnters, hostVars
<1>5. ASSUME NEW h \in Hosts, NEW r \in Runs, ResumePlain(h, r)
      PROVE  GeoAlone'
  BY <1>5, NobodyEntersKeeps DEF ResumePlain, NobodyEnters, hostVars
<1>6. ASSUME NEW h \in Hosts, NEW r \in Runs, NEW i \in Inventories, AcceptScope(h, r, i)
      PROVE  GeoAlone'
  BY <1>6, NobodyEntersKeeps DEF AcceptScope, NobodyEnters, hostVars
<1>7. ASSUME NEW h \in Hosts, NEW r \in Runs, NEW c \in Contents, Proceed(h, r, c)
      PROVE  GeoAlone'
  BY <1>7, NobodyEntersKeeps DEF Proceed, NobodyEnters, hostVars
<1>8. ASSUME NEW h \in Hosts, NEW r \in Runs, Decline(h, r)
      PROVE  GeoAlone'
  BY <1>8, NobodyEntersKeeps DEF Decline, NobodyEnters, hostVars
<1>9. ASSUME NEW h \in Hosts, NEW r \in Runs, RefuseResume(h, r)
      PROVE  GeoAlone'
  BY <1>9, NobodyEntersKeeps DEF RefuseResume, NobodyEnters, hostVars
<1>10. ASSUME NEW h \in Hosts, NEW s \in {"blocked", "failed"}, PrepareFails(h, s)
      PROVE  GeoAlone'
  BY <1>10, NobodyEntersKeeps DEF PrepareFails, NobodyEnters, hostVars
<1>11. ASSUME NEW h \in Hosts, Schedule(h)
      PROVE  GeoAlone'
  <2> NobodyEnters
    BY <1>11 DEF Schedule, Goto, ThreadType, NobodyEnters, GeoSteps
  <2> QED BY NobodyEntersKeeps
<1>12. ASSUME NEW h \in Hosts, LaunchFails(h)
      PROVE  GeoAlone'
  BY <1>12, NobodyEntersKeeps DEF LaunchFails, NobodyEnters, hostVars
<1>13. ASSUME NEW h \in Hosts, NEW r \in Runs, EnterRun(h, r)
      PROVE  GeoAlone'
  <2> NobodyEnters
    BY <1>13, NotEntering DEF EnterRun, BeginScan, GeoSteps
  <2> QED BY NobodyEntersKeeps
<1>14. ASSUME NEW h \in Hosts, NEW r \in Runs, EndScan(h, r)
      PROVE  GeoAlone'
  <2> NobodyEnters
    BY <1>14, NotEntering DEF EndScan, GeoSteps
  <2> QED BY NobodyEntersKeeps
<1>15. ASSUME NEW h \in Hosts, NEW r \in Runs, SyncAccounting(h, r)
      PROVE  GeoAlone'
  <2> NobodyEnters
    BY <1>15, NotEntering DEF SyncAccounting, GeoSteps
  <2> QED BY NobodyEntersKeeps
<1>16. ASSUME NEW h \in Hosts, NEW r \in Runs, EnsureScopeReview(h, r)
      PROVE  GeoAlone'
  <2> NobodyEnters
    BY <1>16, NotEntering DEF EnsureScopeReview, GeoSteps
  <2> QED BY NobodyEntersKeeps
<1>17. ASSUME NEW h \in Hosts, NEW r \in Runs, EndMedia(h, r)
      PROVE  GeoAlone'
  <2> NobodyEnters
    BY <1>17, NotEntering DEF EndMedia, NextPhase, GeoSteps
  <2> QED BY NobodyEntersKeeps
<1>18. ASSUME NEW h \in Hosts, NEW r \in Runs, BeginGeo(h, r)
      PROVE  GeoAlone'
  <2>1. CASE Goto(h, r, "failing")
    BY <2>1, NotEntering, NobodyEntersKeeps DEF GeoSteps
  <2>2. CASE Goto(h, r, "asking") /\ ~GeoOwned(h, r)
    BY <2>2 DEF Goto, GeoOwned, GeoAlone, ThreadType
  <2> QED BY <1>18, <2>1, <2>2 DEF BeginGeo
<1>19. ASSUME NEW h \in Hosts, NEW r \in Runs, RequireConfirmation(h, r)
      PROVE  GeoAlone'
  <2> NobodyEnters
    BY <1>19, NotEntering DEF RequireConfirmation, GeoSteps
  <2> QED BY NobodyEntersKeeps
<1>20. ASSUME NEW h \in Hosts, NEW r \in Runs, ReadAuthority(h, r)
      PROVE  GeoAlone'
  <2> NobodyEnters
    BY <1>20, NotEntering DEF ReadAuthority, GeoSteps
  <2> QED BY NobodyEntersKeeps
<1>21. ASSUME NEW h \in Hosts, NEW r \in Runs, BeginEffect(h, r)
      PROVE  GeoAlone'
  <2> NobodyEnters
    BY <1>21, NotEntering DEF BeginEffect, GeoSteps
  <2> QED BY NobodyEntersKeeps
<1>22. ASSUME NEW h \in Hosts, NEW r \in Runs, EndEffect(h, r)
      PROVE  GeoAlone'
  <2> NobodyEnters
    BY <1>22, NotEntering DEF EndEffect, GeoSteps
  <2> QED BY NobodyEntersKeeps
<1>23. ASSUME NEW h \in Hosts, NEW r \in Runs, SealResult(h, r)
      PROVE  GeoAlone'
  <2> NobodyEnters
    BY <1>23, NotEntering DEF SealResult, GeoSteps
  <2> QED BY NobodyEntersKeeps
<1>24. ASSUME NEW h \in Hosts, NEW r \in Runs, SetCompleted(h, r)
      PROVE  GeoAlone'
  <2> NobodyEnters
    BY <1>24, NotEntering DEF SetCompleted, GeoSteps
  <2> QED BY NobodyEntersKeeps
<1>25. ASSUME NEW h \in Hosts, NEW r \in Runs, MarkBlocked(h, r)
      PROVE  GeoAlone'
  <2> NobodyEnters
    BY <1>25, NotEntering DEF MarkBlocked, GeoSteps
  <2> QED BY NobodyEntersKeeps
<1>26. ASSUME NEW h \in Hosts, NEW r \in Runs, MarkInterrupted(h, r)
      PROVE  GeoAlone'
  <2> NobodyEnters
    BY <1>26, NotEntering DEF MarkInterrupted, GeoSteps
  <2> QED BY NobodyEntersKeeps
<1>27. ASSUME NEW h \in Hosts, NEW r \in Runs, MarkFailed(h, r)
      PROVE  GeoAlone'
  <2> NobodyEnters
    BY <1>27, NotEntering DEF MarkFailed, GeoSteps
  <2> QED BY NobodyEntersKeeps
<1>28. ASSUME NEW h \in Hosts, NEW r \in Runs, LeaveRun(h, r)
      PROVE  GeoAlone'
  <2> NobodyEnters
    BY <1>28, NotEntering DEF LeaveRun, GeoSteps
  <2> QED BY NobodyEntersKeeps
<1>29. ASSUME NEW h \in Hosts, NEW r \in Runs, ReleaseLease(h, r)
      PROVE  GeoAlone'
  <2> NobodyEnters
    BY <1>29, NotEntering DEF ReleaseLease, GeoSteps
  <2> QED BY NobodyEntersKeeps
<1>30. ASSUME NEW h \in Hosts, NEW r \in Runs, EndThread(h, r)
      PROVE  GeoAlone'
  <2> NobodyEnters
    BY <1>30, NotEntering DEF EndThread, GeoSteps
  <2> QED BY NobodyEntersKeeps
<1>31. ASSUME NEW h \in Hosts, NEW r \in Runs, ForgetThread(h, r)
      PROVE  GeoAlone'
  <2> NobodyEnters
    BY <1>31, NotEntering DEF ForgetThread, GeoSteps
  <2> QED BY NobodyEntersKeeps
<1>32. ASSUME NEW h \in Hosts, Crash(h)
      PROVE  GeoAlone'
  <2> NobodyEnters
    BY <1>32 DEF Crash, ThreadType, NobodyEnters, GeoSteps
  <2> QED BY NobodyEntersKeeps
<1>33. ASSUME NEW h \in Hosts, NEW r \in Runs, MeetsCondition(h, r)
      PROVE  GeoAlone'
  <2> NobodyEnters
    BY <1>33, NotEntering DEF MeetsCondition, GeoSteps
  <2> QED BY NobodyEntersKeeps
<1>34. ASSUME NEW h \in Hosts, NEW r \in Runs, WorkerRaises(h, r)
      PROVE  GeoAlone'
  <2> NobodyEnters
    BY <1>34, NotEntering DEF WorkerRaises, GeoSteps
  <2> QED BY NobodyEntersKeeps
<1>35. ASSUME NEW h \in Hosts, NEW r \in Runs, Heartbeat(h, r)
      PROVE  GeoAlone'
  BY <1>35, NobodyEntersKeeps DEF Heartbeat, NobodyEnters, hostVars
<1>36. ASSUME NEW r \in Runs, LeaseExpires(r)
      PROVE  GeoAlone'
  BY <1>36, NobodyEntersKeeps DEF LeaseExpires, NobodyEnters, hostVars
<1>37. ASSUME SourceChanges
      PROVE  GeoAlone'
  BY <1>37, NobodyEntersKeeps DEF SourceChanges, NobodyEnters, hostVars
<1>38. CASE UNCHANGED vars
  BY <1>38, NobodyEntersKeeps DEF NobodyEnters, vars, hostVars
<1> QED
  BY <1>1, <1>2, <1>3, <1>4, <1>5, <1>6, <1>7, <1>8, <1>9, <1>10, <1>11, <1>12, <1>13,
     <1>14, <1>15, <1>16, <1>17, <1>18, <1>19, <1>20, <1>21, <1>22, <1>23, <1>24, <1>25,
     <1>26, <1>27, <1>28, <1>29, <1>30, <1>31, <1>32, <1>33, <1>34, <1>35, <1>36, <1>37,
     <1>38 DEF Next, Human, Worker, Environment

\* While a disclosure is being executed no other thread of any Host is between
\* asking for it and its outcome.
THEOREM ExecutionsAreSingle == Spec => []OneExecution
<1>1. Init => GeoAlone
  BY DEF Init, GeoAlone, GeoSteps
<1>2. Spec => []Types
  BY TypeInit, TypeStep, PTL DEF Spec
<1>3. Spec => []GeoAlone
  BY <1>1, <1>2, GeoAloneStep, PTL DEF Spec
<1>4. GeoAlone => OneExecution
  BY DEF GeoAlone, OneExecution, GeoSteps
<1> QED BY <1>3, <1>4, PTL

-----------------------------------------------------------------------------
(* Ends.                                                                   *)

\* A step that leaves every ended Run alone.
KeepsEnds == \A r \in Runs : state[r] \in Terminal => state'[r] = state[r]

\* The update of a Run that has not ended leaves every end alone.
LEMMA UpdatesUnended ==
  ASSUME RowType, NEW r, NEW s, NEW c, UpdateState(r, s, c),
         r \in Runs => state[r] \notin Terminal
  PROVE  KeepsEnds
BY DEF RowType, UpdateState, KeepsEnds

\* What EndsAreFinal says of one step.
EndLeft ==
  \A r \in Runs : state[r] \in Terminal /\ state'[r] # state[r] =>
     /\ state'[r] = "paused" /\ conf'[r].kind = "source_scope"
     /\ \E h \in Hosts : pc[h][r] = "review"

\* Every update of a Run row but that of the scope review looks at the state first.
LEMMA EndLeftStep == Types /\ [Next]_vars => EndLeft
<1> SUFFICES ASSUME Types, [Next]_vars PROVE EndLeft
  OBVIOUS
<1> RowType
  BY DEF Types
<1>0. KeepsEnds => EndLeft
  BY DEF KeepsEnds, EndLeft
<1>1. ASSUME NEW r \in Runs, Pause(r)
      PROVE  EndLeft
  <2> KeepsEnds
    BY <1>1, UpdatesUnended DEF Pause, KeepsEnds, Unfinished, Terminal
  <2> QED BY <1>0
<1>2. ASSUME NEW r \in Runs, Cancel(r)
      PROVE  EndLeft
  <2> KeepsEnds
    BY <1>2, UpdatesUnended DEF Cancel, KeepsEnds, Unfinished, Terminal
  <2> QED BY <1>0
<1>3. ASSUME NEW h \in Hosts, NEW r \in Runs, Start(h, r)
      PROVE  EndLeft
  BY <1>3, <1>0 DEF Start, KeepsEnds, RowType, Terminal
<1>4. ASSUME NEW h \in Hosts, NEW r \in Runs, CheckResume(h, r)
      PROVE  EndLeft
  BY <1>4, <1>0 DEF CheckResume, KeepsEnds, rowVars
<1>5. ASSUME NEW h \in Hosts, NEW r \in Runs, ResumePlain(h, r)
      PROVE  EndLeft
  <2> KeepsEnds
    BY <1>5, UpdatesUnended DEF ResumePlain, KeepsEnds, Unfinished, Terminal
  <2> QED BY <1>0
<1>6. ASSUME NEW h \in Hosts, NEW r \in Runs, NEW i \in Inventories, AcceptScope(h, r, i)
      PROVE  EndLeft
  <2> KeepsEnds
    BY <1>6, UpdatesUnended DEF AcceptScope, KeepsEnds, Unfinished, Terminal
  <2> QED BY <1>0
<1>7. ASSUME NEW h \in Hosts, NEW r \in Runs, NEW c \in Contents, Proceed(h, r, c)
      PROVE  EndLeft
  <2> KeepsEnds
    BY <1>7, UpdatesUnended DEF Proceed, KeepsEnds, Unfinished, Terminal
  <2> QED BY <1>0
<1>8. ASSUME NEW h \in Hosts, NEW r \in Runs, Decline(h, r)
      PROVE  EndLeft
  <2> KeepsEnds
    BY <1>8, UpdatesUnended DEF Decline, KeepsEnds, Unfinished, Terminal
  <2> QED BY <1>0
<1>9. ASSUME NEW h \in Hosts, NEW r \in Runs, RefuseResume(h, r)
      PROVE  EndLeft
  BY <1>9, <1>0 DEF RefuseResume, KeepsEnds, rowVars
<1>10. ASSUME NEW h \in Hosts, NEW s \in {"blocked", "failed"}, PrepareFails(h, s)
      PROVE  EndLeft
  <2> KeepsEnds
    BY <1>10, UpdatesUnended DEF PrepareFails, KeepsEnds, Unfinished, Terminal
  <2> QED BY <1>0
<1>11. ASSUME NEW h \in Hosts, Schedule(h)
      PROVE  EndLeft
  BY <1>11, <1>0 DEF Schedule, KeepsEnds, rowVars
<1>12. ASSUME NEW h \in Hosts, LaunchFails(h)
      PROVE  EndLeft
  <2> KeepsEnds
    BY <1>12, UpdatesUnended DEF LaunchFails, KeepsEnds, Unfinished, Terminal
  <2> QED BY <1>0
<1>13. ASSUME NEW h \in Hosts, NEW r \in Runs, EnterRun(h, r)
      PROVE  EndLeft
  BY <1>13, <1>0 DEF EnterRun, KeepsEnds, rowVars, WorkerVars
<1>14. ASSUME NEW h \in Hosts, NEW r \in Runs, EndScan(h, r)
      PROVE  EndLeft
  BY <1>14, <1>0 DEF EndScan, KeepsEnds, rowVars, WorkerVars
<1>15. ASSUME NEW h \in Hosts, NEW r \in Runs, SyncAccounting(h, r)
      PROVE  EndLeft
  BY <1>15, <1>0 DEF SyncAccounting, KeepsEnds, rowVars, WorkerVars
<1>16. ASSUME NEW h \in Hosts, NEW r \in Runs, EnsureScopeReview(h, r)
      PROVE  EndLeft
  <2>1. CASE UNCHANGED state
    BY <2>1, <1>0 DEF KeepsEnds
  <2>2. CASE UpdateState(r, "paused", Asking("source_scope", [of |-> acc[r].inv, try |-> 0]))
    BY <1>16, <2>2 DEF EnsureScopeReview, UpdateState, Asking, RowType, EndLeft
  <2> QED BY <1>16, <2>1, <2>2 DEF EnsureScopeReview
<1>17. ASSUME NEW h \in Hosts, NEW r \in Runs, EndMedia(h, r)
      PROVE  EndLeft
  BY <1>17, <1>0 DEF EndMedia, KeepsEnds, rowVars, WorkerVars
<1>18. ASSUME NEW h \in Hosts, NEW r \in Runs, BeginGeo(h, r)
      PROVE  EndLeft
  BY <1>18, <1>0 DEF BeginGeo, KeepsEnds, rowVars, WorkerVars
<1>19. ASSUME NEW h \in Hosts, NEW r \in Runs, RequireConfirmation(h, r)
      PROVE  EndLeft
  <2> KeepsEnds
    BY <1>19, UpdatesUnended DEF RequireConfirmation, KeepsEnds, Unfinished, Terminal
  <2> QED BY <1>0
<1>20. ASSUME NEW h \in Hosts, NEW r \in Runs, ReadAuthority(h, r)
      PROVE  EndLeft
  BY <1>20, <1>0 DEF ReadAuthority, KeepsEnds, rowVars, WorkerVars
<1>21. ASSUME NEW h \in Hosts, NEW r \in Runs, BeginEffect(h, r)
      PROVE  EndLeft
  BY <1>21, <1>0 DEF BeginEffect, KeepsEnds, rowVars, WorkerVars
<1>22. ASSUME NEW h \in Hosts, NEW r \in Runs, EndEffect(h, r)
      PROVE  EndLeft
  BY <1>22, <1>0 DEF EndEffect, KeepsEnds, rowVars, WorkerVars
<1>23. ASSUME NEW h \in Hosts, NEW r \in Runs, SealResult(h, r)
      PROVE  EndLeft
  BY <1>23, <1>0 DEF SealResult, KeepsEnds, rowVars, WorkerVars
<1>24. ASSUME NEW h \in Hosts, NEW r \in Runs, SetCompleted(h, r)
      PROVE  EndLeft
  <2> KeepsEnds
    BY <1>24, UpdatesUnended DEF SetCompleted, KeepsEnds, Unfinished, Terminal
  <2> QED BY <1>0
<1>25. ASSUME NEW h \in Hosts, NEW r \in Runs, MarkBlocked(h, r)
      PROVE  EndLeft
  <2> KeepsEnds
    BY <1>25, UpdatesUnended DEF MarkBlocked, KeepsEnds, Unfinished, Terminal
  <2> QED BY <1>0
<1>26. ASSUME NEW h \in Hosts, NEW r \in Runs, MarkInterrupted(h, r)
      PROVE  EndLeft
  <2> KeepsEnds
    BY <1>26, UpdatesUnended DEF MarkInterrupted, KeepsEnds, Unfinished, Terminal
  <2> QED BY <1>0
<1>27. ASSUME NEW h \in Hosts, NEW r \in Runs, MarkFailed(h, r)
      PROVE  EndLeft
  <2> KeepsEnds
    BY <1>27, UpdatesUnended DEF MarkFailed, KeepsEnds, Unfinished, Terminal
  <2> QED BY <1>0
<1>28. ASSUME NEW h \in Hosts, NEW r \in Runs, LeaveRun(h, r)
      PROVE  EndLeft
  <2> KeepsEnds
    BY <1>28, UpdatesUnended DEF LeaveRun, InterruptIfRunning, KeepsEnds, Unfinished,
       Terminal
  <2> QED BY <1>0
<1>29. ASSUME NEW h \in Hosts, NEW r \in Runs, ReleaseLease(h, r)
      PROVE  EndLeft
  BY <1>29, <1>0 DEF ReleaseLease, KeepsEnds, rowVars, WorkerVars
<1>30. ASSUME NEW h \in Hosts, NEW r \in Runs, EndThread(h, r)
      PROVE  EndLeft
  <2> KeepsEnds
    BY <1>30, UpdatesUnended DEF EndThread, InterruptIfRunning, KeepsEnds, Unfinished,
       Terminal
  <2> QED BY <1>0
<1>31. ASSUME NEW h \in Hosts, NEW r \in Runs, ForgetThread(h, r)
      PROVE  EndLeft
  BY <1>31, <1>0 DEF ForgetThread, KeepsEnds, rowVars, WorkerVars
<1>32. ASSUME NEW h \in Hosts, Crash(h)
      PROVE  EndLeft
  BY <1>32, <1>0 DEF Crash, KeepsEnds, rowVars
<1>33. ASSUME NEW h \in Hosts, NEW r \in Runs, MeetsCondition(h, r)
      PROVE  EndLeft
  BY <1>33, <1>0 DEF MeetsCondition, KeepsEnds, rowVars, WorkerVars
<1>34. ASSUME NEW h \in Hosts, NEW r \in Runs, WorkerRaises(h, r)
      PROVE  EndLeft
  BY <1>34, <1>0 DEF WorkerRaises, KeepsEnds, rowVars, WorkerVars
<1>35. ASSUME NEW h \in Hosts, NEW r \in Runs, Heartbeat(h, r)
      PROVE  EndLeft
  BY <1>35, <1>0 DEF Heartbeat, KeepsEnds, rowVars, WorkerVars
<1>36. ASSUME NEW r \in Runs, LeaseExpires(r)
      PROVE  EndLeft
  BY <1>36, <1>0 DEF LeaseExpires, KeepsEnds, rowVars
<1>37. ASSUME SourceChanges
      PROVE  EndLeft
  BY <1>37, <1>0 DEF SourceChanges, KeepsEnds, rowVars
<1>38. CASE UNCHANGED vars
  BY <1>38, <1>0 DEF KeepsEnds, vars, rowVars
<1> QED
  BY <1>1, <1>2, <1>3, <1>4, <1>5, <1>6, <1>7, <1>8, <1>9, <1>10, <1>11, <1>12, <1>13,
     <1>14, <1>15, <1>16, <1>17, <1>18, <1>19, <1>20, <1>21, <1>22, <1>23, <1>24, <1>25,
     <1>26, <1>27, <1>28, <1>29, <1>30, <1>31, <1>32, <1>33, <1>34, <1>35, <1>36, <1>37,
     <1>38 DEF Next, Human, Worker, Environment

\* An ended Run is left alone by every control, every worker and every fault, but
\* for a worker that was already about to ask for the scope of that Run.
THEOREM OnlyReviewReopens == Spec => EndsAreFinal
<1>1. Types /\ [Next]_vars => [EndLeft]_vars
  BY EndLeftStep
<1>2. Spec => []Types
  BY TypeInit, TypeStep, PTL DEF Spec
<1> QED BY <1>1, <1>2, PTL DEF Spec, EndsAreFinal, EndLeft

-----------------------------------------------------------------------------
(* One worker at a time shows signs of life.                               *)

\* A worker that shows signs of life holds the lease, and keeps it fresh.
LeaseHeld ==
  \A h \in Hosts, r \in Runs :
     /\ Beating(h, r) => lease[r].owner = h /\ lease[r].fresh
     /\ beating[h][r] => pc[h][r] \notin Outside

\* No thread begins, and none that may beat goes out of its body.
Goes ==
  \A h \in Hosts, r \in Runs :
     \/ pc'[h][r] = pc[h][r]
     \/ pc'[h][r] # "claimed" /\ (pc'[h][r] \in Outside => pc[h][r] \in Outside)

\* Neither do leases and heartbeats change.
Quiet == Goes /\ UNCHANGED <<lease, beating>>

\* Such a step keeps the lease with whoever shows signs of life.
LEMMA QuietKeeps == LeaseHeld /\ Quiet => LeaseHeld'
BY DEF LeaseHeld, Quiet, Goes, Beating

\* A thread that moves on inside its body, or outside of it without beginning.
LEMMA GoesOn ==
  ASSUME ThreadType, NEW h \in Hosts, NEW r \in Runs, NEW step, Goto(h, r, step),
         step \notin Outside \/ (step # "claimed" /\ pc[h][r] \in Outside)
  PROVE  Goes
BY DEF ThreadType, Goto, Goes, Outside

\* try_claim takes only a lease that is free or stale, and the lease of a worker
\* that beats is neither (_run_sqlite.py, composition.py).
LEMMA LeaseHeldStep == Types /\ LeaseHeld /\ [Next]_vars => LeaseHeld'
<1> SUFFICES ASSUME Types, LeaseHeld, [Next]_vars PROVE LeaseHeld'
  OBVIOUS
<1> ThreadType /\ HostType /\ LeaseType
  BY DEF Types
<1>1. ASSUME NEW r \in Runs, Pause(r)
      PROVE  LeaseHeld'
  BY <1>1, QuietKeeps DEF Pause, Quiet, Goes, hostVars
<1>2. ASSUME NEW r \in Runs, Cancel(r)
      PROVE  LeaseHeld'
  BY <1>2, QuietKeeps DEF Cancel, Quiet, Goes, hostVars
<1>3. ASSUME NEW h \in Hosts, NEW r \in Runs, Start(h, r)
      PROVE  LeaseHeld'
  BY <1>3, QuietKeeps DEF Start, Quiet, Goes, rowVars
<1>4. ASSUME NEW h \in Hosts, NEW r \in Runs, CheckResume(h, r)
      PROVE  LeaseHeld'
  BY <1>4, QuietKeeps DEF CheckResume, Quiet, Goes, rowVars
<1>5. ASSUME NEW h \in Hosts, NEW r \in Runs, ResumePlain(h, r)
      PROVE  LeaseHeld'
  BY <1>5, QuietKeeps DEF ResumePlain, Quiet, Goes, rowVars
<1>6. ASSUME NEW h \in Hosts, NEW r \in Runs, NEW i \in Inventories, AcceptScope(h, r, i)
      PROVE  LeaseHeld'
  BY <1>6, QuietKeeps DEF AcceptScope, Quiet, Goes, rowVars
<1>7. ASSUME NEW h \in Hosts, NEW r \in Runs, NEW c \in Contents, Proceed(h, r, c)
      PROVE  LeaseHeld'
  BY <1>7, QuietKeeps DEF Proceed, Quiet, Goes, rowVars
<1>8. ASSUME NEW h \in Hosts, NEW r \in Runs, Decline(h, r)
      PROVE  LeaseHeld'
  BY <1>8, QuietKeeps DEF Decline, Quiet, Goes, rowVars
<1>9. ASSUME NEW h \in Hosts, NEW r \in Runs, RefuseResume(h, r)
      PROVE  LeaseHeld'
  BY <1>9, QuietKeeps DEF RefuseResume, Quiet, Goes, rowVars
<1>10. ASSUME NEW h \in Hosts, NEW s \in {"blocked", "failed"}, PrepareFails(h, s)
      PROVE  LeaseHeld'
  BY <1>10, QuietKeeps DEF PrepareFails, Quiet, Goes, rowVars
<1>11. ASSUME NEW h \in Hosts, Schedule(h)
      PROVE  LeaseHeld'
  <2> DEFINE s == call[h].run
  <2>1. CASE UNCHANGED <<lease, pc>>
    BY <1>11, <2>1, QuietKeeps DEF Schedule, Quiet, Goes
  <2>2. CASE ~Alive(h, s) /\ Claimable(s) /\ Goto(h, s, "claimed")
             /\ lease' = [lease EXCEPT ![s] = [owner |-> h, fresh |-> TRUE]]
    <3>1. \A other \in Hosts : s \in Runs => ~Beating(other, s)
      BY <2>2, NamesAssumption DEF Alive, Claimable, Beating, LeaseHeld, Outside
    <3>2. beating' = beating
      BY <1>11 DEF Schedule
    <3> HIDE DEF s
    <3> QED BY <2>2, <3>1, <3>2 DEF LeaseHeld, Beating, Goto, ThreadType, LeaseType, Outside
  <2> QED BY <1>11, <2>1, <2>2 DEF Schedule
<1>12. ASSUME NEW h \in Hosts, LaunchFails(h)
      PROVE  LeaseHeld'
  <2> DEFINE s == call[h].run
  <2>1. \A other \in Hosts : s \in Runs => ~Beating(other, s)
    BY <1>12, NamesAssumption DEF LaunchFails, Claimable, Beating, LeaseHeld, Outside
  <2>2. lease' = [lease EXCEPT ![s] = [owner |-> NoHost, fresh |-> FALSE]]
        /\ UNCHANGED <<beating, pc>>
    BY <1>12 DEF LaunchFails
  <2> HIDE DEF s
  <2> QED BY <2>1, <2>2 DEF LeaseHeld, Beating, LeaseType
<1>13. ASSUME NEW h \in Hosts, NEW r \in Runs, EnterRun(h, r)
      PROVE  LeaseHeld'
  <2>1. CASE state[r] = "running" /\ lease[r].owner = h
    <3>1. lease' = lease /\ beating' = [beating EXCEPT ![h][r] = TRUE]
      BY <1>13, <2>1 DEF EnterRun, rowVars
    <3>2. \E step \in {"scanned", "scanning"} : Goto(h, r, step)
      BY <1>13, <2>1 DEF EnterRun, BeginScan
    <3>3. Beating(h, r)
      BY <1>13 DEF EnterRun, Beating
    <3> QED BY <3>1, <3>2, <3>3 DEF LeaseHeld, Beating, Goto, ThreadType, HostType, Outside
  <2>2. CASE ~(state[r] = "running" /\ lease[r].owner = h)
    <3> Goes
      BY <1>13, <2>2, GoesOn DEF EnterRun, Outside
    <3> QED BY <1>13, <2>2, QuietKeeps DEF EnterRun, Quiet, rowVars
  <2> QED BY <2>1, <2>2
<1>14. ASSUME NEW h \in Hosts, NEW r \in Runs, EndScan(h, r)
      PROVE  LeaseHeld'
  <2> Goes
    BY <1>14, GoesOn DEF EndScan, Outside
  <2> QED BY <1>14, QuietKeeps DEF EndScan, Quiet, rowVars
<1>15. ASSUME NEW h \in Hosts, NEW r \in Runs, SyncAccounting(h, r)
      PROVE  LeaseHeld'
  <2> Goes
    BY <1>15, GoesOn DEF SyncAccounting, Outside
  <2> QED BY <1>15, QuietKeeps DEF SyncAccounting, Quiet, rowVars
<1>16. ASSUME NEW h \in Hosts, NEW r \in Runs, EnsureScopeReview(h, r)
      PROVE  LeaseHeld'
  <2> Goes
    BY <1>16, GoesOn DEF EnsureScopeReview, Outside
  <2> QED BY <1>16, QuietKeeps DEF EnsureScopeReview, Quiet
<1>17. ASSUME NEW h \in Hosts, NEW r \in Runs, EndMedia(h, r)
      PROVE  LeaseHeld'
  <2> Goes
    BY <1>17, GoesOn DEF EndMedia, NextPhase, Outside
  <2> QED BY <1>17, QuietKeeps DEF EndMedia, Quiet, rowVars
<1>18. ASSUME NEW h \in Hosts, NEW r \in Runs, BeginGeo(h, r)
      PROVE  LeaseHeld'
  <2> Goes
    BY <1>18, GoesOn DEF BeginGeo, Outside
  <2> QED BY <1>18, QuietKeeps DEF BeginGeo, Quiet, rowVars
<1>19. ASSUME NEW h \in Hosts, NEW r \in Runs, RequireConfirmation(h, r)
      PROVE  LeaseHeld'
  <2> Goes
    BY <1>19, GoesOn DEF RequireConfirmation, Outside
  <2> QED BY <1>19, QuietKeeps DEF RequireConfirmation, Quiet
<1>20. ASSUME NEW h \in Hosts, NEW r \in Runs, ReadAuthority(h, r)
      PROVE  LeaseHeld'
  <2> Goes
    BY <1>20, GoesOn DEF ReadAuthority, Outside
  <2> QED BY <1>20, QuietKeeps DEF ReadAuthority, Quiet, rowVars
<1>21. ASSUME NEW h \in Hosts, NEW r \in Runs, BeginEffect(h, r)
      PROVE  LeaseHeld'
  <2> Goes
    BY <1>21, GoesOn DEF BeginEffect, Outside
  <2> QED BY <1>21, QuietKeeps DEF BeginEffect, Quiet, rowVars
<1>22. ASSUME NEW h \in Hosts, NEW r \in Runs, EndEffect(h, r)
      PROVE  LeaseHeld'
  <2> Goes
    BY <1>22, GoesOn DEF EndEffect, Outside
  <2> QED BY <1>22, QuietKeeps DEF EndEffect, Quiet, rowVars
<1>23. ASSUME NEW h \in Hosts, NEW r \in Runs, SealResult(h, r)
      PROVE  LeaseHeld'
  <2> Goes
    BY <1>23, GoesOn DEF SealResult, Outside
  <2> QED BY <1>23, QuietKeeps DEF SealResult, Quiet, rowVars
<1>24. ASSUME NEW h \in Hosts, NEW r \in Runs, SetCompleted(h, r)
      PROVE  LeaseHeld'
  <2> Goes
    BY <1>24, GoesOn DEF SetCompleted, Outside
  <2> QED BY <1>24, QuietKeeps DEF SetCompleted, Quiet
<1>25. ASSUME NEW h \in Hosts, NEW r \in Runs, MarkBlocked(h, r)
      PROVE  LeaseHeld'
  <2> Goes
    BY <1>25, GoesOn DEF MarkBlocked, Outside
  <2> QED BY <1>25, QuietKeeps DEF MarkBlocked, Quiet
<1>26. ASSUME NEW h \in Hosts, NEW r \in Runs, MarkInterrupted(h, r)
      PROVE  LeaseHeld'
  <2> Goes
    BY <1>26, GoesOn DEF MarkInterrupted, Outside
  <2> QED BY <1>26, QuietKeeps DEF MarkInterrupted, Quiet
<1>27. ASSUME NEW h \in Hosts, NEW r \in Runs, MarkFailed(h, r)
      PROVE  LeaseHeld'
  <2> Goes
    BY <1>27, GoesOn DEF MarkFailed, Outside
  <2> QED BY <1>27, QuietKeeps DEF MarkFailed, Quiet
<1>28. ASSUME NEW h \in Hosts, NEW r \in Runs, LeaveRun(h, r)
      PROVE  LeaseHeld'
  <2> Goes
    BY <1>28, GoesOn DEF LeaveRun, Outside
  <2> QED BY <1>28, QuietKeeps DEF LeaveRun, Quiet
<1>29. ASSUME NEW h \in Hosts, NEW r \in Runs, ReleaseLease(h, r)
      PROVE  LeaseHeld'
  <2>1. Goto(h, r, "ending") /\ beating' = [beating EXCEPT ![h][r] = FALSE]
        /\ pc[h][r] = "releasing"
    BY <1>29 DEF ReleaseLease
  <2>2. \/ lease' = lease
        \/ lease[r].owner = h /\ \A q \in Runs \ {r} : lease'[q] = lease[q]
    BY <1>29 DEF ReleaseLease, LeaseType
  <2>3. \A g \in Hosts, q \in Runs : Beating(g, q)' => Beating(g, q) /\ <<g, q>> # <<h, r>>
    BY <2>1 DEF Beating, Goto, ThreadType, HostType
  <2>4. \A g \in Hosts, q \in Runs : beating'[g][q] => beating[g][q] /\ pc'[g][q] = pc[g][q]
    BY <2>1 DEF Goto, ThreadType, HostType
  <2> QED BY <2>2, <2>3, <2>4 DEF LeaseHeld
<1>30. ASSUME NEW h \in Hosts, NEW r \in Runs, EndThread(h, r)
      PROVE  LeaseHeld'
  <2> Goes
    BY <1>30, GoesOn DEF EndThread, Outside
  <2> QED BY <1>30, QuietKeeps DEF EndThread, Quiet
<1>31. ASSUME NEW h \in Hosts, NEW r \in Runs, ForgetThread(h, r)
      PROVE  LeaseHeld'
  <2> Goes
    BY <1>31, GoesOn DEF ForgetThread, Outside
  <2> QED BY <1>31, QuietKeeps DEF ForgetThread, Quiet, rowVars
<1>32. ASSUME NEW h \in Hosts, Crash(h)
      PROVE  LeaseHeld'
  <2>1. \A g \in Hosts \ {h}, q \in Runs : beating'[g][q] = beating[g][q] /\ pc'[g][q] = pc[g][q]
    BY <1>32 DEF Crash, ThreadType, HostType
  <2>2. \A q \in Runs : ~beating'[h][q] /\ pc'[h][q] = "none"
    BY <1>32 DEF Crash, ThreadType, HostType
  <2>3. \A q \in Runs : lease[q].owner # h => lease'[q] = lease[q]
    BY <1>32 DEF Crash
  <2> QED BY <2>1, <2>2, <2>3 DEF LeaseHeld, Beating
<1>33. ASSUME NEW h \in Hosts, NEW r \in Runs, MeetsCondition(h, r)
      PROVE  LeaseHeld'
  <2> Goes
    BY <1>33, GoesOn DEF MeetsCondition, Outside
  <2> QED BY <1>33, QuietKeeps DEF MeetsCondition, Quiet, rowVars
<1>34. ASSUME NEW h \in Hosts, NEW r \in Runs, WorkerRaises(h, r)
      PROVE  LeaseHeld'
  <2> Goes
    BY <1>34, GoesOn DEF WorkerRaises, Outside
  <2> QED BY <1>34, QuietKeeps DEF WorkerRaises, Quiet, rowVars
<1>35. ASSUME NEW h \in Hosts, NEW r \in Runs, Heartbeat(h, r)
      PROVE  LeaseHeld'
  <2>1. pc' = pc
    BY <1>35 DEF Heartbeat
  <2>2. CASE lease' = [lease EXCEPT ![r].fresh = TRUE] /\ beating' = beating
    BY <2>1, <2>2 DEF LeaseHeld, Beating, LeaseType
  <2>3. CASE beating' = [beating EXCEPT ![h][r] = FALSE] /\ lease' = lease
    BY <2>1, <2>3 DEF LeaseHeld, Beating, HostType
  <2> QED BY <1>35, <2>2, <2>3 DEF Heartbeat
<1>36. ASSUME NEW r \in Runs, LeaseExpires(r)
      PROVE  LeaseHeld'
  <2>1. UNCHANGED <<beating, pc>> /\ lease' = [lease EXCEPT ![r].fresh = FALSE]
    BY <1>36 DEF LeaseExpires, hostVars
  <2>2. \A g \in Hosts : ~Beating(g, r)
    BY <1>36 DEF LeaseExpires, LeaseHeld
  <2> QED BY <2>1, <2>2 DEF LeaseHeld, Beating, LeaseType
<1>37. ASSUME SourceChanges
      PROVE  LeaseHeld'
  BY <1>37, QuietKeeps DEF SourceChanges, Quiet, Goes, rowVars, hostVars
<1>38. ASSUME UNCHANGED vars
      PROVE  LeaseHeld'
  BY <1>38, QuietKeeps DEF Quiet, Goes, vars, rowVars, hostVars
<1> QED
  BY <1>1, <1>2, <1>3, <1>4, <1>5, <1>6, <1>7, <1>8, <1>9, <1>10, <1>11, <1>12, <1>13,
     <1>14, <1>15, <1>16, <1>17, <1>18, <1>19, <1>20, <1>21, <1>22, <1>23, <1>24,
     <1>25, <1>26, <1>27, <1>28, <1>29, <1>30, <1>31, <1>32, <1>33, <1>34, <1>35,
     <1>36, <1>37, <1>38 DEF Next, Human, Worker, Environment

\* Never do two workers of a Run both show signs of life, whatever was claimed,
\* released, lost or crashed: the heartbeat of one keeps the other out.
THEOREM HeartbeatsAreSingle == Spec => []OneHeartbeat
<1>1. Init => LeaseHeld
  BY DEF Init, LeaseHeld, Beating
<1>2. Spec => []Types
  BY TypeInit, TypeStep, PTL DEF Spec
<1>3. Spec => []LeaseHeld
  BY <1>1, <1>2, LeaseHeldStep, PTL DEF Spec
<1>4. LeaseHeld => OneHeartbeat
  BY DEF LeaseHeld, OneHeartbeat
<1> QED BY <1>3, <1>4, PTL

-----------------------------------------------------------------------------
(* What a completed Run published, and under which decision.               *)

\* The steps a worker takes once the scope is settled.
LateSteps == MediaSteps \cup {"completing"}

\* With any number of Hosts: nobody gets past the scope review of a Run that has no
\* inventory yet, and what a Run is completed with was sealed.
SealsInventory ==
  /\ \A h \in Hosts, r \in Runs : pc[h][r] \in LateSteps => acc[r].inv # NoInventory
  /\ \A r \in Runs : conf[r].kind = "external_effect" => acc[r].inv # NoInventory
  /\ \A r \in Runs : Accepted(review[r]) => review[r].inv # NoInventory
  /\ \A r \in Runs : acc[r].inv = NoInventory /\ review[r].state = "pending" =>
        state[r] \in Terminal \/ (state[r] = "paused" /\ conf[r].kind = "source_scope")
  /\ \A h \in Hosts, r \in Runs : pc[h][r] = "completing" => sealed[r] # NoInventory
  /\ \A r \in Runs : state[r] = "completed" =>
        published[r] = sealed[r] /\ sealed[r] # NoInventory

\* With one Host: late steps are taken under a decided scope, an undecided one keeps
\* the Run from running, and a completed Run has no worker at work.
DecidedFirst ==
  /\ \A h \in Hosts, r \in Runs : pc[h][r] \in LateSteps => Decided(r)
  /\ \A r \in Runs : review[r].state = "pending" =>
        state[r] \in Terminal \/ (state[r] = "paused" /\ conf[r].kind = "source_scope")
  /\ \A h \in Hosts, r \in Runs : pc[h][r] = "completing" => sealed[r] = acc[r].inv
  /\ \A h \in Hosts, r \in Runs : state[r] = "completed" => pc[h][r] \notin Body
  /\ \A r \in Runs : state[r] = "completed" =>
        Accepted(review[r]) /\ review[r].inv = published[r]
  /\ ReusesAccepted

Whole == SealsInventory /\ (SingleHost => DecidedFirst)

\* Threads go on or leave, or enter the body of a running Run; none gets past the
\* scope review or to the completion.
Threads ==
  \A h \in Hosts, r \in Runs :
     \/ pc'[h][r] = pc[h][r]
     \/ /\ pc'[h][r] \in LateSteps => pc[h][r] \in LateSteps
        /\ pc'[h][r] # "completing"
        /\ pc'[h][r] \in Body => pc[h][r] \in Body \/ state[r] = "running"

\* Rows, reviews, inventories and Results stay as they are.
Calm ==
  /\ Threads
  /\ UNCHANGED <<state, conf, review, sealed, published>>
  /\ \A r \in Runs : acc'[r].inv = acc[r].inv

\* Where a move leaves the threads.
LEMMA GotoAt ==
  ASSUME ThreadType, NEW h \in Hosts, NEW r \in Runs, NEW step, Goto(h, r, step)
  PROVE  \A g \in Hosts, q \in Runs : pc'[g][q] = IF g = h /\ q = r THEN step ELSE pc[g][q]
BY DEF ThreadType, Goto

\* What an update leaves in the rows.
LEMMA UpdateAt ==
  ASSUME RowType, NEW r, NEW s, NEW c, UpdateState(r, s, c)
  PROVE  \A q \in Runs : state'[q] = (IF q = r THEN s ELSE state[q])
                       /\ conf'[q] = (IF q = r THEN c ELSE conf[q])
BY DEF RowType, UpdateState

\* A thread that moves on without getting past a review or to the completion.
LEMMA MovesOn ==
  ASSUME ThreadType, NEW h \in Hosts, NEW r \in Runs, NEW step, Goto(h, r, step),
         step \in LateSteps => pc[h][r] \in LateSteps, step # "completing",
         step \in Body => pc[h][r] \in Body \/ state[r] = "running"
  PROVE  Threads
BY GotoAt DEF Threads

\* A calm step keeps everything.
LEMMA CalmKeeps == ASSUME Whole, Calm PROVE Whole'
<1>1. SealsInventory'
  BY DEF Whole, SealsInventory, Calm, Threads, LateSteps
<1>2. SingleHost => DecidedFirst'
  BY DEF Whole, DecidedFirst, Calm, Threads, Decided, ReusesAccepted, LateSteps
<1> QED BY <1>1, <1>2 DEF Whole, SingleHost

\* An unfinished Run is stopped, ended or set running again with nothing to decide.
LEMMA StopKeeps ==
  ASSUME RowType, Whole, Threads, NEW r, NEW s, UpdateState(r, s, NoConf),
         s # "completed", state[r] \in Unfinished,
         s \in Terminal \/ state[r] \in {"running", "blocked"} \/ conf[r].kind = "none",
         UNCHANGED <<review, sealed, published>>,
         \A q \in Runs : acc'[q].inv = acc[q].inv
  PROVE  Whole'
<1>1. \A q \in Runs : state'[q] = (IF q = r THEN s ELSE state[q])
                     /\ conf'[q] = (IF q = r THEN NoConf ELSE conf[q])
  BY UpdateAt
<1>2. \A q \in Runs : (state'[q] = "completed") = (state[q] = "completed")
  BY <1>1 DEF Unfinished
<1>3. SealsInventory'
  BY <1>1, <1>2 DEF Whole, SealsInventory, Threads, LateSteps, NoConf, Unfinished, Terminal
<1>4. SingleHost => DecidedFirst'
  BY <1>1, <1>2 DEF Whole, DecidedFirst, Threads, Decided, ReusesAccepted, LateSteps, NoConf,
     Unfinished, Terminal
<1> QED BY <1>3, <1>4 DEF Whole, SingleHost

\* A worker past the scope review stops its Run for a confirmation.
LEMMA StopForConfirmation ==
  ASSUME RowType, Whole, Threads, NEW h \in Hosts, NEW r \in Runs, pc[h][r] = "asking",
         NEW c, UpdateState(r, "paused", c), state[r] \in Unfinished,
         UNCHANGED <<review, acc, sealed, published>>
  PROVE  Whole'
<1>1. \A q \in Runs : state'[q] = (IF q = r THEN "paused" ELSE state[q])
                     /\ conf'[q] = (IF q = r THEN c ELSE conf[q])
  BY UpdateAt
<1>2. \A q \in Runs : (state'[q] = "completed") = (state[q] = "completed")
  BY <1>1 DEF Unfinished
<1>3. pc[h][r] \in LateSteps
  BY DEF LateSteps, MediaSteps, GeoSteps
<1>4. SealsInventory'
  BY <1>1, <1>2, <1>3 DEF Whole, SealsInventory, Threads, LateSteps, Unfinished, Terminal
<1>5. SingleHost => DecidedFirst'
  <2>1. SingleHost => review[r].state # "pending"
    BY <1>3 DEF Whole, DecidedFirst, Decided, Accepted
  <2> QED
    BY <1>1, <1>2, <2>1 DEF Whole, DecidedFirst, Threads, Decided, ReusesAccepted, LateSteps
<1> QED BY <1>4, <1>5 DEF Whole, SingleHost

\* A scope that is decided for the inventory lets the worker go on.
LEMMA ReviewedGoesOn ==
  ASSUME ThreadType, Whole, NEW h \in Hosts, NEW r \in Runs, pc[h][r] = "review", Decided(r),
         Goto(h, r, "media"), UNCHANGED <<state, conf, review, acc, sealed, published>>
  PROVE  Whole'
<1>1. \A g \in Hosts, q \in Runs : pc'[g][q] = IF g = h /\ q = r THEN "media" ELSE pc[g][q]
  BY GotoAt
<1>2. acc[r].inv # NoInventory
  BY DEF Decided, Whole, SealsInventory
<1>3. SealsInventory'
  BY <1>1, <1>2 DEF Whole, SealsInventory
<1>4. SingleHost => DecidedFirst'
  BY <1>1 DEF Whole, DecidedFirst, Decided, ReusesAccepted, Body
<1> QED BY <1>3, <1>4 DEF Whole, SingleHost

\* So does a scope taken over from a completed Run, and it goes back to a decision
\* of the Human for the same inventory.
LEMMA ReusedGoesOn ==
  ASSUME Types, Whole, NEW h \in Hosts, NEW r \in Runs, pc[h][r] = "review", Reusable(r),
         Goto(h, r, "media"), UNCHANGED <<state, conf, acc, sealed, published>>,
         review' = [review EXCEPT ![r] = [inv |-> acc[r].inv, state |-> "reused"]]
  PROVE  Whole'
<1>1. \A g \in Hosts, q \in Runs : pc'[g][q] = IF g = h /\ q = r THEN "media" ELSE pc[g][q]
  BY GotoAt DEF Types
<1>2. \A q \in Runs : review'[q] = IF q = r THEN [inv |-> acc[r].inv, state |-> "reused"]
                                   ELSE review[q]
  BY DEF Types, ReviewType
<1>3. PICK prior \in Runs \ {r} : /\ state[prior] = "completed"
                                  /\ Accepted(review[prior])
                                  /\ review[prior].inv = acc[r].inv
  BY DEF Reusable
<1>4. acc[r].inv # NoInventory
  BY <1>3 DEF Whole, SealsInventory
<1>5. SealsInventory'
  BY <1>1, <1>2, <1>4 DEF Whole, SealsInventory
<1>6. SingleHost => DecidedFirst'
  <2> SUFFICES ASSUME SingleHost PROVE DecidedFirst'
    OBVIOUS
  <2>1. state[r] # "completed"
    BY DEF Whole, DecidedFirst, Body
  <2>2. ReusesAccepted'
    <3>1. ASSUME NEW q \in Runs, review'[q].state = "reused", q # r
          PROVE  \E p \in Runs \ {q} : /\ state'[p] = "completed"
                                       /\ review'[p] = [inv |-> review'[q].inv, state |-> "accepted"]
      <4>1. PICK p \in Runs \ {q} : /\ state[p] = "completed"
                                    /\ review[p] = [inv |-> review[q].inv, state |-> "accepted"]
        BY <1>2, <3>1 DEF Whole, DecidedFirst, ReusesAccepted
      <4> QED BY <1>2, <2>1, <3>1, <4>1
    <3>2. \E p \in Runs \ {r} : /\ state'[p] = "completed"
                                 /\ review'[p] = [inv |-> review'[r].inv, state |-> "accepted"]
      <4>1. CASE review[prior].state = "accepted"
        <5>1. review[prior] = [inv |-> acc[r].inv, state |-> "accepted"]
          BY <1>3, <4>1 DEF Types, ReviewType
        <5> QED BY <1>2, <1>3, <5>1
      <4>2. CASE review[prior].state = "reused"
        <5>1. PICK p \in Runs \ {prior} :
                     /\ state[p] = "completed"
                     /\ review[p] = [inv |-> review[prior].inv, state |-> "accepted"]
          BY <1>3, <4>2 DEF Whole, DecidedFirst, ReusesAccepted
        <5> QED BY <1>2, <1>3, <2>1, <5>1
      <4> QED BY <1>3, <4>1, <4>2 DEF Accepted
    <3> QED BY <3>1, <3>2 DEF ReusesAccepted
  <2>3. \A q \in Runs : q # r => Decided(q)' = Decided(q)
    BY <1>2 DEF Decided
  <2>4. Decided(r)'
    BY <1>2 DEF Decided, Accepted
  <2> QED
    BY <1>1, <1>2, <2>1, <2>2, <2>3, <2>4 DEF Whole, DecidedFirst, Accepted, Body
<1> QED BY <1>5, <1>6 DEF Whole, SingleHost

\* A scope that nobody decided stops the Run.
LEMMA AskedStops ==
  ASSUME Types, Whole, NEW h \in Hosts, NEW r \in Runs, pc[h][r] = "review",
         UpdateState(r, "paused", Asking("source_scope", [of |-> acc[r].inv, try |-> 0])),
         review' = [review EXCEPT ![r] = [inv |-> acc[r].inv, state |-> "pending"]],
         Goto(h, r, "leaving"), UNCHANGED <<acc, sealed, published>>
  PROVE  Whole'
<1>1. \A g \in Hosts, q \in Runs : pc'[g][q] = IF g = h /\ q = r THEN "leaving" ELSE pc[g][q]
  BY GotoAt DEF Types
<1>2. \A q \in Runs : review'[q] = IF q = r THEN [inv |-> acc[r].inv, state |-> "pending"]
                                   ELSE review[q]
  BY DEF Types, ReviewType
<1>3. \A q \in Runs : /\ state'[q] = (IF q = r THEN "paused" ELSE state[q])
                     /\ conf'[q].kind = (IF q = r THEN "source_scope" ELSE conf[q].kind)
  BY UpdateAt DEF Types, Asking
<1>4. "leaving" \notin LateSteps /\ "leaving" \notin Body
  BY DEF LateSteps, MediaSteps, GeoSteps, Body
<1>5. SealsInventory'
  BY <1>1, <1>2, <1>3, <1>4 DEF Whole, SealsInventory, Accepted
<1>6. SingleHost => DecidedFirst'
  <2> SUFFICES ASSUME SingleHost PROVE DecidedFirst'
    OBVIOUS
  <2>1. state[r] # "completed"
    BY DEF Whole, DecidedFirst, Body
  <2>2. \A g \in Hosts : pc'[g][r] = "leaving"
    BY <1>1 DEF SingleHost
  <2>3. \A q \in Runs : q # r => Decided(q)' = Decided(q)
    BY <1>2 DEF Decided
  <2>4. ReusesAccepted'
    <3> SUFFICES ASSUME NEW q \in Runs, review'[q].state = "reused"
                 PROVE  \E p \in Runs \ {q} :
                           /\ state'[p] = "completed"
                           /\ review'[p] = [inv |-> review'[q].inv, state |-> "accepted"]
      BY DEF ReusesAccepted
    <3>1. q # r /\ review'[q] = review[q]
      BY <1>2
    <3>2. PICK p \in Runs \ {q} : /\ state[p] = "completed"
                                  /\ review[p] = [inv |-> review[q].inv, state |-> "accepted"]
      BY <3>1 DEF Whole, DecidedFirst, ReusesAccepted
    <3> QED BY <1>2, <1>3, <2>1, <3>1, <3>2
  <2> QED
    BY <1>1, <1>2, <1>3, <1>4, <2>1, <2>2, <2>3, <2>4 DEF Whole, DecidedFirst, Accepted, LateSteps
<1> QED BY <1>5, <1>6 DEF Whole, SingleHost

\* No control, worker, failure or crash gets a Run past its scope review, or to its
\* completion, on another way.
LEMMA WholeStep == Types /\ Whole /\ [Next]_vars => Whole'
<1> SUFFICES ASSUME Types, Whole, [Next]_vars PROVE Whole'
  OBVIOUS
<1> RowType /\ ReviewType /\ AccountingType /\ CallType /\ ThreadType
  BY DEF Types
<1>1. ASSUME NEW r \in Runs, Pause(r)
      PROVE  Whole'
  <2> Threads
    BY <1>1 DEF Pause, Threads, hostVars
  <2> QED BY <1>1, StopKeeps DEF Pause, Unfinished, Terminal, workVars
<1>2. ASSUME NEW r \in Runs, Cancel(r)
      PROVE  Whole'
  <2> Threads
    BY <1>2 DEF Cancel, Threads, hostVars
  <2> QED BY <1>2, StopKeeps DEF Cancel, Unfinished, Terminal, workVars
<1>3. ASSUME NEW h \in Hosts, NEW r \in Runs, Start(h, r)
      PROVE  Whole'
  <2>1. UNCHANGED <<conf, review, acc, sealed, published, pc>>
        /\ state' = [state EXCEPT ![r] = "running"] /\ state[r] = "absent"
    BY <1>3 DEF Start, workVars
  <2>2. \A q \in Runs : state'[q] = IF q = r THEN "running" ELSE state[q]
    BY <2>1 DEF RowType
  <2>3. SealsInventory'
    BY <2>1, <2>2 DEF Whole, SealsInventory, Terminal
  <2>4. SingleHost => DecidedFirst'
    BY <2>1, <2>2 DEF Whole, DecidedFirst, ReusesAccepted, Decided, Terminal
  <2> QED BY <2>3, <2>4 DEF Whole, SingleHost
<1>4. ASSUME NEW h \in Hosts, NEW r \in Runs, CheckResume(h, r)
      PROVE  Whole'
  BY <1>4, CalmKeeps DEF CheckResume, Calm, Threads, rowVars, workVars, hostVars
<1>5. ASSUME NEW h \in Hosts, NEW r \in Runs, ResumePlain(h, r)
      PROVE  Whole'
  <2>1. Threads
    BY <1>5 DEF ResumePlain, Threads
  <2>2. CASE UNCHANGED <<state, conf>>
    BY <1>5, <2>1, <2>2, CalmKeeps DEF ResumePlain, Calm, workVars
  <2>3. CASE state[r] \in {"paused", "blocked"} /\ conf[r].kind = "none"
             /\ UpdateState(r, "running", NoConf)
    BY <1>5, <2>1, <2>3, StopKeeps DEF ResumePlain, Unfinished, workVars
  <2> QED BY <1>5, <2>2, <2>3 DEF ResumePlain
<1>6. ASSUME NEW h \in Hosts, NEW r \in Runs, NEW i \in Inventories, AcceptScope(h, r, i)
      PROVE  Whole'
  <2>1. UNCHANGED <<acc, sealed, published, pc>>
        /\ review[r] = [inv |-> i, state |-> "pending"]
        /\ state[r] \notin Terminal
    BY <1>6 DEF AcceptScope, workVars, Terminal
  <2>2. \A q \in Runs : state'[q] = (IF q = r THEN "running" ELSE state[q])
                       /\ conf'[q] = (IF q = r THEN NoConf ELSE conf[q])
    BY <1>6, UpdateAt DEF AcceptScope
  <2>3. \A q \in Runs : review'[q] = IF q = r THEN [inv |-> i, state |-> "accepted"] ELSE review[q]
    BY <1>6, <2>1 DEF AcceptScope, ReviewType
  <2>4. SealsInventory'
    BY <2>1, <2>2, <2>3, NamesAssumption DEF Whole, SealsInventory, NoConf, Accepted
  <2>5. SingleHost => DecidedFirst'
    BY <2>1, <2>2, <2>3 DEF Whole, DecidedFirst, ReusesAccepted, Decided, Accepted, Terminal
  <2> QED BY <2>4, <2>5 DEF Whole, SingleHost
<1>7. ASSUME NEW h \in Hosts, NEW r \in Runs, NEW c \in Contents, Proceed(h, r, c)
      PROVE  Whole'
  <2>1. UNCHANGED <<review, acc, sealed, published, pc>>
        /\ state[r] \in {"paused", "blocked"} /\ conf[r].kind = "external_effect"
    BY <1>7 DEF Proceed, NamesPending, workVars
  <2>2. \A q \in Runs : state'[q] = (IF q = r THEN "running" ELSE state[q])
                       /\ conf'[q] = (IF q = r THEN [conf[r] EXCEPT !.decision = "proceed"] ELSE conf[q])
    BY <1>7, UpdateAt DEF Proceed
  <2>3. \A q \in Runs : conf'[q].kind = conf[q].kind
    BY <2>2 DEF RowType, Confirmations
  <2>4. SealsInventory'
    BY <2>1, <2>2, <2>3 DEF Whole, SealsInventory, Terminal
  <2>5. SingleHost => DecidedFirst'
    BY <2>1, <2>2, <2>3 DEF Whole, DecidedFirst, ReusesAccepted, Decided, Terminal
  <2> QED BY <2>4, <2>5 DEF Whole, SingleHost
<1>8. ASSUME NEW h \in Hosts, NEW r \in Runs, Decline(h, r)
      PROVE  Whole'
  <2>1. UNCHANGED <<review, acc, sealed, published, pc>>
        /\ state[r] \in {"paused", "blocked"} /\ conf[r].kind = "external_effect"
    BY <1>8 DEF Decline, workVars
  <2>2. \A q \in Runs : state'[q] = (IF q = r THEN "cancelled" ELSE state[q])
                       /\ conf'[q] = (IF q = r THEN [conf[r] EXCEPT !.decision = "decline"] ELSE conf[q])
    BY <1>8, UpdateAt DEF Decline
  <2>3. \A q \in Runs : conf'[q].kind = conf[q].kind
    BY <2>2 DEF RowType, Confirmations
  <2>4. SealsInventory'
    BY <2>1, <2>2, <2>3 DEF Whole, SealsInventory, Terminal
  <2>5. SingleHost => DecidedFirst'
    BY <2>1, <2>2, <2>3 DEF Whole, DecidedFirst, ReusesAccepted, Decided, Terminal
  <2> QED BY <2>4, <2>5 DEF Whole, SingleHost
<1>9. ASSUME NEW h \in Hosts, NEW r \in Runs, RefuseResume(h, r)
      PROVE  Whole'
  BY <1>9, CalmKeeps DEF RefuseResume, Calm, Threads, rowVars, workVars, hostVars
<1>10. ASSUME NEW h \in Hosts, NEW s \in {"blocked", "failed"}, PrepareFails(h, s)
      PROVE  Whole'
  <2>1. Threads
    BY <1>10 DEF PrepareFails, Threads
  <2>2. CASE UNCHANGED <<state, conf, acc>>
    BY <1>10, <2>1, <2>2, CalmKeeps DEF PrepareFails, Calm
  <2>3. CASE state[call[h].run] = "running" /\ UpdateState(call[h].run, s, NoConf)
             /\ PauseAccounting(call[h].run, {"running"})
    <3>1. \A q \in Runs : acc'[q].inv = acc[q].inv
      BY <2>3 DEF PauseAccounting, AccountingType
    <3> QED BY <1>10, <2>1, <2>3, <3>1, StopKeeps DEF PrepareFails, Unfinished, Terminal
  <2> QED BY <1>10, <2>2, <2>3 DEF PrepareFails
<1>11. ASSUME NEW h \in Hosts, Schedule(h)
      PROVE  Whole'
  <2>1. CASE UNCHANGED pc
    BY <1>11, <2>1, CalmKeeps DEF Schedule, Calm, Threads, workVars
  <2>2. CASE state[call[h].run] = "running" /\ Goto(h, call[h].run, "claimed")
    <3> Threads
      BY <2>2 DEF Threads, Goto, ThreadType, LateSteps, MediaSteps, GeoSteps, Body
    <3> QED BY <1>11, CalmKeeps DEF Schedule, Calm, workVars
  <2> QED BY <1>11, <2>1, <2>2 DEF Schedule
<1>12. ASSUME NEW h \in Hosts, LaunchFails(h)
      PROVE  Whole'
  <2>1. Threads
    BY <1>12 DEF LaunchFails, Threads
  <2>2. \A q \in Runs : acc'[q].inv = acc[q].inv
    BY <1>12 DEF LaunchFails, PauseAccounting, AccountingType
  <2> QED BY <1>12, <2>1, <2>2, StopKeeps DEF LaunchFails, Unfinished, Terminal
<1>13. ASSUME NEW h \in Hosts, NEW r \in Runs, EnterRun(h, r)
      PROVE  Whole'
  <2>1. Threads
    BY <1>13, MovesOn DEF EnterRun, BeginScan, LateSteps, MediaSteps, GeoSteps, Body
  <2>2. \A q \in Runs : acc'[q].inv = acc[q].inv
    BY <1>13 DEF EnterRun, BeginScan, AccountingType
  <2> QED BY <1>13, <2>1, <2>2, CalmKeeps DEF EnterRun, Calm, rowVars
<1>14. ASSUME NEW h \in Hosts, NEW r \in Runs, EndScan(h, r)
      PROVE  Whole'
  <2>1. UNCHANGED <<state, conf, review, sealed, published>> /\ pc[h][r] = "scanning"
    BY <1>14 DEF EndScan, rowVars
  <2>2. \A g \in Hosts, q \in Runs : pc'[g][q] = IF g = h /\ q = r THEN "scanned" ELSE pc[g][q]
    BY <1>14, GotoAt DEF EndScan
  <2>3. \A q \in Runs : acc'[q].inv = acc[q].inv \/ (q = r /\ acc'[q].inv = disk)
    <3>1. CASE acc' = [acc EXCEPT ![r] = [status |-> "completed", inv |-> disk]]
      BY <3>1 DEF AccountingType
    <3>2. CASE acc' = [acc EXCEPT ![r].status = "paused"]
      BY <3>2 DEF AccountingType
    <3>3. CASE acc' = [acc EXCEPT ![r].status = "blocked"]
      BY <3>3 DEF AccountingType
    <3> QED BY <1>14, <3>1, <3>2, <3>3 DEF EndScan
  <2>4. disk # NoInventory
    BY NamesAssumption DEF Types, TreeType
  <2>5. SealsInventory'
    BY <2>1, <2>2, <2>3, <2>4 DEF Whole, SealsInventory, LateSteps, MediaSteps, GeoSteps
  <2>6. SingleHost => DecidedFirst'
    BY <2>1, <2>2, <2>3 DEF Whole, SingleHost, DecidedFirst, ReusesAccepted, Decided, LateSteps,
       MediaSteps, GeoSteps, Body
  <2> QED BY <2>5, <2>6 DEF Whole, SingleHost
<1>15. ASSUME NEW h \in Hosts, NEW r \in Runs, SyncAccounting(h, r)
      PROVE  Whole'
  <2> Threads
    BY <1>15, MovesOn DEF SyncAccounting, LateSteps, MediaSteps, GeoSteps, Body
  <2> QED BY <1>15, CalmKeeps DEF SyncAccounting, Calm, rowVars, workVars
<1>16. ASSUME NEW h \in Hosts, NEW r \in Runs, EnsureScopeReview(h, r)
      PROVE  Whole'
  <2>1. UNCHANGED <<acc, sealed, published>> /\ pc[h][r] = "review"
    BY <1>16 DEF EnsureScopeReview, workVars
  <2>2. CASE Goto(h, r, "leaving") /\ UNCHANGED <<state, conf, review>>
    <3> Threads
      BY <2>2, MovesOn DEF LateSteps, MediaSteps, GeoSteps, Body
    <3> QED BY <2>1, <2>2, CalmKeeps DEF Calm
  <2>3. CASE Decided(r) /\ Goto(h, r, "media") /\ UNCHANGED <<state, conf, review>>
    BY <2>1, <2>3, ReviewedGoesOn
  <2>4. CASE review[r] = [inv |-> acc[r].inv, state |-> "pending"] /\ state[r] = "running"
             /\ Goto(h, r, "media") /\ UNCHANGED <<state, conf, review>>
    <3>1. acc[r].inv # NoInventory /\ ~SingleHost
      BY <2>4 DEF Whole, SealsInventory, DecidedFirst, Terminal
    <3>2. \A g \in Hosts, q \in Runs : pc'[g][q] = IF g = h /\ q = r THEN "media" ELSE pc[g][q]
      BY <2>4, GotoAt
    <3>3. SealsInventory'
      BY <2>1, <2>4, <3>1, <3>2 DEF Whole, SealsInventory
    <3> QED BY <3>1, <3>3 DEF Whole, SingleHost
  <2>5. CASE Reusable(r) /\ Goto(h, r, "media") /\ UNCHANGED <<state, conf>>
             /\ review' = [review EXCEPT ![r] = [inv |-> acc[r].inv, state |-> "reused"]]
    BY <2>1, <2>5, ReusedGoesOn
  <2>6. CASE UpdateState(r, "paused", Asking("source_scope", [of |-> acc[r].inv, try |-> 0]))
             /\ review' = [review EXCEPT ![r] = [inv |-> acc[r].inv, state |-> "pending"]]
             /\ Goto(h, r, "leaving")
    BY <2>1, <2>6, AskedStops
  <2> QED BY <1>16, <2>2, <2>3, <2>4, <2>5, <2>6 DEF EnsureScopeReview
<1>17. ASSUME NEW h \in Hosts, NEW r \in Runs, EndMedia(h, r)
      PROVE  Whole'
  <2> Threads
    BY <1>17, MovesOn DEF EndMedia, NextPhase, LateSteps, MediaSteps, GeoSteps, Body
  <2> QED BY <1>17, CalmKeeps DEF EndMedia, Calm, rowVars, workVars
<1>18. ASSUME NEW h \in Hosts, NEW r \in Runs, BeginGeo(h, r)
      PROVE  Whole'
  <2> Threads
    BY <1>18, MovesOn DEF BeginGeo, LateSteps, MediaSteps, GeoSteps, Body
  <2> QED BY <1>18, CalmKeeps DEF BeginGeo, Calm, rowVars, workVars
<1>19. ASSUME NEW h \in Hosts, NEW r \in Runs, RequireConfirmation(h, r)
      PROVE  Whole'
  <2>1. UNCHANGED <<review, acc, sealed, published>> /\ pc[h][r] = "asking"
    BY <1>19 DEF RequireConfirmation, workVars
  <2>2. Threads
    BY <1>19, MovesOn DEF RequireConfirmation, LateSteps, MediaSteps, GeoSteps, Body
  <2>3. CASE UNCHANGED <<state, conf>>
    BY <2>1, <2>2, <2>3, CalmKeeps DEF Calm
  <2>4. CASE \E c \in Confirmations : UpdateState(r, "paused", c) /\ state[r] \in Unfinished
    BY <2>1, <2>2, <2>4, StopForConfirmation
  <2> QED
    <3>1. conf[r] \in Confirmations
      BY DEF RowType
    <3>2. Asking("external_effect", Content(r)) \in Confirmations
      BY NamesType, ContentType DEF Types
    <3> QED BY <1>19, <2>3, <2>4, <3>1, <3>2 DEF RequireConfirmation
<1>20. ASSUME NEW h \in Hosts, NEW r \in Runs, ReadAuthority(h, r)
      PROVE  Whole'
  <2> Threads
    BY <1>20, MovesOn DEF ReadAuthority, LateSteps, MediaSteps, GeoSteps, Body
  <2> QED BY <1>20, CalmKeeps DEF ReadAuthority, Calm, rowVars, workVars
<1>21. ASSUME NEW h \in Hosts, NEW r \in Runs, BeginEffect(h, r)
      PROVE  Whole'
  <2> Threads
    BY <1>21, MovesOn DEF BeginEffect, LateSteps, MediaSteps, GeoSteps, Body
  <2> QED BY <1>21, CalmKeeps DEF BeginEffect, Calm, rowVars, workVars
<1>22. ASSUME NEW h \in Hosts, NEW r \in Runs, EndEffect(h, r)
      PROVE  Whole'
  <2> Threads
    BY <1>22, MovesOn DEF EndEffect, LateSteps, MediaSteps, GeoSteps, Body
  <2> QED BY <1>22, CalmKeeps DEF EndEffect, Calm, rowVars, workVars
<1>23. ASSUME NEW h \in Hosts, NEW r \in Runs, SealResult(h, r)
      PROVE  Whole'
  <2>1. UNCHANGED <<state, conf, review, acc, published>> /\ pc[h][r] = "sealing"
    BY <1>23 DEF SealResult, rowVars
  <2>2. CASE UNCHANGED sealed /\ (Goto(h, r, "leaving") \/ Goto(h, r, "failing"))
    <3> Threads
      BY <2>2, MovesOn DEF LateSteps, MediaSteps, GeoSteps, Body
    <3> QED BY <2>1, <2>2, CalmKeeps DEF Calm
  <2>3. CASE sealed[r] \in {NoInventory, acc[r].inv} /\ Goto(h, r, "completing")
             /\ sealed' = [sealed EXCEPT ![r] = acc[r].inv] /\ state[r] = "running"
    <3>1. \A q \in Runs : sealed'[q] = IF q = r THEN acc[r].inv ELSE sealed[q]
      BY <2>3 DEF Types, ResultType
    <3>2. \A g \in Hosts, q \in Runs : pc'[g][q] = IF g = h /\ q = r THEN "completing" ELSE pc[g][q]
      BY <2>3, GotoAt
    <3>3. pc[h][r] \in LateSteps
      BY <2>1 DEF LateSteps, MediaSteps
    <3>4. SealsInventory'
      BY <2>1, <2>3, <3>1, <3>2, <3>3 DEF Whole, SealsInventory
    <3>5. SingleHost => DecidedFirst'
      BY <2>1, <2>3, <3>1, <3>2, <3>3 DEF Whole, SingleHost, DecidedFirst, ReusesAccepted, Decided
    <3> QED BY <3>4, <3>5 DEF Whole, SingleHost
  <2> QED BY <1>23, <2>2, <2>3 DEF SealResult
<1>24. ASSUME NEW h \in Hosts, NEW r \in Runs, SetCompleted(h, r)
      PROVE  Whole'
  <2>1. UNCHANGED <<review, acc, sealed>> /\ pc[h][r] = "completing"
    BY <1>24 DEF SetCompleted
  <2>2. CASE UNCHANGED <<state, conf, published>> /\ (Goto(h, r, "leaving") \/ Goto(h, r, "failing"))
    <3> Threads
      BY <2>2, MovesOn DEF LateSteps, MediaSteps, GeoSteps, Body
    <3> QED BY <2>1, <2>2, CalmKeeps DEF Calm
  <2>3. CASE UpdateState(r, "completed", NoConf) /\ Goto(h, r, "leaving")
             /\ published' = [published EXCEPT ![r] = sealed[r]]
    <3>1. \A q \in Runs : published'[q] = IF q = r THEN sealed[r] ELSE published[q]
      BY <2>3 DEF Types, ResultType
    <3>2. \A g \in Hosts, q \in Runs : pc'[g][q] = IF g = h /\ q = r THEN "leaving" ELSE pc[g][q]
      BY <2>3, GotoAt
    <3>3. \A q \in Runs : state'[q] = (IF q = r THEN "completed" ELSE state[q])
                         /\ conf'[q] = (IF q = r THEN NoConf ELSE conf[q])
      BY <2>3, UpdateAt
    <3>4. SealsInventory'
      BY <2>1, <3>1, <3>2, <3>3 DEF Whole, SealsInventory, NoConf, Terminal, LateSteps, MediaSteps,
         GeoSteps
    <3>5. SingleHost => DecidedFirst'
      <4>1. SingleHost => Decided(r) /\ sealed[r] = acc[r].inv
        BY <2>1 DEF Whole, DecidedFirst, LateSteps
      <4> QED
        BY <2>1, <3>1, <3>2, <3>3, <4>1 DEF Whole, SingleHost, DecidedFirst, ReusesAccepted,
           Decided, Terminal, LateSteps, MediaSteps, GeoSteps, Body
    <3> QED BY <3>4, <3>5 DEF Whole, SingleHost
  <2> QED BY <1>24, <2>2, <2>3 DEF SetCompleted
<1>25. ASSUME NEW h \in Hosts, NEW r \in Runs, MarkBlocked(h, r)
      PROVE  Whole'
  <2>1. Threads
    BY <1>25, MovesOn DEF MarkBlocked, LateSteps, MediaSteps, GeoSteps, Body
  <2>2. CASE UNCHANGED <<state, conf>>
    BY <1>25, <2>1, <2>2, CalmKeeps DEF MarkBlocked, Calm, workVars
  <2>3. CASE state[r] \in {"running", "blocked"} /\ UpdateState(r, "blocked", NoConf)
    BY <1>25, <2>1, <2>3, StopKeeps DEF MarkBlocked, Unfinished, workVars
  <2> QED BY <1>25, <2>2, <2>3 DEF MarkBlocked
<1>26. ASSUME NEW h \in Hosts, NEW r \in Runs, MarkInterrupted(h, r)
      PROVE  Whole'
  <2>1. Threads
    BY <1>26, MovesOn DEF MarkInterrupted, LateSteps, MediaSteps, GeoSteps, Body
  <2>2. CASE UNCHANGED <<state, conf>>
    BY <1>26, <2>1, <2>2, CalmKeeps DEF MarkInterrupted, Calm, workVars
  <2>3. CASE state[r] = "running" /\ UpdateState(r, "paused", NoConf)
    BY <1>26, <2>1, <2>3, StopKeeps DEF MarkInterrupted, Unfinished, workVars
  <2> QED BY <1>26, <2>2, <2>3 DEF MarkInterrupted
<1>27. ASSUME NEW h \in Hosts, NEW r \in Runs, MarkFailed(h, r)
      PROVE  Whole'
  <2>1. Threads
    BY <1>27, MovesOn DEF MarkFailed, LateSteps, MediaSteps, GeoSteps, Body
  <2>2. CASE UNCHANGED <<state, conf, acc>>
    BY <1>27, <2>1, <2>2, CalmKeeps DEF MarkFailed, Calm
  <2>3. CASE state[r] \in Unfinished /\ UpdateState(r, "failed", NoConf)
             /\ PauseAccounting(r, {"running", "blocked"})
    <3>1. \A q \in Runs : acc'[q].inv = acc[q].inv
      BY <2>3 DEF PauseAccounting, AccountingType
    <3> QED BY <1>27, <2>1, <2>3, <3>1, StopKeeps DEF MarkFailed, Terminal
  <2> QED BY <1>27, <2>2, <2>3 DEF MarkFailed
<1>28. ASSUME NEW h \in Hosts, NEW r \in Runs, LeaveRun(h, r)
      PROVE  Whole'
  <2>1. Threads
    BY <1>28, MovesOn DEF LeaveRun, LateSteps, MediaSteps, GeoSteps, Body
  <2>2. CASE UNCHANGED <<state, conf>>
    BY <1>28, <2>1, <2>2, CalmKeeps DEF LeaveRun, Calm, workVars
  <2>3. CASE state[r] = "running" /\ UpdateState(r, "paused", NoConf)
    BY <1>28, <2>1, <2>3, StopKeeps DEF LeaveRun, Unfinished, workVars
  <2> QED BY <1>28, <2>2, <2>3 DEF LeaveRun, InterruptIfRunning
<1>29. ASSUME NEW h \in Hosts, NEW r \in Runs, ReleaseLease(h, r)
      PROVE  Whole'
  <2> Threads
    BY <1>29, MovesOn DEF ReleaseLease, LateSteps, MediaSteps, GeoSteps, Body
  <2> QED BY <1>29, CalmKeeps DEF ReleaseLease, Calm, rowVars, workVars
<1>30. ASSUME NEW h \in Hosts, NEW r \in Runs, EndThread(h, r)
      PROVE  Whole'
  <2>1. Threads
    BY <1>30, MovesOn DEF EndThread, LateSteps, MediaSteps, GeoSteps, Body
  <2>2. CASE UNCHANGED <<state, conf>>
    BY <1>30, <2>1, <2>2, CalmKeeps DEF EndThread, Calm, workVars
  <2>3. CASE state[r] = "running" /\ UpdateState(r, "paused", NoConf)
    BY <1>30, <2>1, <2>3, StopKeeps DEF EndThread, Unfinished, workVars
  <2> QED BY <1>30, <2>2, <2>3 DEF EndThread, InterruptIfRunning
<1>31. ASSUME NEW h \in Hosts, NEW r \in Runs, ForgetThread(h, r)
      PROVE  Whole'
  <2> Threads
    BY <1>31, MovesOn DEF ForgetThread, LateSteps, MediaSteps, GeoSteps, Body
  <2> QED BY <1>31, CalmKeeps DEF ForgetThread, Calm, rowVars, workVars
<1>32. ASSUME NEW h \in Hosts, Crash(h)
      PROVE  Whole'
  <2> Threads
    BY <1>32 DEF Crash, ThreadType, Threads, LateSteps, MediaSteps, GeoSteps, Body
  <2> QED BY <1>32, CalmKeeps DEF Crash, Calm, workVars
<1>33. ASSUME NEW h \in Hosts, NEW r \in Runs, MeetsCondition(h, r)
      PROVE  Whole'
  <2> Threads
    BY <1>33, MovesOn DEF MeetsCondition, LateSteps, MediaSteps, GeoSteps, Body
  <2> QED BY <1>33, CalmKeeps DEF MeetsCondition, Calm, rowVars, workVars
<1>34. ASSUME NEW h \in Hosts, NEW r \in Runs, WorkerRaises(h, r)
      PROVE  Whole'
  <2> Threads
    BY <1>34, MovesOn DEF WorkerRaises, LateSteps, MediaSteps, GeoSteps, Body
  <2> QED BY <1>34, CalmKeeps DEF WorkerRaises, Calm, rowVars, workVars
<1>35. ASSUME NEW h \in Hosts, NEW r \in Runs, Heartbeat(h, r)
      PROVE  Whole'
  BY <1>35, CalmKeeps DEF Heartbeat, Calm, Threads, rowVars, workVars, hostVars
<1>36. ASSUME NEW r \in Runs, LeaseExpires(r)
      PROVE  Whole'
  BY <1>36, CalmKeeps DEF LeaseExpires, Calm, Threads, rowVars, workVars, hostVars
<1>37. ASSUME SourceChanges
      PROVE  Whole'
  BY <1>37, CalmKeeps DEF SourceChanges, Calm, Threads, rowVars, workVars, hostVars
<1>38. ASSUME UNCHANGED vars
      PROVE  Whole'
  BY <1>38, CalmKeeps DEF vars, Calm, Threads, rowVars, workVars, hostVars
<1> QED
  BY <1>1, <1>2, <1>3, <1>4, <1>5, <1>6, <1>7, <1>8, <1>9, <1>10, <1>11, <1>12, <1>13,
     <1>14, <1>15, <1>16, <1>17, <1>18, <1>19, <1>20, <1>21, <1>22, <1>23, <1>24,
     <1>25, <1>26, <1>27, <1>28, <1>29, <1>30, <1>31, <1>32, <1>33, <1>34, <1>35,
     <1>36, <1>37, <1>38 DEF Next, Human, Worker, Environment

\* In all behaviours, with any number of Hosts.
THEOREM WholeAlways == Spec => []Whole
<1>1. Init => Whole
  BY DEF Init, Whole, SealsInventory, DecidedFirst, ReusesAccepted, Accepted, LateSteps,
     MediaSteps, GeoSteps, Body, NoConf
<1>2. Spec => []Types
  BY TypeInit, TypeStep, PTL DEF Spec
<1> QED BY <1>1, <1>2, WholeStep, PTL DEF Spec

\* A completed Run published what was sealed for it, and at a single Host that is the
\* inventory whose scope was decided (set_completed, _run_sqlite.py).
THEOREM ResultsAreDecided == Spec => []CompletedResult
<1>1. Whole => CompletedResult
  BY DEF Whole, SealsInventory, DecidedFirst, CompletedResult
<1> QED BY <1>1, WholeAlways, PTL

\* At a single Host media work is done only under a scope decided for exactly the
\* inventory that is accounted (ensure_scope_review, _orchestrator.py).
THEOREM MediaIsInScope == Spec => []MediaInScope
<1>1. Whole => MediaInScope
  BY DEF Whole, DecidedFirst, MediaInScope, Decided, LateSteps
<1> QED BY <1>1, WholeAlways, PTL

\* At a single Host a scope that was taken over, through however many Runs, was
\* accepted by the Human in a Run carried to its Result.
THEOREM ReuseWasAccepted == Spec => []ReusedWasAccepted
<1>1. Whole => ReusedWasAccepted
  BY DEF Whole, DecidedFirst, ReusedWasAccepted
<1> QED BY <1>1, WholeAlways, PTL

-----------------------------------------------------------------------------
(* The store of the Runs: bytes and rows part and meet again.              *)

\* The parts of the type invariant.
WorksType == works \in Seq(A!Rows) /\ Len(works) <= MaxWork
AttachedType == attached \in [Runs -> SUBSET (1..MaxWork)]
ArtifactsType == artifacts \in [Bytes -> {None, "available", "missing", "corrupt"}]
DiskType == /\ files \in [Bytes -> A!Looks]
            /\ recent \subseteq Bytes /\ vault \subseteq Bytes \cup Runs
StateType == keeping \in [Runs -> {"active", "sealed", "ended"}]
StepType == /\ stage \in [Runs -> {"idle", "looked", "claimed", "placed", "linked"}]
            /\ about \in [Runs -> Bytes \cup {None}]
            /\ seen \in [Runs -> A!Looks \cup {None}]
GainedType == gained \in [Runs -> SUBSET (1..MaxWork)]
ResultsType == /\ filed \in [Runs -> (SUBSET (1..MaxWork)) \cup {None}]
               /\ registered \in [Runs -> (SUBSET (1..MaxWork)) \cup {None}]
UpkeepType == cleaning \in {"idle", "audited", "moving"} /\ plan \in A!Plans
RestType == damaged \subseteq Bytes /\ stops \in 0..MaxStops

StoreTypes == /\ WorksType /\ AttachedType /\ ArtifactsType /\ DiskType /\ StateType /\ StepType
              /\ GainedType /\ ResultsType /\ UpkeepType /\ RestType

LEMMA TypesAreTypeOK == A!TypeOK <=> StoreTypes
BY DEF A!TypeOK, StoreTypes, WorksType, AttachedType, ArtifactsType, DiskType, StateType, StepType,
       GainedType, ResultsType, UpkeepType, RestType

-----------------------------------------------------------------------------
(* Types                                                                   *)

\* The table as a function on its ids.
LEMMA TableIs ==
    ASSUME A!ArtifactConstants, WorksType
    PROVE  /\ Len(works) \in 0..MaxWork /\ A!Ids = 1..Len(works) /\ A!Ids \subseteq 1..MaxWork
           /\ works \in [A!Ids -> A!Rows]
BY DEF WorksType, A!ArtifactConstants, A!Ids

\* A table that is rewritten row by row is a table.
LEMMA TableFrom ==
    ASSUME A!ArtifactConstants, WorksType, NEW table \in [A!Ids -> A!Rows]
    PROVE  /\ table \in Seq(A!Rows) /\ Len(table) = Len(works) /\ DOMAIN table = A!Ids
<1>1. PICK n \in Nat : n = Len(works) /\ A!Ids = 1..n
  BY TableIs DEF A!ArtifactConstants
<1>2. table \in Seq(A!Rows) /\ Len(table) = n
  BY <1>1
<1> QED BY <1>1, <1>2

LEMMA RowsTable ==
    ASSUME A!ArtifactConstants, WorksType, works' \in [A!Ids -> A!Rows]
    PROVE  WorksType' /\ A!Ids' = A!Ids
BY TableFrom DEF WorksType, A!Ids

LEMMA GoesType ==
    ASSUME StateType, StepType, NEW r \in Runs, NEW c \in Bytes \cup {None}, NEW look \in A!Looks \cup {None},
           NEW to \in {"idle", "looked", "claimed", "placed", "linked"}, A!Goes(r, to, c, look)
    PROVE  StateType' /\ StepType'
BY DEF StateType, StepType, A!Goes

LEMMA EndsType ==
    ASSUME StateType, StepType, NEW r \in Runs, NEW verdict \in {"active", "sealed", "ended"}, A!Ends(r, verdict)
    PROVE  StateType' /\ StepType'
BY DEF StateType, StepType, A!Ends

LEMMA GainsType ==
    ASSUME GainedType, NEW r \in Runs, NEW id \in 1..MaxWork, A!Gains(r, id)
    PROVE  GainedType'
BY DEF GainedType, A!Gains

\* What Noted makes of a table.
LEMMA NotedIs ==
    ASSUME A!ArtifactConstants, WorksType, NEW c, NEW look
    PROVE  /\ A!Noted(works, c, look) \in [A!Ids -> A!Rows]
           /\ \A id \in A!Ids :
                 A!Noted(works, c, look)[id] =
                    IF look # "good" /\ works[id].content = c /\ works[id].status = "succeeded"
                    THEN [works[id] EXCEPT !.status = "invalidated"] ELSE works[id]
<1>1. works \in [A!Ids -> A!Rows] /\ A!Ids = DOMAIN works
  BY TableIs DEF A!Ids
<1>2. ASSUME NEW row \in A!Rows PROVE [row EXCEPT !.status = "invalidated"] \in A!Rows
  BY DEF A!Rows, A!Statuses
<1> QED BY <1>1, <1>2 DEF A!Noted

LEMMA IntegrityType == \A look \in A!Looks : A!Integrity(look) \in {"available", "missing", "corrupt"}
BY DEF A!Integrity, A!Looks

\* A pass's transaction: verdicts first, then a record that is there or a new one.
LEMMA ReuseRows ==
    ASSUME A!ArtifactConstants, StoreTypes, NEW r \in Runs, A!Reuse(r)
    PROVE  LET c == about[r]
               judged == IF seen[r] = None THEN works ELSE A!Noted(works, c, seen[r])
           IN /\ judged \in [A!Ids -> A!Rows]
              /\ \/ works' = judged /\ WorksType' /\ A!Ids' = A!Ids
                 \/ /\ Len(works) < MaxWork
                    /\ works' = Append(judged, [content |-> c, status |-> "ready", lease |-> None])
<1> DEFINE c == about[r]
           judged == IF seen[r] = None THEN works ELSE A!Noted(works, c, seen[r])
<1>1. judged \in [A!Ids -> A!Rows]
  BY NotedIs, TableIs DEF StoreTypes
<1>2. works' = judged => WorksType' /\ A!Ids' = A!Ids
  BY <1>1, RowsTable DEF StoreTypes
<1> QED BY <1>1, <1>2 DEF A!Reuse

LEMMA SetAt ==
    ASSUME NEW D, NEW R, NEW f \in [D -> R], NEW d \in D, NEW v \in R
    PROVE  [f EXCEPT ![d] = v] \in [D -> R]
OBVIOUS

\* The parts a step leaves alone keep their types.
LEMMA StoreUnchanged ==
    ASSUME StoreTypes
    PROVE  /\ UNCHANGED works => WorksType'
           /\ UNCHANGED attached => AttachedType'
           /\ UNCHANGED artifacts => ArtifactsType'
           /\ UNCHANGED A!disk => DiskType'
           /\ UNCHANGED keeping => StateType'
           /\ UNCHANGED <<stage, about, seen>> => StepType'
           /\ UNCHANGED gained => GainedType'
           /\ UNCHANGED A!results => ResultsType'
           /\ UNCHANGED A!upkeep => UpkeepType'
           /\ UNCHANGED <<damaged, stops>> => RestType'
BY DEF StoreTypes, WorksType, AttachedType, ArtifactsType, DiskType, StateType, StepType, GainedType,
       ResultsType, UpkeepType, RestType, A!disk, A!results, A!upkeep

-----------------------------------------------------------------------------
(* How rows change                                                         *)

\* What a step other than a claim, a publication or a deletion may make of a
\* record: its content stays, success is only lost, to an invalidation, and no
\* lease is gained.
RowFades(old, new) ==
    /\ new.content = old.content
    /\ new.status = "succeeded" => old.status = "succeeded"
    /\ old.status \in {"succeeded", "invalidated"} => new.status \in {"succeeded", "invalidated"}
    /\ new.status = "running" => old.status = "running" /\ new.lease = old.lease

\* A step under which every record fades, and new ones are ready.
RowsFade ==
    /\ A!Ids \subseteq A!Ids'
    /\ \A id \in A!Ids : RowFades(works[id], works'[id])
    /\ \A id \in A!Ids' \ A!Ids : works'[id].status = "ready"

\* The ways in which records are rewritten.
LEMMA Rewrites ==
    ASSUME NEW row \in A!Rows
    PROVE  /\ RowFades(row, row)
           /\ row.status = "succeeded" =>
                 /\ [row EXCEPT !.status = "invalidated"] \in A!Rows
                 /\ RowFades(row, [row EXCEPT !.status = "invalidated"])
           /\ row.status = "running" =>
                 /\ [row EXCEPT !.status = "ready", !.lease = None] \in A!Rows
                 /\ RowFades(row, [row EXCEPT !.status = "ready", !.lease = None])
           /\ row.status \notin A!Gone =>
                 LET new == [row EXCEPT !.status = IF @ = "succeeded" THEN "invalidated" ELSE "dropped",
                                        !.lease = None]
                 IN new \in A!Rows /\ RowFades(row, new)
BY DEF A!Rows, A!Statuses, RowFades, A!Gone

\* Rows that are rewritten one by one in one of these ways.
LEMMA FadeRowByRow ==
    ASSUME A!ArtifactConstants, WorksType, DOMAIN works' = A!Ids, works' = [id \in A!Ids |-> works'[id]],
           \A id \in A!Ids : works'[id] \in A!Rows /\ RowFades(works[id], works'[id])
    PROVE  WorksType' /\ A!Ids' = A!Ids /\ RowsFade
<1>1. works' \in [A!Ids -> A!Rows]
  OBVIOUS
<1>2. WorksType' /\ A!Ids' = A!Ids
  BY <1>1, RowsTable
<1> QED BY <1>2 DEF RowsFade

LEMMA RowsStay ==
    ASSUME A!ArtifactConstants, WorksType, UNCHANGED works
    PROVE  A!Ids' = A!Ids /\ RowsFade
<1>1. \A id \in A!Ids : works[id] \in A!Rows
  BY TableIs
<1> QED BY <1>1, Rewrites DEF RowsFade, A!Ids

\* What was looked at is judged: success over bytes that are not there is lost.
LEMMA NotedFades ==
    ASSUME A!ArtifactConstants, WorksType, NEW c, NEW look
    PROVE  \A id \in A!Ids : /\ A!Noted(works, c, look)[id] \in A!Rows
                            /\ RowFades(works[id], A!Noted(works, c, look)[id])
<1> SUFFICES ASSUME NEW id \in A!Ids
             PROVE  A!Noted(works, c, look)[id] \in A!Rows /\ RowFades(works[id], A!Noted(works, c, look)[id])
  OBVIOUS
<1>1. works[id] \in A!Rows
  BY TableIs
<1>2. A!Noted(works, c, look)[id] =
        IF look # "good" /\ works[id].content = c /\ works[id].status = "succeeded"
        THEN [works[id] EXCEPT !.status = "invalidated"] ELSE works[id]
  BY NotedIs, Zenon
<1>3. CASE look # "good" /\ works[id].content = c /\ works[id].status = "succeeded"
  BY <1>1, <1>2, <1>3, Rewrites
<1>4. CASE ~(look # "good" /\ works[id].content = c /\ works[id].status = "succeeded")
  BY <1>1, <1>2, <1>4, Rewrites
<1> QED BY <1>3, <1>4

\* A record that is added to a table.
LEMMA AppendRow ==
    ASSUME A!ArtifactConstants, WorksType, NEW table \in [A!Ids -> A!Rows], NEW row \in A!Rows
    PROVE  LET longer == Append(table, row) IN
           /\ longer \in Seq(A!Rows) /\ Len(longer) = Len(works) + 1
           /\ DOMAIN longer = A!Ids \cup {Len(works) + 1} /\ Len(works) + 1 \notin A!Ids
           /\ \A id \in A!Ids : longer[id] = table[id]
           /\ longer[Len(works) + 1] = row
<1>1. table \in Seq(A!Rows) /\ Len(table) = Len(works) /\ Len(works) \in Nat /\ A!Ids = 1..Len(works)
  BY TableFrom, TableIs DEF A!ArtifactConstants
<1> QED BY <1>1

\* A release of the records a Run holds.
Releases(r) ==
    works' = [id \in A!Ids |-> IF id \in A!Held(r) THEN [works[id] EXCEPT !.status = "ready", !.lease = None]
                             ELSE works[id]]

LEMMA ReleaseFades ==
    ASSUME A!ArtifactConstants, WorksType, NEW r \in Runs, Releases(r)
    PROVE  /\ WorksType' /\ A!Ids' = A!Ids /\ RowsFade
           /\ \A id \in A!Held(r) : works'[id].status = "ready"
<1>1. ASSUME NEW id \in A!Ids PROVE works'[id] \in A!Rows /\ RowFades(works[id], works'[id])
  <2>1. works[id] \in A!Rows
    BY TableIs, SMTT(30)
  <2>2. CASE id \in A!Held(r)
    BY <2>1, <2>2, Rewrites DEF Releases, A!Held
  <2>3. CASE id \notin A!Held(r)
    BY <2>1, <2>3, Rewrites DEF Releases
  <2> QED BY <2>2, <2>3
<1>2. ASSUME NEW id \in A!Held(r) PROVE works'[id].status = "ready"
  <2>1. id \in A!Ids /\ works[id] \in A!Rows
    BY TableIs DEF A!Held
  <2> QED BY <2>1 DEF Releases, A!Rows
<1>3. DOMAIN works' = A!Ids /\ works' = [id \in A!Ids |-> works'[id]]
  BY DEF Releases
<1> QED BY <1>1, <1>2, <1>3, FadeRowByRow

-----------------------------------------------------------------------------
(* Types, action by action                                                 *)

\* The steps of a Run's pass that leave the rows alone.
LEMMA PassTypes ==
    ASSUME A!ArtifactConstants, StoreTypes, NEW r \in Runs,
           A!Look(r) \/ A!LookAgain(r) \/ A!LoseLease(r) \/ A!Rediscover(r) \/ A!Cancel(r) \/ A!Complete(r)
    PROVE  StoreTypes'
<1>1. StateType' /\ StepType'
  <2>1. CASE A!Look(r)
    <3>1. PICK c \in Needs[r] : A!Goes(r, "looked", c, files[c]) \/ A!Goes(r, "looked", c, None)
      BY <2>1 DEF A!Look
    <3>2. c \in Bytes /\ files[c] \in A!Looks
      BY DEF A!ArtifactConstants, StoreTypes, DiskType
    <3> QED BY <3>1, <3>2, GoesType DEF StoreTypes
  <2>2. CASE A!LookAgain(r) BY <2>2, GoesType DEF StoreTypes, A!LookAgain
  <2>3. CASE A!LoseLease(r) BY <2>3, GoesType DEF StoreTypes, A!LoseLease
  <2>4. CASE A!Rediscover(r) BY <2>4, EndsType DEF StoreTypes, A!Rediscover
  <2>5. CASE A!Cancel(r) BY <2>5, EndsType DEF StoreTypes, A!Cancel
  <2>6. CASE A!Complete(r) BY <2>6, EndsType DEF StoreTypes, A!Complete
  <2> QED BY <2>1, <2>2, <2>3, <2>4, <2>5, <2>6
<1>2. UNCHANGED <<A!rows, A!disk, gained, A!results, A!upkeep, damaged, stops>>
  BY DEF A!Look, A!LookAgain, A!LoseLease, A!Rediscover, A!Cancel, A!Complete
<1> QED BY <1>1, <1>2, StoreUnchanged DEF StoreTypes, A!rows

\* What a pass has been looking at is a content.
AboutContent == \A r \in Runs : stage[r] \in {"looked", "claimed", "placed"} => about[r] \in Bytes

LEMMA ReuseTypes ==
    ASSUME A!ArtifactConstants, StoreTypes, AboutContent, NEW r \in Runs, A!Reuse(r)
    PROVE  StoreTypes' /\ RowsFade /\ attached'[r] \subseteq attached[r] \cup A!Ids'
<1> DEFINE c == about[r]
           judged == IF seen[r] = None THEN works ELSE A!Noted(works, c, seen[r])
           row == [content |-> c, status |-> "ready", lease |-> None]
<1>1. c \in Bytes /\ row \in A!Rows
  BY DEF AboutContent, A!Reuse, A!Active, A!Rows, A!Statuses
<1>2. /\ judged \in [A!Ids -> A!Rows] /\ DOMAIN judged = A!Ids
      /\ \A id \in A!Ids : judged[id] \in A!Rows /\ RowFades(works[id], judged[id])
  <2>1. CASE seen[r] = None
    BY <2>1, TableIs, Rewrites DEF StoreTypes, A!Ids
  <2>2. CASE seen[r] # None
    BY <2>2, NotedIs, NotedFades DEF StoreTypes
  <2> QED BY <2>1, <2>2, SMTT(30)
<1>3. ArtifactsType'
  <2>1. seen[r] # None => A!Integrity(seen[r]) \in {"available", "missing", "corrupt"}
    BY IntegrityType DEF StoreTypes, StepType
  <2>2. artifacts' = IF seen[r] = None THEN artifacts ELSE [artifacts EXCEPT ![c] = A!Integrity(seen[r])]
    BY Zenon DEF A!Reuse
  <2> QED BY <2>1, <2>2 DEF StoreTypes, ArtifactsType
<1>4. DiskType' /\ ResultsType' /\ UpkeepType' /\ RestType'
  BY StoreUnchanged DEF A!Reuse
<1> HIDE DEF judged, row
<1>5. CASE \E id \in A!Current(judged, c) :
              /\ works' = judged
              /\ attached' = [attached EXCEPT ![r] = @ \cup {id}]
              /\ IF works'[id].status = "succeeded"
                 THEN A!Gains(r, id) /\ A!Goes(r, "idle", None, None)
                 ELSE UNCHANGED gained /\ A!Goes(r, "claimed", c, None)
  <2>1. PICK id \in A!Current(judged, c) :
              /\ works' = judged
              /\ attached' = [attached EXCEPT ![r] = @ \cup {id}]
              /\ IF works'[id].status = "succeeded"
                 THEN A!Gains(r, id) /\ A!Goes(r, "idle", None, None)
                 ELSE UNCHANGED gained /\ A!Goes(r, "claimed", c, None)
    BY <1>5
  <2>2. WorksType' /\ A!Ids' = A!Ids /\ RowsFade
    BY <1>2, <2>1, FadeRowByRow DEF StoreTypes
  <2>3. id \in A!Ids /\ id \in 1..MaxWork
    BY <1>2, TableIs DEF A!Current, StoreTypes
  <2>4. AttachedType' /\ attached'[r] \subseteq attached[r] \cup A!Ids'
    BY <2>1, <2>2, <2>3 DEF StoreTypes, AttachedType
  <2>5. GainedType' /\ StateType' /\ StepType'
    BY <1>1, <2>1, <2>3, GainsType, GoesType, StoreUnchanged DEF StoreTypes
  <2> QED BY <1>3, <1>4, <2>2, <2>4, <2>5 DEF StoreTypes
<1>6. CASE /\ Len(works) < MaxWork
           /\ works' = Append(judged, row)
           /\ attached' = [attached EXCEPT ![r] = @ \cup {Len(works) + 1}]
           /\ A!Goes(r, "claimed", c, None)
           /\ UNCHANGED gained
  <2>1. /\ works' \in Seq(A!Rows) /\ Len(works') = Len(works) + 1
        /\ A!Ids' = A!Ids \cup {Len(works) + 1} /\ Len(works) + 1 \notin A!Ids
        /\ \A id \in A!Ids : works'[id] = judged[id]
        /\ works'[Len(works) + 1] = row
    BY <1>1, <1>2, <1>6, AppendRow DEF StoreTypes, A!Ids
  <2>2. WorksType' /\ Len(works) + 1 \in 1..MaxWork
    BY <1>6, <2>1, TableIs DEF StoreTypes, WorksType, A!ArtifactConstants
  <2>3. RowsFade
    BY <1>2, <2>1 DEF RowsFade, row
  <2>4. AttachedType' /\ attached'[r] \subseteq attached[r] \cup A!Ids'
    BY <1>6, <2>1, <2>2 DEF StoreTypes, AttachedType
  <2>5. GainedType' /\ StateType' /\ StepType'
    BY <1>1, <1>6, GoesType, StoreUnchanged DEF StoreTypes
  <2> QED BY <1>3, <1>4, <2>2, <2>3, <2>4, <2>5 DEF StoreTypes
<1> QED BY <1>5, <1>6 DEF A!Reuse, judged, row

\* What a pass holds.
LEMMA HeldIs ==
    ASSUME A!ArtifactConstants, StoreTypes, NEW r \in Runs, NEW id \in A!Held(r)
    PROVE  id \in A!Ids /\ id \in 1..MaxWork /\ works[id] \in A!Rows /\ works[id].status = "running"
BY TableIs DEF A!Held, StoreTypes

LEMMA ClaimTypes ==
    ASSUME A!ArtifactConstants, StoreTypes, NEW r \in Runs, A!Claim(r)
    PROVE  /\ StoreTypes' /\ A!Ids' = A!Ids
           /\ \E id \in A!Current(works, about[r]) :
                 /\ works[id].status = "ready" /\ works[id].content = about[r]
                 /\ works'[id].status = "running" /\ works'[id].lease = r
                 /\ works'[id].content = works[id].content
                 /\ \A other \in A!Ids \ {id} : works'[other] = works[other]
<1>1. PICK id \in A!Current(works, about[r]) :
         /\ works[id].status = "ready"
         /\ works' = [works EXCEPT ![id].status = "running", ![id].lease = r]
  BY DEF A!Claim
<1>2. id \in A!Ids /\ works[id] \in A!Rows /\ works[id].content = about[r] /\ works \in [A!Ids -> A!Rows]
  BY TableIs DEF A!Current, StoreTypes, A!Ids
<1>3. [works[id] EXCEPT !.status = "running", !.lease = r] \in A!Rows
  BY <1>2 DEF A!Rows, A!Statuses
<1>4. works' \in [A!Ids -> A!Rows]
  BY <1>1, <1>2, <1>3
<1>5. WorksType' /\ A!Ids' = A!Ids
  BY <1>4, RowsTable DEF StoreTypes
<1>6. UNCHANGED <<attached, artifacts, A!disk, A!pass, A!results, A!upkeep, damaged, stops>>
  BY DEF A!Claim
<1>7. StoreTypes'
  BY <1>5, <1>6, StoreUnchanged DEF StoreTypes, A!pass
<1>8. /\ works'[id].status = "running" /\ works'[id].lease = r
      /\ works'[id].content = works[id].content
      /\ \A other \in A!Ids \ {id} : works'[other] = works[other]
  BY <1>1, <1>2 DEF A!Rows
<1> QED BY <1>1, <1>2, <1>5, <1>7, <1>8

LEMMA PlaceTypes ==
    ASSUME A!ArtifactConstants, StoreTypes, AboutContent, NEW r \in Runs, A!PlaceBytes(r)
    PROVE  StoreTypes'
<1>1. about[r] \in Bytes
  BY DEF AboutContent, A!PlaceBytes, A!Active
<1>2. DiskType'
  BY <1>1 DEF A!PlaceBytes, StoreTypes, DiskType, A!Looks
<1>3. StateType' /\ StepType'
  BY <1>1, GoesType DEF A!PlaceBytes, StoreTypes
<1>4. UNCHANGED <<A!rows, gained, A!results, A!upkeep, damaged, stops>>
  BY DEF A!PlaceBytes
<1> QED BY <1>2, <1>3, <1>4, StoreUnchanged DEF StoreTypes, A!rows

LEMMA BindTypes ==
    ASSUME A!ArtifactConstants, StoreTypes, AboutContent, NEW r \in Runs, A!Bind(r)
    PROVE  /\ StoreTypes' /\ A!Ids' = A!Ids
           /\ \E id \in A!Held(r) :
                 /\ works'[id].status = "succeeded" /\ works'[id].content = works[id].content
                 /\ \A other \in A!Ids \ {id} : works'[other] = works[other]
<1>1. PICK id \in A!Held(r) :
         /\ works' = [works EXCEPT ![id].status = "succeeded", ![id].lease = None]
         /\ artifacts' = [artifacts EXCEPT ![about[r]] = "available"]
         /\ A!Gains(r, id)
  BY DEF A!Bind
<1>2. id \in A!Ids /\ id \in 1..MaxWork /\ works[id] \in A!Rows /\ works \in [A!Ids -> A!Rows]
  BY HeldIs, TableIs DEF StoreTypes
<1>3. [works[id] EXCEPT !.status = "succeeded", !.lease = None] \in A!Rows
  BY <1>2 DEF A!Rows, A!Statuses
<1>4. works' \in [A!Ids -> A!Rows]
  BY <1>1, <1>2, <1>3
<1>5. WorksType' /\ A!Ids' = A!Ids
  BY <1>4, RowsTable DEF StoreTypes
<1>6. ArtifactsType'
  BY <1>1 DEF AboutContent, A!Bind, A!Active, StoreTypes, ArtifactsType
<1>7. GainedType' /\ StateType' /\ StepType'
  BY <1>1, <1>2, GainsType, GoesType DEF StoreTypes, A!Bind
<1>8. UNCHANGED <<attached, A!disk, A!results, A!upkeep, damaged, stops>>
  BY DEF A!Bind
<1>9. StoreTypes'
  BY <1>5, <1>6, <1>7, <1>8, StoreUnchanged DEF StoreTypes
<1>10. /\ works'[id].status = "succeeded" /\ works'[id].content = works[id].content
       /\ \A other \in A!Ids \ {id} : works'[other] = works[other]
  BY <1>1, <1>2 DEF A!Rows
<1> QED BY <1>1, <1>5, <1>9, <1>10

LEMMA LinkTypes ==
    ASSUME A!ArtifactConstants, StoreTypes, NEW r \in Runs, A!LinkResult(r)
    PROVE  StoreTypes'
<1>1. StateType' /\ StepType'
  <2>1. A!Ends(r, "ended") \/ A!Goes(r, "linked", None, None)
    BY DEF A!LinkResult
  <2> QED BY <2>1, EndsType, GoesType DEF StoreTypes
<1>2. ResultsType'
  <2>1. (UNCHANGED filed \/ filed' = [filed EXCEPT ![r] = gained[r]]) /\ UNCHANGED registered
    BY DEF A!LinkResult
  <2> QED BY <2>1 DEF StoreTypes, ResultsType, GainedType
<1>3. UNCHANGED <<A!rows, A!disk, gained, A!upkeep, damaged, stops>>
  BY DEF A!LinkResult
<1> QED BY <1>1, <1>2, <1>3, StoreUnchanged DEF StoreTypes, A!rows

LEMMA RegisterTypes ==
    ASSUME A!ArtifactConstants, StoreTypes, NEW r \in Runs, A!Register(r)
    PROVE  StoreTypes'
<1>1. StateType' /\ StepType'
  <2>1. A!Ends(r, "ended") \/ A!Ends(r, "sealed")
    BY DEF A!Register
  <2> QED BY <2>1, EndsType DEF StoreTypes
<1>2. ResultsType'
  <2>1. (UNCHANGED registered \/ registered' = [registered EXCEPT ![r] = gained[r]]) /\ UNCHANGED filed
    BY DEF A!Register
  <2> QED BY <2>1 DEF StoreTypes, ResultsType, GainedType
<1>3. UNCHANGED <<A!rows, A!disk, gained, A!upkeep, damaged, stops>>
  BY DEF A!Register
<1> QED BY <1>1, <1>2, <1>3, StoreUnchanged DEF StoreTypes, A!rows

LEMMA MoreStops ==
    ASSUME A!ArtifactConstants, StoreTypes, stops < MaxStops, stops' = stops + 1, UNCHANGED damaged
    PROVE  RestType'
BY DEF A!ArtifactConstants, StoreTypes, RestType

LEMMA StopTypes ==
    ASSUME A!ArtifactConstants, StoreTypes, NEW r \in Runs, A!Stop(r)
    PROVE  StoreTypes' /\ Releases(r)
<1>1. StateType' /\ StepType'
  BY GoesType DEF StoreTypes, A!Stop
<1>2. GainedType'
  BY DEF A!Stop, StoreTypes, GainedType
<1>3. Releases(r) /\ UNCHANGED <<attached, artifacts, A!disk, A!results, A!upkeep>>
  BY DEF A!Stop, Releases
<1>4. RestType'
  BY MoreStops DEF A!Stop
<1> QED BY <1>1, <1>2, <1>3, <1>4, ReleaseFades, StoreUnchanged DEF StoreTypes

LEMMA StopSealedTypes ==
    ASSUME A!ArtifactConstants, StoreTypes, NEW r \in Runs, A!StopSealed(r)
    PROVE  StoreTypes'
<1>1. StateType' /\ GainedType'
  BY DEF A!StopSealed, StoreTypes, StateType, GainedType
<1>2. UNCHANGED <<A!rows, A!disk, stage, about, seen, A!results, A!upkeep>>
  BY DEF A!StopSealed
<1>3. RestType'
  BY MoreStops DEF A!StopSealed
<1> QED BY <1>1, <1>2, <1>3, StoreUnchanged DEF StoreTypes, A!rows

LEMMA ExpiryTypes ==
    ASSUME A!ArtifactConstants, StoreTypes, NEW r \in Runs, A!LeaseExpires(r)
    PROVE  StoreTypes' /\ Releases(r)
<1>1. Releases(r) /\ UNCHANGED <<attached, artifacts, A!disk, A!pass, A!results, A!upkeep>>
  BY DEF A!LeaseExpires, Releases
<1>2. RestType'
  BY MoreStops DEF A!LeaseExpires
<1> QED BY <1>1, <1>2, ReleaseFades, StoreUnchanged DEF StoreTypes, A!pass

LEMMA SourceTypes ==
    ASSUME A!ArtifactConstants, StoreTypes, A!SourceChanges
    PROVE  StoreTypes' /\ A!Ids' = A!Ids /\ RowsFade
<1>1. PICK id \in A!Ids :
         /\ works[id].status \notin A!Gone
         /\ works' = [works EXCEPT ![id].status = IF @ = "succeeded" THEN "invalidated" ELSE "dropped",
                                   ![id].lease = None]
  BY DEF A!SourceChanges
<1> DEFINE new == [works[id] EXCEPT !.status = IF @ = "succeeded" THEN "invalidated" ELSE "dropped",
                                    !.lease = None]
<1>2. works \in [A!Ids -> A!Rows] /\ works[id] \in A!Rows
  BY TableIs DEF StoreTypes
<1>3. new \in A!Rows /\ RowFades(works[id], new)
  BY <1>1, <1>2, Rewrites
<1>4. works' = [works EXCEPT ![id] = new]
  BY <1>1, <1>2 DEF A!Rows
<1> HIDE DEF new
<1>5. ASSUME NEW other \in A!Ids PROVE works'[other] \in A!Rows /\ RowFades(works[other], works'[other])
  BY <1>2, <1>3, <1>4, Rewrites
<1>6. DOMAIN works' = A!Ids /\ works' = [other \in A!Ids |-> works'[other]]
  BY <1>2, <1>4
<1>7. WorksType' /\ A!Ids' = A!Ids /\ RowsFade
  BY <1>5, <1>6, FadeRowByRow DEF StoreTypes
<1>8. UNCHANGED <<attached, artifacts, A!disk, A!pass, A!results, A!upkeep>> /\ RestType'
  BY MoreStops DEF A!SourceChanges
<1> QED BY <1>7, <1>8, StoreUnchanged DEF StoreTypes, A!pass

-----------------------------------------------------------------------------
(* Types under maintenance                                                 *)

LEMMA AuditTypes ==
    ASSUME A!ArtifactConstants, StoreTypes, A!Audit
    PROVE  StoreTypes' /\ A!Ids' = A!Ids /\ RowsFade
<1> DEFINE bad == {c \in Bytes : artifacts[c] # None /\ files[c] # "good"}
<1>1. /\ artifacts' = [c \in Bytes |-> IF artifacts[c] = None THEN None ELSE A!Integrity(files[c])]
      /\ works' = [id \in A!Ids |->
                      IF works[id].status = "succeeded" /\ works[id].content \in bad
                      THEN [works[id] EXCEPT !.status = "invalidated"] ELSE works[id]]
  BY DEF A!Audit
<1>2. ArtifactsType'
  <2>1. \A c \in Bytes : A!Integrity(files[c]) \in {"available", "missing", "corrupt"}
    BY IntegrityType DEF StoreTypes, DiskType
  <2> QED BY <1>1, <2>1 DEF ArtifactsType
<1> HIDE DEF bad
<1>3. ASSUME NEW id \in A!Ids PROVE works'[id] \in A!Rows /\ RowFades(works[id], works'[id])
  <2>1. works[id] \in A!Rows
    BY TableIs, SMTT(30) DEF StoreTypes
  <2>2. CASE works[id].status = "succeeded" /\ works[id].content \in bad
    BY <1>1, <2>1, <2>2, Rewrites
  <2>3. CASE ~(works[id].status = "succeeded" /\ works[id].content \in bad)
    BY <1>1, <2>1, <2>3, Rewrites
  <2> QED BY <2>2, <2>3
<1>4. WorksType' /\ A!Ids' = A!Ids /\ RowsFade
  BY <1>1, <1>3, FadeRowByRow DEF StoreTypes
<1>5. UpkeepType'
  <2>1. PICK old \in SUBSET A!CollectibleWorks :
         plan' = [works |-> old,
                  artifacts |-> A!CollectibleArtifacts(old),
                  strays |-> {c \in Bytes : artifacts[c] = None /\ files[c] # "absent"} \ recent,
                  results |-> {r \in Runs : filed[r] # None /\ registered[r] = None}]
    BY DEF A!Audit
  <2>2. old \subseteq 1..MaxWork /\ A!CollectibleArtifacts(old) \subseteq Bytes
    BY TableIs DEF StoreTypes, A!CollectibleWorks, A!CollectibleArtifacts
  <2> QED BY <2>1, <2>2 DEF UpkeepType, A!Plans, A!Audit
<1>6. UNCHANGED <<attached, A!disk, A!pass, A!results, damaged, stops>>
  BY DEF A!Audit
<1> QED BY <1>2, <1>4, <1>5, <1>6, StoreUnchanged DEF StoreTypes, A!pass

\* A collection deletes rows that are invalid and that no Result names, and with
\* them only Artifacts that no Result pins.
LEMMA DeleteTypes ==
    ASSUME A!ArtifactConstants, StoreTypes, A!DeleteRows
    PROVE  /\ StoreTypes' /\ A!Ids' = A!Ids
           /\ \A id \in A!Ids : /\ works'[id].content = works[id].content
                                /\ \/ works'[id] = works[id]
                                   \/ /\ works'[id].status = "deleted" /\ works[id].status # "succeeded"
                                      /\ \A r \in Runs : registered[r] = None \/ id \notin registered[r]
           /\ \A c \in Bytes : artifacts'[c] = artifacts[c] \/ ~A!Pinned(c)
<1> DEFINE ids == A!CollectibleWorks \cap plan.works
           gone == A!CollectibleArtifacts(ids) \cap plan.artifacts
<1>1. /\ works' = [id \in A!Ids |-> IF id \in ids THEN [works[id] EXCEPT !.status = "deleted"] ELSE works[id]]
      /\ attached' = [r \in Runs |-> attached[r] \ ids]
      /\ artifacts' = [c \in Bytes |-> IF c \in gone THEN None ELSE artifacts[c]]
      /\ plan' = [plan EXCEPT !.works = {}, !.artifacts = gone]
      /\ cleaning' = "moving"
      /\ UNCHANGED <<A!disk, A!pass, A!results, damaged, stops>>
  BY DEF A!DeleteRows
<1>2. \A id \in ids : /\ works[id].status \in {"invalidated", "dropped"}
                      /\ \A r \in Runs : registered[r] = None \/ id \notin registered[r]
  BY DEF A!CollectibleWorks
<1>3. gone \subseteq Bytes /\ \A c \in gone : ~A!Pinned(c)
  BY DEF A!CollectibleArtifacts
<1> HIDE DEF ids, gone
<1>4. ASSUME NEW id \in A!Ids
      PROVE  /\ works'[id] \in A!Rows /\ works'[id].content = works[id].content
             /\ \/ works'[id] = works[id]
                \/ works'[id].status = "deleted" /\ id \in ids
  <2>1. works[id] \in A!Rows
    BY TableIs DEF StoreTypes
  <2>2. CASE id \in ids
    BY <1>1, <2>1, <2>2 DEF A!Rows, A!Statuses
  <2>3. CASE id \notin ids
    BY <1>1, <2>1, <2>3
  <2> QED BY <2>2, <2>3
<1>5. works' \in [A!Ids -> A!Rows]
  BY <1>1, <1>4
<1>6. WorksType' /\ A!Ids' = A!Ids
  BY <1>5, RowsTable DEF StoreTypes
<1>7. AttachedType' /\ ArtifactsType'
  BY <1>1 DEF StoreTypes, AttachedType, ArtifactsType
<1>8. UpkeepType'
  BY <1>1, <1>3 DEF StoreTypes, UpkeepType, A!Plans
<1>9. StoreTypes'
  BY <1>1, <1>6, <1>7, <1>8, StoreUnchanged DEF StoreTypes, A!pass
<1>10. \A c \in Bytes : artifacts'[c] = artifacts[c] \/ ~A!Pinned(c)
  BY <1>1, <1>3
<1> QED BY <1>2, <1>4, <1>6, <1>9, <1>10

LEMMA MoveTypes ==
    ASSUME A!ArtifactConstants, StoreTypes, A!MoveFile
    PROVE  StoreTypes'
<1>1. UNCHANGED <<A!rows, A!pass, registered, cleaning, damaged, stops>>
  BY DEF A!MoveFile
<1>2. CASE \E c \in plan.artifacts \cup plan.strays :
            /\ plan' = [plan EXCEPT !.artifacts = @ \ {c}, !.strays = @ \ {c}]
            /\ A!Quarantine(c)
            /\ recent' = recent \ {c}
            /\ UNCHANGED filed
  <2>1. PICK c \in plan.artifacts \cup plan.strays :
            /\ plan' = [plan EXCEPT !.artifacts = @ \ {c}, !.strays = @ \ {c}]
            /\ A!Quarantine(c)
            /\ recent' = recent \ {c}
    BY <1>2
  <2>2. plan \in A!Plans /\ c \in Bytes
    BY DEF StoreTypes, UpkeepType, A!Plans
  <2>3. UpkeepType'
    BY <1>1, <2>1, <2>2 DEF StoreTypes, UpkeepType, A!Plans
  <2>4. DiskType'
    BY <2>1, <2>2 DEF A!Quarantine, StoreTypes, DiskType, A!Looks
  <2>5. UNCHANGED A!results
    BY <1>1, <1>2 DEF A!results
  <2> QED BY <1>1, <2>3, <2>4, <2>5, StoreUnchanged DEF StoreTypes, A!rows, A!pass
<1>3. CASE \E r \in plan.results :
            /\ plan' = [plan EXCEPT !.results = @ \ {r}]
            /\ vault' = vault \cup {r}
            /\ filed' = [filed EXCEPT ![r] = None]
            /\ UNCHANGED <<files, recent>>
  <2>1. PICK r \in plan.results :
            /\ plan' = [plan EXCEPT !.results = @ \ {r}]
            /\ vault' = vault \cup {r}
            /\ filed' = [filed EXCEPT ![r] = None]
            /\ UNCHANGED <<files, recent>>
    BY <1>3
  <2>2. plan \in A!Plans /\ r \in Runs
    BY DEF StoreTypes, UpkeepType, A!Plans
  <2>3. UpkeepType'
    BY <1>1, <2>1, <2>2 DEF StoreTypes, UpkeepType, A!Plans
  <2>4. DiskType'
    BY <2>1, <2>2 DEF StoreTypes, DiskType
  <2>5. ResultsType'
    <3>1. UNCHANGED registered
      BY <1>1
    <3>2. filed' \in [Runs -> (SUBSET (1..MaxWork)) \cup {None}]
      <4>1. filed \in [Runs -> (SUBSET (1..MaxWork)) \cup {None}]
        BY DEF StoreTypes, ResultsType
      <4>2. None \in (SUBSET (1..MaxWork)) \cup {None}
        BY Zenon
      <4> QED BY <2>1, <2>2, <4>1, <4>2, SetAt, Zenon
    <3> QED BY <3>1, <3>2 DEF StoreTypes, ResultsType
  <2> QED BY <1>1, <2>3, <2>4, <2>5, StoreUnchanged DEF StoreTypes, A!rows, A!pass
<1> QED BY <1>2, <1>3 DEF A!MoveFile

LEMMA EndTypes == ASSUME StoreTypes, A!EndCollection PROVE StoreTypes'
<1>1. UpkeepType'
  BY DEF A!EndCollection, UpkeepType, A!Plans, A!NoPlan
<1>2. UNCHANGED <<A!rows, A!disk, A!pass, A!results, damaged, stops>>
  BY DEF A!EndCollection
<1> QED BY <1>1, <1>2, StoreUnchanged DEF StoreTypes, A!rows, A!pass

LEMMA RestoreTypes == ASSUME StoreTypes, A!Restore PROVE StoreTypes'
<1>1. UNCHANGED <<A!rows, recent, A!pass, registered, A!upkeep, damaged, stops>>
  BY DEF A!Restore
<1>2. DiskType' /\ ResultsType'
  BY <1>1 DEF A!Restore, StoreTypes, DiskType, A!Looks, ResultsType
<1> QED BY <1>1, <1>2, StoreUnchanged DEF StoreTypes, A!rows, A!pass

LEMMA DamageTypes == ASSUME StoreTypes, A!Damage PROVE StoreTypes'
<1>1. UNCHANGED <<A!rows, recent, vault, A!pass, A!results, A!upkeep, stops>>
  BY DEF A!Damage
<1>2. DiskType' /\ RestType'
  BY <1>1 DEF A!Damage, StoreTypes, DiskType, A!Looks, RestType
<1> QED BY <1>1, <1>2, StoreUnchanged DEF StoreTypes, A!rows, A!pass

LEMMA AgeTypes == ASSUME StoreTypes, A!Age PROVE StoreTypes'
<1>1. UNCHANGED <<A!rows, files, vault, A!pass, A!results, A!upkeep, damaged, stops>> /\ recent' = {}
  BY DEF A!Age
<1>2. DiskType'
  BY <1>1 DEF StoreTypes, DiskType
<1> QED BY <1>1, <1>2, StoreUnchanged DEF StoreTypes, A!rows, A!pass

-----------------------------------------------------------------------------
(* The inductive invariant                                                 *)

\* Ids that Runs and Results know are ids of records.
InTable == \A r \in Runs : /\ attached[r] \subseteq A!Ids
                           /\ registered[r] # None => registered[r] \subseteq A!Ids

\* A Run that is sealed or over has no pass under way.
AtRest == \A r \in Runs : keeping[r] # "active" => stage[r] = "idle"

\* A pass holds one record at most, of the content it is about to publish.
OneHeld == \A r \in Runs : \A id \in A!Held(r) :
              /\ stage[r] \in {"claimed", "placed"} /\ works[id].content = about[r]
              /\ A!Held(r) = {id}

\* What has been linked is what will be registered, in place or in quarantine.
Linked == \A r \in Runs : stage[r] = "linked" =>
              /\ registered[r] = None /\ filed[r] \in {gained[r], None}
              /\ filed[r] # None \/ r \in vault

\* A content somebody counts on: a record or a Result does, or a pass that has
\* put it in place and will bind it.
Counted(c) == \/ A!Owners(c, {"succeeded"}) # {} \/ A!Pinned(c)
              \/ \E r \in Runs : stage[r] = "placed" /\ about[r] = c

Safe(c) == files[c] = "good" \/ c \in vault \/ c \in damaged

CountedAreSafe == \A c \in Bytes : Counted(c) => Safe(c)

ResultsInPlace == \A r \in Runs : registered[r] # None => filed[r] # None \/ r \in vault

StoreInv == /\ StoreTypes /\ InTable /\ AtRest /\ OneHeld /\ AboutContent /\ Linked /\ CountedAreSafe
            /\ ResultsInPlace /\ A!ResultsKeepTheirOwn

LEMMA InitInv == ASSUME A!ArtifactConstants, A!Init PROVE StoreInv
<1>1. A!Ids = {} /\ works = <<>>
  BY DEF A!Init, A!Ids
<1>2. StoreTypes
  <2>1. WorksType
    BY <1>1 DEF WorksType, A!ArtifactConstants
  <2>2. plan \in A!Plans
    BY DEF A!Init, A!NoPlan, A!Plans
  <2>3. stops \in 0..MaxStops
    BY DEF A!Init, A!ArtifactConstants
  <2> QED BY <2>1, <2>2, <2>3 DEF A!Init, StoreTypes, AttachedType, ArtifactsType, DiskType, StateType,
              StepType, GainedType, ResultsType, UpkeepType, RestType, A!Looks
<1>3. \A r \in Runs : A!Held(r) = {} /\ attached[r] = {} /\ registered[r] = None /\ stage[r] = "idle"
                      /\ keeping[r] = "active"
  BY <1>1 DEF A!Held, A!Init
<1>4. \A c \in Bytes : ~Counted(c)
  <2>1. \A c \in Bytes : A!Owners(c, {"succeeded"}) = {}
    BY <1>1 DEF A!Owners
  <2> QED BY <1>3, <2>1 DEF Counted, A!Pinned
<1> QED BY <1>2, <1>3, <1>4 DEF StoreInv, InTable, AtRest, OneHeld, AboutContent, Linked,
                                CountedAreSafe, ResultsInPlace, A!ResultsKeepTheirOwn

-----------------------------------------------------------------------------
(* What a step of the pass moves                                           *)

LEMMA GoesAt ==
    ASSUME StoreTypes, NEW r \in Runs, NEW to, NEW c, NEW look, A!Goes(r, to, c, look)
    PROVE  /\ stage'[r] = to /\ about'[r] = c /\ keeping' = keeping
           /\ \A s \in Runs \ {r} : stage'[s] = stage[s] /\ about'[s] = about[s]
BY DEF StoreTypes, StepType, A!Goes

LEMMA EndsAt ==
    ASSUME StoreTypes, NEW r \in Runs, NEW verdict, A!Ends(r, verdict)
    PROVE  /\ stage'[r] = "idle" /\ keeping'[r] = verdict
           /\ \A s \in Runs \ {r} : stage'[s] = stage[s] /\ about'[s] = about[s] /\ keeping'[s] = keeping[s]
BY DEF StoreTypes, StepType, StateType, A!Ends

LEMMA GainsAt ==
    ASSUME StoreTypes, NEW r \in Runs, NEW id, A!Gains(r, id)
    PROVE  gained'[r] = gained[r] \cup {id} /\ \A s \in Runs \ {r} : gained'[s] = gained[s]
BY DEF StoreTypes, GainedType, A!Gains

\* The steps of a pass, named apart from those of the upkeep.
PassStep(r) == \/ A!Look(r) \/ A!LookAgain(r) \/ A!Reuse(r) \/ A!Claim(r) \/ A!PlaceBytes(r)
               \/ A!Bind(r) \/ A!LoseLease(r) \/ A!Rediscover(r) \/ A!LinkResult(r)
               \/ A!Register(r) \/ A!Stop(r) \/ A!StopSealed(r) \/ A!LeaseExpires(r)
               \/ A!Cancel(r) \/ A!Complete(r)
Upkeep == \/ A!SourceChanges \/ A!Audit \/ A!DeleteRows \/ A!MoveFile \/ A!EndCollection
          \/ A!Restore \/ A!Damage \/ A!Age

LEMMA NextIs == A!Next <=> (\E r \in Runs : PassStep(r)) \/ Upkeep
BY Zenon DEF A!Next, PassStep, Upkeep

\* The upkeep touches no pass.
LEMMA UpkeepFrame == ASSUME Upkeep PROVE UNCHANGED <<A!pass, registered>>
BY DEF Upkeep, A!SourceChanges, A!Audit, A!DeleteRows, A!MoveFile, A!EndCollection, A!Restore,
       A!Damage, A!Age, A!pass, A!results

\* Where a step of the pass of r leaves r, and that it leaves the others alone.
OthersStay(r) ==
    \A s \in Runs \ {r} : /\ stage'[s] = stage[s] /\ about'[s] = about[s] /\ keeping'[s] = keeping[s]
                          /\ gained'[s] = gained[s]
Moves(r) ==
    \/ stage'[r] = "idle"
    \/ /\ stage'[r] = stage[r] /\ about'[r] = about[r] /\ keeping'[r] = keeping[r] /\ gained'[r] = gained[r]
    \/ /\ keeping'[r] = "active"
       /\ \/ stage'[r] = "looked" /\ about'[r] \in Bytes /\ A!Look(r)
          \/ stage'[r] = "claimed" /\ about'[r] = about[r] /\ A!Reuse(r)
          \/ stage'[r] = "placed" /\ about'[r] = about[r] /\ A!PlaceBytes(r)
          \/ stage'[r] = "linked" /\ A!LinkResult(r) /\ gained'[r] = gained[r]

LEMMA PassMoves ==
    ASSUME A!ArtifactConstants, StoreTypes, AtRest, NEW r \in Runs, PassStep(r)
    PROVE  OthersStay(r) /\ Moves(r)
<1>1. CASE A!Look(r)
  <2>1. PICK c \in Needs[r] : A!Goes(r, "looked", c, files[c]) \/ A!Goes(r, "looked", c, None)
    BY <1>1 DEF A!Look
  <2>2. c \in Bytes
    BY DEF A!ArtifactConstants
  <2> QED BY <1>1, <2>1, <2>2, GoesAt DEF A!Look, A!Active, OthersStay, Moves
<1>2. CASE A!LookAgain(r) BY <1>2, GoesAt DEF A!LookAgain, A!Active, OthersStay, Moves
<1>3. CASE A!Reuse(r)
  <2>1. CASE \E id : A!Gains(r, id) /\ A!Goes(r, "idle", None, None)
    BY <2>1, GoesAt, GainsAt DEF OthersStay, Moves
  <2>2. CASE UNCHANGED gained /\ A!Goes(r, "claimed", about[r], None)
    BY <1>3, <2>2, GoesAt DEF OthersStay, Moves, A!Reuse, A!Active
  <2>3. \/ \E id : A!Gains(r, id) /\ A!Goes(r, "idle", None, None)
        \/ UNCHANGED gained /\ A!Goes(r, "claimed", about[r], None)
    BY <1>3 DEF A!Reuse
  <2> QED BY <2>1, <2>2, <2>3
<1>4. CASE A!Claim(r) BY <1>4 DEF A!Claim, A!pass, OthersStay, Moves
<1>5. CASE A!PlaceBytes(r) BY <1>5, GoesAt DEF A!PlaceBytes, A!Active, OthersStay, Moves
<1>6. CASE A!Bind(r)
  <2>1. PICK id : A!Gains(r, id)
    BY <1>6 DEF A!Bind
  <2> QED BY <1>6, <2>1, GoesAt, GainsAt DEF A!Bind, OthersStay, Moves
<1>7. CASE A!LoseLease(r) BY <1>7, GoesAt DEF A!LoseLease, OthersStay, Moves
<1>8. CASE A!Rediscover(r) BY <1>8, EndsAt DEF A!Rediscover, OthersStay, Moves
<1>9. CASE A!LinkResult(r)
  <2>1. (A!Ends(r, "ended") \/ A!Goes(r, "linked", None, None)) /\ UNCHANGED gained /\ keeping[r] = "active"
    BY <1>9 DEF A!LinkResult, A!Ready, A!Active
  <2> QED BY <1>9, <2>1, GoesAt, EndsAt DEF OthersStay, Moves
<1>10. CASE A!Register(r)
  <2>1. (A!Ends(r, "ended") \/ A!Ends(r, "sealed")) /\ UNCHANGED gained
    BY <1>10 DEF A!Register
  <2> QED BY <2>1, EndsAt DEF OthersStay, Moves
<1>11. CASE A!Stop(r)
  <2>1. \A s \in Runs \ {r} : gained'[s] = gained[s]
    BY <1>11 DEF A!Stop, StoreTypes, GainedType
  <2> QED BY <1>11, <2>1, GoesAt DEF A!Stop, OthersStay, Moves
<1>12. CASE A!StopSealed(r) BY <1>12 DEF A!StopSealed, AtRest, StoreTypes, GainedType, StateType,
                                         OthersStay, Moves
<1>13. CASE A!LeaseExpires(r) BY <1>13 DEF A!LeaseExpires, A!pass, OthersStay, Moves
<1>14. CASE A!Cancel(r) BY <1>14, EndsAt DEF A!Cancel, OthersStay, Moves
<1>15. CASE A!Complete(r) BY <1>15, EndsAt DEF A!Complete, OthersStay, Moves
<1> QED BY <1>1, <1>2, <1>3, <1>4, <1>5, <1>6, <1>7, <1>8, <1>9, <1>10, <1>11, <1>12, <1>13, <1>14,
           <1>15 DEF PassStep

\* What any step does to the places of the passes.
PlacesMove ==
    \A s \in Runs :
      \/ stage'[s] = "idle"
      \/ /\ stage'[s] = stage[s] /\ about'[s] = about[s] /\ keeping'[s] = keeping[s] /\ gained'[s] = gained[s]
      \/ /\ keeping'[s] = "active"
         /\ \/ stage'[s] = "looked" /\ about'[s] \in Bytes /\ A!Look(s)
            \/ stage'[s] = "claimed" /\ about'[s] = about[s] /\ A!Reuse(s)
            \/ stage'[s] = "placed" /\ about'[s] = about[s] /\ A!PlaceBytes(s)
            \/ stage'[s] = "linked" /\ A!LinkResult(s) /\ gained'[s] = gained[s]

LEMMA StepMoves ==
    ASSUME A!ArtifactConstants, StoreTypes, AtRest, A!Next \/ UNCHANGED A!vars
    PROVE  PlacesMove
<1>1. CASE UNCHANGED A!pass
  BY <1>1 DEF PlacesMove, A!pass
<1>2. ASSUME NEW r \in Runs, PassStep(r) PROVE PlacesMove
  <2>1. OthersStay(r) /\ Moves(r)
    BY <1>2, PassMoves
  <2> QED BY <2>1 DEF OthersStay, Moves, PlacesMove
<1> QED BY <1>1, <1>2, NextIs, UpkeepFrame DEF A!vars

LEMMA AtRestStays ==
    ASSUME A!ArtifactConstants, StoreTypes, AtRest, AboutContent, A!Next \/ UNCHANGED A!vars
    PROVE  AtRest' /\ AboutContent'
<1>1. PlacesMove
  BY StepMoves
<1>2. AtRest'
  BY <1>1 DEF PlacesMove, AtRest
<1>3. ASSUME NEW s \in Runs PROVE (stage[s] \in {"looked", "claimed", "placed"} => about[s] \in Bytes)'
  <2>1. A!Reuse(s) \/ A!PlaceBytes(s) => about[s] \in Bytes
    BY DEF AboutContent, A!Reuse, A!PlaceBytes, A!Active
  <2> QED BY <1>1, <2>1 DEF PlacesMove, AboutContent
<1> QED BY <1>2, <1>3 DEF AboutContent

-----------------------------------------------------------------------------
(* What a step does to the records                                         *)

\* Records stay, with their contents; only a publication makes a success, only a
\* claim a holder, and what a Result names stays a success or an invalidated one.
RowsMove ==
    /\ A!Ids \subseteq A!Ids'
    /\ \A id \in A!Ids : works'[id].content = works[id].content
    /\ \A id \in A!Ids' : works'[id].status = "succeeded" =>
          id \in A!Ids /\ (works[id].status = "succeeded" \/ \E r \in Runs : A!Bind(r) /\ id \in A!Held(r))
    /\ \A id \in A!Ids' : works'[id].status = "running" =>
          id \in A!Ids /\ (\/ works[id].status = "running" /\ works'[id].lease = works[id].lease
                           \/ \E r \in Runs : A!Claim(r))
    /\ \A id \in A!Ids : works[id].status \in {"succeeded", "invalidated"} =>
          \/ works'[id].status \in {"succeeded", "invalidated"}
          \/ \A r \in Runs : registered[r] = None \/ id \notin registered[r]

LEMMA FadesMove == ASSUME RowsFade PROVE RowsMove
<1>1. \A id \in A!Ids' : id \in A!Ids \/ works'[id].status = "ready"
  BY DEF RowsFade
<1>2. \A id \in A!Ids : RowFades(works[id], works'[id])
  BY DEF RowsFade
<1> QED BY <1>1, <1>2 DEF RowsMove, RowFades, RowsFade

LEMMA StoreTypeStep ==
    ASSUME A!ArtifactConstants, StoreTypes, AboutContent, A!Next \/ UNCHANGED A!vars
    PROVE  StoreTypes'
<1>1. ASSUME NEW r \in Runs, PassStep(r) PROVE StoreTypes'
  BY <1>1, PassTypes, ReuseTypes, ClaimTypes, PlaceTypes, BindTypes, LinkTypes, RegisterTypes, StopTypes,
     StopSealedTypes, ExpiryTypes DEF PassStep
<1>2. CASE Upkeep
  BY <1>2, SourceTypes, AuditTypes, DeleteTypes, MoveTypes, EndTypes, RestoreTypes, DamageTypes, AgeTypes
  DEF Upkeep
<1>3. CASE UNCHANGED A!vars
  BY <1>3, StoreUnchanged DEF StoreTypes, A!vars, A!rows, A!pass
<1> QED BY <1>1, <1>2, <1>3, NextIs

LEMMA RowsStep ==
    ASSUME A!ArtifactConstants, StoreTypes, AboutContent, A!Next \/ UNCHANGED A!vars
    PROVE  RowsMove
<1>1. CASE UNCHANGED works
  BY <1>1, RowsStay, FadesMove DEF StoreTypes
<1>2. ASSUME NEW r \in Runs, A!Reuse(r) \/ A!Stop(r) \/ A!LeaseExpires(r) PROVE RowsMove
  BY <1>2, ReuseTypes, StopTypes, ExpiryTypes, ReleaseFades, FadesMove DEF StoreTypes
<1>3. CASE A!SourceChanges \/ A!Audit
  BY <1>3, SourceTypes, AuditTypes, FadesMove
<1>4. ASSUME NEW r \in Runs, A!Claim(r) PROVE RowsMove
  <2>1. PICK id \in A!Current(works, about[r]) :
                 /\ works[id].status = "ready" /\ works[id].content = about[r]
                 /\ works'[id].status = "running" /\ works'[id].lease = r
                 /\ works'[id].content = works[id].content
                 /\ \A other \in A!Ids \ {id} : works'[other] = works[other]
    BY <1>4, ClaimTypes
  <2>2. A!Ids' = A!Ids /\ id \in A!Ids
    BY <1>4, ClaimTypes DEF A!Current, A!Ids
  <2> QED BY <1>4, <2>1, <2>2 DEF RowsMove
<1>5. ASSUME NEW r \in Runs, A!Bind(r) PROVE RowsMove
  <2>1. PICK id \in A!Held(r) :
                 /\ works'[id].status = "succeeded" /\ works'[id].content = works[id].content
                 /\ \A other \in A!Ids \ {id} : works'[other] = works[other]
    BY <1>5, BindTypes
  <2>2. A!Ids' = A!Ids /\ id \in A!Ids /\ works[id].status = "running"
    BY <1>5, BindTypes, HeldIs
  <2> QED BY <1>5, <2>1, <2>2 DEF RowsMove
<1>6. CASE A!DeleteRows
  <2>1. A!Ids' = A!Ids
    BY <1>6, DeleteTypes
  <2>2. \A id \in A!Ids : /\ works'[id].content = works[id].content
                          /\ \/ works'[id] = works[id]
                             \/ /\ works'[id].status = "deleted" /\ works[id].status # "succeeded"
                                /\ \A r \in Runs : registered[r] = None \/ id \notin registered[r]
    BY <1>6, DeleteTypes
  <2> QED BY <2>1, <2>2 DEF RowsMove
<1>7. ASSUME NEW r \in Runs, PassStep(r)
      PROVE  A!Reuse(r) \/ A!Stop(r) \/ A!LeaseExpires(r) \/ A!Claim(r) \/ A!Bind(r) \/ UNCHANGED works
  BY <1>7 DEF PassStep, A!Look, A!LookAgain, A!PlaceBytes, A!LoseLease, A!Rediscover, A!LinkResult,
              A!Register, A!StopSealed, A!Cancel, A!Complete, A!rows
<1>8. Upkeep => A!SourceChanges \/ A!Audit \/ A!DeleteRows \/ UNCHANGED works
  BY DEF Upkeep, A!MoveFile, A!EndCollection, A!Restore, A!Damage, A!Age, A!rows
<1> QED BY <1>1, <1>2, <1>3, <1>4, <1>5, <1>6, <1>7, <1>8, NextIs DEF A!vars, A!rows

-----------------------------------------------------------------------------
(* The invariant, part by part                                             *)

\* Which ids a step may add, and which Results it may register.
LEMMA AttachedStep ==
    ASSUME A!ArtifactConstants, StoreTypes, AboutContent, A!Next \/ UNCHANGED A!vars, NEW s \in Runs
    PROVE  attached'[s] \subseteq attached[s] \cup A!Ids'
<1>1. CASE UNCHANGED attached
  BY <1>1
<1>2. ASSUME NEW r \in Runs, A!Reuse(r) PROVE attached'[s] \subseteq attached[s] \cup A!Ids'
  <2>1. attached'[r] \subseteq attached[r] \cup A!Ids'
    BY <1>2, ReuseTypes
  <2>2. s # r => attached'[s] = attached[s]
    BY <1>2 DEF A!Reuse, StoreTypes, AttachedType
  <2> QED BY <2>1, <2>2
<1>3. CASE A!DeleteRows
  BY <1>3, SMTT(40) DEF A!DeleteRows
<1>4. ASSUME NEW r \in Runs, PassStep(r) PROVE A!Reuse(r) \/ UNCHANGED attached
  BY <1>4 DEF PassStep, A!Look, A!LookAgain, A!Claim, A!PlaceBytes, A!Bind, A!LoseLease,
              A!Rediscover, A!LinkResult, A!Register, A!Stop, A!StopSealed, A!LeaseExpires,
              A!Cancel, A!Complete, A!rows
<1>5. Upkeep => A!DeleteRows \/ UNCHANGED attached
  BY DEF Upkeep, A!SourceChanges, A!Audit, A!MoveFile, A!EndCollection, A!Restore, A!Damage, A!Age,
         A!rows
<1> QED BY <1>1, <1>2, <1>3, <1>4, <1>5, NextIs DEF A!vars, A!rows

\* A registration is of what the pass obtained, checked as it commits.
LEMMA RegisteredStep ==
    ASSUME A!ArtifactConstants, StoreTypes, A!Next \/ UNCHANGED A!vars, NEW s \in Runs
    PROVE  \/ registered'[s] = registered[s]
           \/ /\ A!Register(s) /\ A!Eligible(s, gained[s]) /\ registered'[s] = gained[s]
              /\ UNCHANGED <<A!rows, A!disk, gained, filed>>
<1>1. ASSUME NEW r \in Runs, PassStep(r), ~A!Register(r) PROVE UNCHANGED registered
  BY <1>1 DEF PassStep, A!Look, A!LookAgain, A!Reuse, A!Claim, A!PlaceBytes, A!Bind, A!LoseLease,
              A!Rediscover, A!LinkResult, A!Stop, A!StopSealed, A!LeaseExpires, A!Cancel,
              A!Complete, A!results
<1>2. ASSUME NEW r \in Runs, A!Register(r)
      PROVE  \/ UNCHANGED registered
             \/ A!Eligible(r, gained[r]) /\ registered' = [registered EXCEPT ![r] = gained[r]]
  BY <1>2 DEF A!Register
<1>3. ASSUME NEW r \in Runs, A!Register(r) PROVE UNCHANGED <<A!rows, A!disk, gained, filed>>
  BY <1>3 DEF A!Register
<1>4. registered \in [Runs -> (SUBSET (1..MaxWork)) \cup {None}]
  BY DEF StoreTypes, ResultsType
<1>5. ASSUME NEW r \in Runs, PassStep(r)
      PROVE  \/ registered'[s] = registered[s]
             \/ /\ A!Register(s) /\ A!Eligible(s, gained[s]) /\ registered'[s] = gained[s]
                /\ UNCHANGED <<A!rows, A!disk, gained, filed>>
  <2>1. CASE r = s BY <1>1, <1>2, <1>3, <1>4, <1>5, <2>1
  <2>2. CASE r # s BY <1>1, <1>2, <1>4, <1>5, <2>2
  <2> QED BY <2>1, <2>2
<1> QED BY <1>5, NextIs, UpkeepFrame, SMTT(30) DEF A!vars, A!results

LEMMA InTableStays ==
    ASSUME A!ArtifactConstants, StoreTypes, AboutContent, InTable, A!Next \/ UNCHANGED A!vars
    PROVE  InTable'
<1>1. A!Ids \subseteq A!Ids'
  BY RowsStep DEF RowsMove
<1>2. ASSUME NEW s \in Runs PROVE attached'[s] \subseteq A!Ids'
  BY <1>1, AttachedStep DEF InTable
<1>3. ASSUME NEW s \in Runs, registered'[s] # None PROVE registered'[s] \subseteq A!Ids'
  <2>1. A!Eligible(s, gained[s]) => gained[s] \subseteq A!Ids
    BY DEF A!Eligible, InTable
  <2> QED BY <1>1, <1>3, <2>1, RegisteredStep DEF InTable
<1> QED BY <1>2, <1>3 DEF InTable

\* Only a claim gives a pass a record.
LEMMA HeldStep ==
    ASSUME A!ArtifactConstants, StoreTypes, AboutContent, A!Next \/ UNCHANGED A!vars, NEW s \in Runs, ~A!Claim(s)
    PROVE  A!Held(s)' \subseteq A!Held(s)
<1>1. ASSUME NEW r \in Runs, A!Claim(r) PROVE A!Held(s)' \subseteq A!Held(s)
  <2>1. r # s
    BY <1>1
  <2>2. PICK id \in A!Ids : /\ works'[id].lease = r
                            /\ \A other \in A!Ids \ {id} : works'[other] = works[other]
    BY <1>1, ClaimTypes DEF A!Current, A!Ids
  <2>3. A!Ids' = A!Ids
    BY <1>1, ClaimTypes
  <2> QED BY <2>1, <2>2, <2>3 DEF A!Held
<1>2. CASE \A r \in Runs : ~A!Claim(r)
  BY <1>2, RowsStep DEF RowsMove, A!Held
<1> QED BY <1>1, <1>2

\* A pass that holds a record and comes to rest has let go of it.
LEMMA RestReleases ==
    ASSUME A!ArtifactConstants, StoreTypes, AtRest, AboutContent, OneHeld, NEW s \in Runs, PassStep(s),
           A!Held(s) # {}, stage'[s] = "idle"
    PROVE  A!Held(s)' = {}
<1>1. stage[s] \in {"claimed", "placed"} /\ keeping[s] = "active"
  BY DEF OneHeld, AtRest
<1>2. PICK id \in A!Held(s) : A!Held(s) = {id}
  BY DEF OneHeld
<1>3. CASE A!Bind(s)
  <2>1. works'[id].status = "succeeded"
    BY <1>2, <1>3, BindTypes
  <2>2. A!Held(s)' \subseteq A!Held(s)
    <3>1. ~A!Claim(s)
      BY <1>3 DEF A!Bind, A!Claim, A!Active
    <3> QED BY <1>3, <3>1, HeldStep DEF A!Next
  <2> QED BY <1>2, <2>1, <2>2 DEF A!Held
<1>4. CASE A!Stop(s)
  <2>1. \A held \in A!Held(s) : works'[held].status = "ready"
    BY <1>4, StopTypes, ReleaseFades DEF StoreTypes
  <2>2. A!Held(s)' \subseteq A!Held(s)
    <3>1. ~A!Claim(s)
      BY <1>1, <1>2, <2>1 DEF A!Claim
    <3> QED BY <1>4, <3>1, HeldStep DEF A!Next
  <2> QED BY <2>1, <2>2 DEF A!Held
<1>5. ~(A!Claim(s) \/ A!LeaseExpires(s))
  BY <1>1 DEF A!Claim, A!LeaseExpires, A!pass
<1>6. ~A!PlaceBytes(s)
  BY GoesAt DEF A!PlaceBytes
<1>7. ~(\/ A!Look(s) \/ A!LookAgain(s) \/ A!Reuse(s) \/ A!LoseLease(s) \/ A!Rediscover(s) \/ A!LinkResult(s)
        \/ A!Register(s) \/ A!StopSealed(s) \/ A!Cancel(s) \/ A!Complete(s))
  BY <1>1 DEF A!Look, A!LookAgain, A!Reuse, A!LoseLease, A!Rediscover, A!LinkResult, A!Register,
              A!StopSealed, A!Cancel, A!Complete, A!Ready, A!Active
<1> QED BY <1>3, <1>4, <1>5, <1>6, <1>7 DEF PassStep

LEMMA OneHeldStays ==
    ASSUME A!ArtifactConstants, StoreTypes, AtRest, AboutContent, OneHeld, A!Next \/ UNCHANGED A!vars
    PROVE  OneHeld'
<1> SUFFICES ASSUME NEW s \in Runs, NEW id \in A!Held(s)'
             PROVE  /\ stage'[s] \in {"claimed", "placed"} /\ works'[id].content = about'[s]
                    /\ A!Held(s)' = {id}
  BY DEF OneHeld
<1>1. CASE A!Claim(s)
  <2>1. PICK new \in A!Ids : /\ works'[new].content = about[s]
                             /\ \A other \in A!Ids \ {new} : works'[other] = works[other]
    BY <1>1, ClaimTypes DEF A!Current, A!Ids
  <2>2. A!Ids' = A!Ids /\ A!Held(s) = {}
    BY <1>1, ClaimTypes DEF A!Claim
  <2>3. A!Held(s)' \subseteq {new}
    BY <2>1, <2>2 DEF A!Held
  <2>4. stage'[s] = "claimed" /\ about'[s] = about[s]
    BY <1>1 DEF A!Claim, A!Active, A!pass
  <2> QED BY <2>1, <2>3, <2>4
<1>2. CASE ~A!Claim(s)
  <2>1. A!Held(s)' \subseteq A!Held(s)
    BY <1>2, HeldStep
  <2>2. stage[s] \in {"claimed", "placed"} /\ works[id].content = about[s] /\ A!Held(s) = {id}
    BY <2>1 DEF OneHeld
  <2>3. A!Held(s)' = {id}
    BY <2>1, <2>2
  <2>4. works'[id].content = works[id].content
    BY <2>1, RowsStep DEF RowsMove, A!Held
  <2>5. stage'[s] # "idle"
    <3>1. SUFFICES ASSUME stage'[s] = "idle" PROVE FALSE
      OBVIOUS
    <3>2. ~PassStep(s)
      BY <2>2, <2>3, <3>1, RestReleases
    <3>3. \A r \in Runs \ {s} : PassStep(r) => stage'[s] = stage[s]
      BY PassMoves DEF OthersStay
    <3> QED BY <2>2, <3>1, <3>2, <3>3, NextIs, UpkeepFrame DEF A!vars, A!pass
  <2>6. stage'[s] \in {"claimed", "placed"} /\ about'[s] = about[s]
    BY <2>2, <2>5, StepMoves DEF PlacesMove, A!Look, A!LinkResult, A!Ready, A!Active
  <2> QED BY <2>2, <2>3, <2>4, <2>6
<1> QED BY <1>1, <1>2

-----------------------------------------------------------------------------
(* Bytes                                                                   *)

\* What is safe once stays so: a file that is moved away goes to quarantine, and
\* only comes back as a good file.
LEMMA SafeStays ==
    ASSUME A!ArtifactConstants, StoreTypes, A!Next \/ UNCHANGED A!vars, NEW c \in Bytes, Safe(c)
    PROVE  Safe(c)'
<1>1. CASE UNCHANGED <<A!disk, damaged>>
  BY <1>1 DEF Safe, A!disk
<1>2. ASSUME NEW r \in Runs, A!PlaceBytes(r) PROVE Safe(c)'
  BY <1>2 DEF A!PlaceBytes, Safe, StoreTypes, DiskType
<1>3. CASE A!MoveFile
  <2>1. UNCHANGED damaged
    BY <1>3 DEF A!MoveFile
  <2>2. CASE \E x \in Bytes : A!Quarantine(x)
    BY <2>1, <2>2 DEF A!Quarantine, Safe, StoreTypes, DiskType
  <2>3. CASE vault \subseteq vault' /\ UNCHANGED files
    BY <2>1, <2>3 DEF Safe
  <2>4. (\E x \in Bytes : A!Quarantine(x)) \/ (vault \subseteq vault' /\ UNCHANGED files)
    <3>1. plan.artifacts \cup plan.strays \subseteq Bytes
      BY DEF StoreTypes, UpkeepType, A!Plans
    <3> QED BY <1>3, <3>1 DEF A!MoveFile
  <2> QED BY <2>2, <2>3, <2>4
<1>4. CASE A!Restore
  <2>1. UNCHANGED damaged
    BY <1>4 DEF A!Restore
  <2>2. CASE \E x \in vault \cap Bytes : files' = [files EXCEPT ![x] = "good"] /\ vault' = vault \ {x}
    BY <2>1, <2>2 DEF Safe, StoreTypes, DiskType
  <2>3. CASE \E r \in vault \cap Runs : vault' = vault \ {r} /\ UNCHANGED files
    BY <2>1, <2>3 DEF Safe, A!ArtifactConstants
  <2> QED BY <1>4, <2>2, <2>3 DEF A!Restore
<1>5. CASE A!Damage
  <2>1. PICK x \in Bytes, look \in {"bad", "absent"} :
           /\ files' = [files EXCEPT ![x] = look] /\ damaged' = damaged \cup {x} /\ UNCHANGED vault
    BY <1>5 DEF A!Damage
  <2> QED BY <2>1 DEF Safe, StoreTypes, DiskType
<1>6. CASE A!Age
  BY <1>6 DEF A!Age, Safe
<1>7. ASSUME NEW r \in Runs, PassStep(r) PROVE A!PlaceBytes(r) \/ UNCHANGED <<A!disk, damaged>>
  BY <1>7 DEF PassStep, A!Look, A!LookAgain, A!Reuse, A!Claim, A!Bind, A!LoseLease, A!Rediscover,
              A!LinkResult, A!Register, A!Stop, A!StopSealed, A!LeaseExpires, A!Cancel, A!Complete
<1>8. Upkeep => A!MoveFile \/ A!Restore \/ A!Damage \/ A!Age \/ UNCHANGED <<A!disk, damaged>>
  BY DEF Upkeep, A!SourceChanges, A!Audit, A!DeleteRows, A!EndCollection
<1> QED BY <1>1, <1>2, <1>3, <1>4, <1>5, <1>6, <1>7, <1>8, NextIs DEF A!vars

\* A content that somebody comes to count on was counted on, or has been put in
\* place just now.
LEMMA CountedStep ==
    ASSUME A!ArtifactConstants, StoreTypes, InTable, AtRest, AboutContent, OneHeld, A!Next \/ UNCHANGED A!vars,
           NEW c \in Bytes, Counted(c)'
    PROVE  Counted(c) \/ Safe(c)'
<1>0. RowsMove
  BY RowsStep
<1>1. CASE A!Owners(c, {"succeeded"})' # {}
  <2>1. PICK id \in A!Ids' : works'[id].content = c /\ works'[id].status = "succeeded"
    BY <1>1 DEF A!Owners
  <2>2. id \in A!Ids /\ works[id].content = c
    BY <1>0, <2>1 DEF RowsMove
  <2>3. CASE works[id].status = "succeeded"
    BY <2>2, <2>3 DEF A!Owners, Counted
  <2>4. CASE \E r \in Runs : A!Bind(r) /\ id \in A!Held(r)
    BY <2>2, <2>4 DEF OneHeld, A!Bind, A!Active, Counted
  <2> QED BY <1>0, <2>1, <2>3, <2>4 DEF RowsMove
<1>2. CASE A!Pinned(c)'
  <2>1. PICK r \in Runs : registered'[r] # None /\ \E id \in registered'[r] : works'[id].content = c
    BY <1>2 DEF A!Pinned
  <2>2. CASE registered'[r] = registered[r]
    <3>1. \A id \in registered[r] : works'[id].content = works[id].content
      BY <1>0, <2>1, <2>2 DEF RowsMove, InTable
    <3> QED BY <2>1, <2>2, <3>1 DEF A!Pinned, Counted
  <2>3. CASE /\ A!Register(r) /\ A!Eligible(r, gained[r]) /\ registered'[r] = gained[r]
             /\ UNCHANGED <<A!rows, A!disk, gained, filed>>
    <3>1. PICK id \in gained[r] : works[id].content = c
      BY <2>1, <2>3 DEF A!rows
    <3>2. id \in A!Ids /\ works[id].status = "succeeded"
      BY <2>3, <3>1 DEF A!Eligible, InTable
    <3> QED BY <3>1, <3>2 DEF A!Owners, Counted
  <2> QED BY <2>2, <2>3, RegisteredStep
<1>3. CASE \E r \in Runs : stage'[r] = "placed" /\ about'[r] = c
  <2>1. PICK r \in Runs : stage'[r] = "placed" /\ about'[r] = c
    BY <1>3
  <2>2. CASE stage[r] = "placed" /\ about[r] = c
    BY <2>2 DEF Counted
  <2>3. CASE about[r] = c /\ A!PlaceBytes(r)
    BY <2>3 DEF A!PlaceBytes, Safe, StoreTypes, DiskType
  <2> QED BY <2>1, <2>2, <2>3, StepMoves DEF PlacesMove
<1> QED BY <1>1, <1>2, <1>3 DEF Counted

LEMMA CountedStay ==
    ASSUME A!ArtifactConstants, StoreTypes, InTable, AtRest, AboutContent, OneHeld, CountedAreSafe,
           A!Next \/ UNCHANGED A!vars
    PROVE  CountedAreSafe'
<1> SUFFICES ASSUME NEW c \in Bytes, Counted(c)' PROVE Safe(c)'
  BY DEF CountedAreSafe
<1>1. Counted(c) => Safe(c)'
  BY SafeStays DEF CountedAreSafe
<1> QED BY <1>1, CountedStep

-----------------------------------------------------------------------------
(* Results                                                                 *)

\* What may become of a Result's file: it stays, or it goes to quarantine, or its
\* Run links it, or it is restored as registered.
LEMMA SealedStep ==
    ASSUME A!ArtifactConstants, StoreTypes, A!Next \/ UNCHANGED A!vars, NEW s \in Runs
    PROVE  \/ filed'[s] = filed[s] /\ (s \in vault => s \in vault')
           \/ filed'[s] = None /\ s \in vault'
           \/ A!LinkResult(s) /\ filed'[s] = gained[s]
           \/ registered[s] # None /\ filed'[s] = registered[s]
<1>1. CASE UNCHANGED <<filed, vault>>
  BY <1>1
<1>2. ASSUME NEW r \in Runs, A!LinkResult(r)
      PROVE  \/ filed'[s] = filed[s] /\ (s \in vault => s \in vault')
             \/ A!LinkResult(s) /\ filed'[s] = gained[s]
  <2>1. UNCHANGED vault /\ (UNCHANGED filed \/ filed' = [filed EXCEPT ![r] = gained[r]])
    BY <1>2 DEF A!LinkResult, A!disk
  <2> QED BY <1>2, <2>1 DEF StoreTypes, ResultsType
<1>3. CASE A!MoveFile
  <2>1. CASE (\E c \in Bytes : A!Quarantine(c)) /\ UNCHANGED filed
    BY <2>1 DEF A!Quarantine
  <2>2. CASE \E r \in Runs : vault' = vault \cup {r} /\ filed' = [filed EXCEPT ![r] = None]
    BY <2>2 DEF StoreTypes, ResultsType
  <2>3. plan.artifacts \cup plan.strays \subseteq Bytes /\ plan.results \subseteq Runs
    BY DEF StoreTypes, UpkeepType, A!Plans
  <2>4. \/ (\E c \in Bytes : A!Quarantine(c)) /\ UNCHANGED filed
        \/ \E r \in Runs : vault' = vault \cup {r} /\ filed' = [filed EXCEPT ![r] = None]
    BY <1>3, <2>3 DEF A!MoveFile
  <2> QED BY <2>1, <2>2, <2>4
<1>4. CASE A!Restore
  <2>1. CASE \E c \in Bytes : vault' = vault \ {c} /\ UNCHANGED filed
    BY <2>1 DEF A!ArtifactConstants
  <2>2. CASE \E r \in Runs : /\ registered[r] # None /\ vault' = vault \ {r}
                             /\ filed' = [filed EXCEPT ![r] = registered[r]]
    BY <2>2 DEF StoreTypes, ResultsType
  <2>3. \/ \E c \in Bytes : vault' = vault \ {c} /\ UNCHANGED filed
        \/ \E r \in Runs : /\ registered[r] # None /\ vault' = vault \ {r}
                           /\ filed' = [filed EXCEPT ![r] = registered[r]]
    BY <1>4, SMTT(30) DEF A!Restore
  <2> QED BY <2>1, <2>2, <2>3
<1>5. ASSUME NEW r \in Runs, PassStep(r) PROVE A!LinkResult(r) \/ UNCHANGED <<filed, vault>>
  BY <1>5 DEF PassStep, A!Look, A!LookAgain, A!Reuse, A!Claim, A!PlaceBytes, A!Bind, A!LoseLease,
              A!Rediscover, A!Register, A!Stop, A!StopSealed, A!LeaseExpires, A!Cancel, A!Complete,
              A!results, A!disk
<1>6. Upkeep => A!MoveFile \/ A!Restore \/ UNCHANGED <<filed, vault>>
  BY DEF Upkeep, A!SourceChanges, A!Audit, A!DeleteRows, A!EndCollection, A!Damage, A!Age,
         A!results, A!disk
<1> QED BY <1>1, <1>2, <1>3, <1>4, <1>5, <1>6, NextIs DEF A!vars, A!results, A!disk

\* The rows of pinned Artifacts stay.
LEMMA ArtifactStep ==
    ASSUME A!ArtifactConstants, StoreTypes, A!Next \/ UNCHANGED A!vars,
           NEW c \in Bytes, artifacts[c] # None, A!Pinned(c)
    PROVE  artifacts'[c] # None
<1>0. /\ None \notin {"available", "missing", "corrupt"}
      /\ artifacts \in [Bytes -> {None, "available", "missing", "corrupt"}]
      /\ files \in [Bytes -> A!Looks]
  BY DEF A!ArtifactConstants, StoreTypes, ArtifactsType, DiskType
<1>1. CASE UNCHANGED artifacts
  BY <1>1
<1>2. ASSUME NEW r \in Runs, A!Reuse(r) PROVE artifacts'[c] # None
  <2>1. artifacts' = IF seen[r] = None THEN artifacts
                     ELSE [artifacts EXCEPT ![about[r]] = A!Integrity(seen[r])]
    BY <1>2, Zenon DEF A!Reuse
  <2>2. seen[r] # None => A!Integrity(seen[r]) \in {"available", "missing", "corrupt"}
    BY IntegrityType DEF StoreTypes, StepType
  <2> QED BY <1>0, <2>1, <2>2
<1>3. ASSUME NEW r \in Runs, A!Bind(r) PROVE artifacts'[c] # None
  <2>1. artifacts' = [artifacts EXCEPT ![about[r]] = "available"]
    BY <1>3 DEF A!Bind
  <2> QED BY <1>0, <2>1
<1>4. CASE A!Audit
  <2>1. artifacts' = [x \in Bytes |-> IF artifacts[x] = None THEN None ELSE A!Integrity(files[x])]
    BY <1>4 DEF A!Audit
  <2>2. A!Integrity(files[c]) \in {"available", "missing", "corrupt"}
    BY <1>0, IntegrityType
  <2> QED BY <1>0, <2>1, <2>2
<1>5. CASE A!DeleteRows
  BY <1>5, DeleteTypes
<1>6. ASSUME NEW r \in Runs, PassStep(r) PROVE A!Reuse(r) \/ A!Bind(r) \/ UNCHANGED artifacts
  BY <1>6 DEF PassStep, A!Look, A!LookAgain, A!Claim, A!PlaceBytes, A!LoseLease, A!Rediscover,
              A!LinkResult, A!Register, A!Stop, A!StopSealed, A!LeaseExpires, A!Cancel, A!Complete,
              A!rows
<1>7. Upkeep => A!Audit \/ A!DeleteRows \/ UNCHANGED artifacts
  BY DEF Upkeep, A!SourceChanges, A!MoveFile, A!EndCollection, A!Restore, A!Damage, A!Age, A!rows
<1> QED BY <1>1, <1>2, <1>3, <1>4, <1>5, <1>6, <1>7, NextIs DEF A!vars, A!rows

LEMMA LinkedStays ==
    ASSUME A!ArtifactConstants, StoreTypes, AtRest, Linked, A!Next \/ UNCHANGED A!vars
    PROVE  Linked'
<1> SUFFICES ASSUME NEW s \in Runs, stage'[s] = "linked"
             PROVE  /\ registered'[s] = None /\ filed'[s] \in {gained'[s], None}
                    /\ filed'[s] # None \/ s \in vault'
  BY DEF Linked
<1>1. \A ids \in SUBSET (1..MaxWork) : ids # None
  BY DEF A!ArtifactConstants
<1>2. registered'[s] = registered[s]
  <2>1. A!Register(s) => stage'[s] = "idle"
    BY EndsAt DEF A!Register
  <2> QED BY <2>1, RegisteredStep
<1>3. CASE stage[s] = "linked" /\ gained'[s] = gained[s]
  <2>1. registered[s] = None /\ filed[s] \in {gained[s], None} /\ (filed[s] # None \/ s \in vault)
    BY <1>3 DEF Linked
  <2>2. ~A!LinkResult(s)
    BY <1>3 DEF A!LinkResult, A!Ready, A!Active
  <2> QED BY <1>2, <1>3, <2>1, <2>2, SealedStep
<1>4. CASE A!LinkResult(s) /\ gained'[s] = gained[s]
  <2>1. registered[s] = None
    BY <1>4 DEF A!LinkResult
  <2>2. filed'[s] = gained[s]
    <3>1. ~A!Ends(s, "ended")
      BY EndsAt
    <3>2. \/ filed' = [filed EXCEPT ![s] = gained[s]]
          \/ filed[s] = gained[s] /\ UNCHANGED filed
      BY <1>4, <3>1 DEF A!LinkResult
    <3> QED BY <3>2 DEF StoreTypes, ResultsType
  <2>3. gained[s] # None
    BY <1>1 DEF StoreTypes, GainedType
  <2> QED BY <1>2, <1>4, <2>1, <2>2, <2>3
<1> QED BY <1>3, <1>4, StepMoves DEF PlacesMove

LEMMA InPlaceStays ==
    ASSUME A!ArtifactConstants, StoreTypes, Linked, ResultsInPlace, A!Next \/ UNCHANGED A!vars
    PROVE  ResultsInPlace'
<1> SUFFICES ASSUME NEW s \in Runs, registered'[s] # None PROVE filed'[s] # None \/ s \in vault'
  BY DEF ResultsInPlace
<1>1. CASE registered'[s] = registered[s]
  <2>1. filed[s] # None \/ s \in vault
    BY <1>1 DEF ResultsInPlace
  <2>2. ~A!LinkResult(s)
    BY <1>1 DEF A!LinkResult
  <2> QED BY <2>1, <2>2, SealedStep
<1>2. CASE A!Register(s) /\ UNCHANGED <<A!rows, A!disk, gained, filed>>
  BY <1>2 DEF A!Register, A!Active, Linked, A!disk
<1> QED BY <1>1, <1>2, RegisteredStep

LEMMA OwnStays ==
    ASSUME A!ArtifactConstants, StoreTypes, InTable, AboutContent, Linked, A!ResultsKeepTheirOwn,
           A!Next \/ UNCHANGED A!vars
    PROVE  A!ResultsKeepTheirOwn'
<1> SUFFICES ASSUME NEW s \in Runs, registered'[s] # None
             PROVE  /\ filed'[s] \in {registered'[s], None}
                    /\ \A id \in registered'[s] : /\ works'[id].status \in {"succeeded", "invalidated"}
                                                  /\ artifacts'[works'[id].content] # None
  BY DEF A!ResultsKeepTheirOwn
<1>1. CASE registered'[s] = registered[s]
  <2>1. filed[s] \in {registered[s], None}
    BY <1>1 DEF A!ResultsKeepTheirOwn
  <2>2. filed'[s] \in {registered'[s], None}
    <3>1. ~A!LinkResult(s)
      BY <1>1 DEF A!LinkResult
    <3> QED BY <1>1, <2>1, <3>1, SealedStep
  <2>3. ASSUME NEW id \in registered[s]
        PROVE  /\ works'[id].status \in {"succeeded", "invalidated"}
               /\ artifacts'[works'[id].content] # None
    <3>1. id \in A!Ids /\ works[id].status \in {"succeeded", "invalidated"} /\ artifacts[works[id].content] # None
      BY <1>1 DEF A!ResultsKeepTheirOwn, InTable
    <3>2. works'[id].status \in {"succeeded", "invalidated"} /\ works'[id].content = works[id].content
      BY <1>1, <3>1, RowsStep DEF RowsMove
    <3>3. works[id].content \in Bytes
      BY <3>1, TableIs DEF StoreTypes, A!Rows
    <3>4. A!Pinned(works[id].content)
      BY <1>1 DEF A!Pinned
    <3> QED BY <3>1, <3>2, <3>3, <3>4, ArtifactStep
  <2> QED BY <1>1, <2>2, <2>3
<1>2. CASE /\ A!Register(s) /\ A!Eligible(s, gained[s]) /\ registered'[s] = gained[s]
           /\ UNCHANGED <<A!rows, A!disk, gained, filed>>
  <2>1. filed'[s] \in {gained[s], None}
    BY <1>2 DEF A!Register, A!Active, Linked
  <2>2. \A id \in gained[s] : works'[id].status = "succeeded" /\ artifacts'[works'[id].content] = "available"
    BY <1>2 DEF A!Eligible, A!rows
  <2>3. None # "available"
    BY DEF A!ArtifactConstants
  <2> QED BY <1>2, <2>1, <2>2, <2>3
<1> QED BY <1>1, <1>2, RegisteredStep

-----------------------------------------------------------------------------
(* Theorems                                                                *)

LEMMA NextInv == ASSUME A!ArtifactConstants, StoreInv, [A!Next]_(A!vars) PROVE StoreInv'
<1>1. A!Next \/ UNCHANGED A!vars
  OBVIOUS
<1> QED BY <1>1, StoreTypeStep, InTableStays, AtRestStays, OneHeldStays, LinkedStays, CountedStay, InPlaceStays,
           OwnStays DEF StoreInv

LEMMA StoreAlwaysInv == ASSUME A!ArtifactConstants PROVE A!Spec => []StoreInv
BY InitInv, NextInv, PTL DEF A!Spec

\* The variables have their types, for any number of Runs, contents, records,
\* deaths and damages (_artifact_sqlite.py, _result_sqlite.py, maintenance.py).
THEOREM StoreWellTyped == A!ArtifactConstants => (A!Spec => []A!TypeOK)
<1> SUFFICES ASSUME A!ArtifactConstants PROVE A!Spec => []A!TypeOK
  OBVIOUS
<1>1. StoreInv => A!TypeOK
  BY TypesAreTypeOK DEF StoreInv
<1> QED BY <1>1, StoreAlwaysInv, PTL

\* Undamaged bytes that a success or a Result counts on are in place or in
\* quarantine, and so is every registered Result, though a collection moves
\* files it chose before others found and bound them (maintenance.py:_quarantine,
\* _artifact_sqlite.py:publish).
THEOREM BytesAlwaysSurvive == A!ArtifactConstants => (A!Spec => []A!BytesSurvive)
<1> SUFFICES ASSUME A!ArtifactConstants PROVE A!Spec => []A!BytesSurvive
  OBVIOUS
<1>1. StoreInv => A!BytesSurvive
  BY DEF StoreInv, CountedAreSafe, Counted, Safe, ResultsInPlace, A!BytesSurvive
<1> QED BY <1>1, StoreAlwaysInv, PTL

\* No collection deletes a row a registered Result names, and a repeated pass
\* never publishes something else under its name (_result_sqlite.py).
THEOREM ResultsAlwaysKeepTheirOwn == A!ArtifactConstants => (A!Spec => []A!ResultsKeepTheirOwn)
<1> SUFFICES ASSUME A!ArtifactConstants PROVE A!Spec => []A!ResultsKeepTheirOwn
  OBVIOUS
<1>1. StoreInv => A!ResultsKeepTheirOwn
  BY DEF StoreInv
<1> QED BY <1>1, StoreAlwaysInv, PTL

\* A step that takes a record for done sees its good bytes.
LEMMA ReuseStep ==
    ASSUME A!ArtifactConstants, StoreInv, A!Next \/ UNCHANGED A!vars,
           NEW r \in Runs, NEW id \in gained'[r] \ gained[r],
           stage[r] = "looked"
    PROVE  files[works[id].content] = "good"
<1> DEFINE c == about[r]
           judged == IF seen[r] = None THEN works ELSE A!Noted(works, c, seen[r])
<1>1. StoreTypes /\ AtRest
  BY DEF StoreInv
<1>2. A!Reuse(r)
  <2>1. \A s \in Runs \ {r} : PassStep(s) => gained'[r] = gained[r]
    BY <1>1, PassMoves DEF OthersStay
  <2>2. PassStep(r)
    BY <2>1, NextIs, UpkeepFrame DEF A!vars, A!pass
  <2>3. ~A!Bind(r) /\ gained'[r] # {}
    BY DEF A!Bind, A!Active
  <2>4. ~(A!Stop(r) \/ A!StopSealed(r))
    BY <1>1, <2>3 DEF A!Stop, A!StopSealed, StoreTypes, GainedType
  <2> QED BY <2>2, <2>3, <2>4 DEF PassStep, A!Look, A!LookAgain, A!Claim, A!PlaceBytes,
                                  A!LoseLease, A!Rediscover, A!LinkResult, A!Register,
                                  A!LeaseExpires, A!Cancel, A!Complete, A!pass
<1>3. id \in A!Current(judged, c) /\ judged[id].status = "succeeded"
  <2>1. CASE UNCHANGED gained
    BY <2>1
  <2>2. CASE \E x \in A!Current(judged, c) : works' = judged /\ works'[x].status = "succeeded" /\ A!Gains(r, x)
    BY <1>1, <2>2, GainsAt
  <2>3. \/ UNCHANGED gained
        \/ \E x \in A!Current(judged, c) : works' = judged /\ works'[x].status = "succeeded" /\ A!Gains(r, x)
    BY <1>2 DEF A!Reuse
  <2> QED BY <2>1, <2>2, <2>3
<1>4. A!Stands(r)
  BY <1>2 DEF A!Reuse
<1>5. CASE seen[r] = None
  <2>1. id \in A!Owners(c, {"succeeded"})
    BY <1>3, <1>5 DEF A!Current, A!Owners, A!Ids
  <2> QED BY <1>4, <1>5, <2>1 DEF A!Stands
<1>6. CASE seen[r] # None
  <2>1. DOMAIN judged = A!Ids
    BY <1>1, <1>6, NotedIs DEF StoreTypes
  <2>2. judged[id] = IF seen[r] # "good" /\ works[id].content = c /\ works[id].status = "succeeded"
                     THEN [works[id] EXCEPT !.status = "invalidated"] ELSE works[id]
    BY <1>1, <1>3, <1>6, <2>1, NotedIs DEF StoreTypes, A!Current
  <2>3. works[id] \in A!Rows /\ judged[id].content = c
    BY <1>1, <1>3, <2>1, TableIs DEF StoreTypes, A!Current
  <2>4. seen[r] = "good" /\ works[id].content = c
    BY <1>3, <2>2, <2>3 DEF A!Rows
  <2> QED BY <1>4, <1>6, <2>4 DEF A!Stands
<1> QED BY <1>5, <1>6

\* A pass only takes a record for done in a transaction at which the file it
\* looked at before is good (_artifact_sqlite.py:ensure_artifact_work_many).
THEOREM ReuseSeesTheBytes == A!ArtifactConstants => (A!Spec => A!ReuseSawTheBytes)
<1> SUFFICES ASSUME A!ArtifactConstants PROVE A!Spec => A!ReuseSawTheBytes
  OBVIOUS
<1>1. StoreInv /\ [A!Next]_(A!vars) => [A!ReuseSawTheBytesStep]_(A!vars)
  BY ReuseStep DEF A!ReuseSawTheBytesStep
<1> QED BY <1>1, StoreAlwaysInv, PTL DEF A!Spec, A!ReuseSawTheBytes
=============================================================================
