----------------------------- MODULE PrecheckRun -----------------------------
(***************************************************************************)
(* The public lifecycle of the PreCheck Runs of one Dataset: the durable   *)
(* Run rows, the Human controls that commit to them, the execution lease   *)
(* that decides which Host may advance a Run, and the worker threads that  *)
(* take a Run through source accounting, the scope review, the media work, *)
(* the confirmed external effect and the sealing of its Result.            *)
(*                                                                         *)
(* Every store transaction is a step; a transaction that only reads is     *)
(* merged with the step it decides.  Several Hosts may have the Dataset    *)
(* open; nothing but the store and the Geo ownership lock joins them.      *)
(***************************************************************************)
EXTENDS Integers, FiniteSets

CONSTANTS
  Runs,          \* public Runs of the Dataset
  Hosts,         \* processes that have the Dataset open
  Inventories,   \* what a complete scan of the source tree may find
  GeoNeeded,     \* the inventories whose media need an external lookup
  MaxTries,      \* bound on external executions of a Run (the first and its recoveries)
  MaxDrift,      \* bound on changes of the source tree
  MaxCrashes,    \* bound on Host crashes
  Faults,        \* subset of FaultKinds: what may go wrong in a behaviour
  NoInventory, NoHost, DeadHost, NoRun

FaultKinds == {"error", "blocked", "source"}

ASSUME GeoAssumption == GeoNeeded \subseteq Inventories
ASSUME BoundsAssumption == MaxTries \in Nat /\ MaxDrift \in Nat /\ MaxCrashes \in Nat
ASSUME FaultsAssumption == Faults \subseteq FaultKinds
ASSUME NamesAssumption ==
  NoInventory \notin Inventories /\ NoHost \notin Hosts /\ DeadHost \notin Hosts
  /\ NoHost # DeadHost /\ NoRun \notin Runs

VARIABLES
  \* the Run row: state, pending confirmation, latest scope review, worker lease
  state, conf, review, lease,
  \* the accounting Run bound to it, its external executions, its Result
  acc, tries, located, sealed, published,
  \* the source tree
  disk, drifts,
  \* per Host: the call between its commit and its return, and the worker threads
  call, pc, beating, wanted, crashes,
  \* what the Human authorized and what was sent out
  granted, effects

rowVars   == <<state, conf, review, lease>>
workVars  == <<acc, tries, located, sealed, published>>
treeVars  == <<disk, drifts>>
hostVars  == <<call, pc, beating, wanted, crashes>>
ghostVars == <<granted, effects>>
vars == <<rowVars, workVars, treeVars, hostVars, ghostVars>>

Unfinished == {"running", "paused", "blocked"}
Terminal == {"completed", "cancelled", "failed"}
RunStates == {"absent"} \cup Unfinished \cup Terminal

\* What an external-effect confirmation discloses: the frozen lookups of an
\* inventory, and which execution of them it is.
Contents == [of : Inventories \cup {NoInventory}, try : 0..MaxTries]
NoContent == [of |-> NoInventory, try |-> 0]
Confirmations == [kind : {"none", "source_scope", "external_effect"},
                  content : Contents, decision : {"none", "proceed", "decline"}]
NoConf == [kind |-> "none", content |-> NoContent, decision |-> "none"]
Asking(kind, c) == [kind |-> kind, content |-> c, decision |-> "none"]

ReviewStates == {"none", "pending", "accepted", "reused"}
Accepted(v) == v.state \in {"accepted", "reused"}

CallSteps == {"idle", "resuming", "scheduling"}
NoCall == [run |-> NoRun, step |-> "idle"]

GeoSteps == {"asking", "granted", "effect", "inflight"}
MediaSteps == {"media", "geo", "sealing"} \cup GeoSteps
Body == MediaSteps \cup {"scanning", "scanned", "review", "completing"}
Exits == {"blocking", "failing", "interrupting", "leaving", "releasing"}
Outside == {"none", "claimed", "ending", "popping"}
PCs == Body \cup Exits \cup Outside

-----------------------------------------------------------------------------
(* What the rows and the threads say.                                      *)

Alive(h, r) == pc[h][r] # "none"

\* A heartbeat cannot be late by the stale interval while its thread runs.
Beating(h, r) == beating[h][r] \/ pc[h][r] = "claimed"

\* The lookups of the frozen batch that are still to be executed.
Demand(r) == acc[r].inv \in GeoNeeded \ located[r]
Content(r) == [of |-> acc[r].inv, try |-> tries[r]]

Goto(h, r, step) == pc' = [pc EXCEPT ![h][r] = step]

\* _update_state replaces the state, the reason and the whole confirmation.
UpdateState(r, s, c) == state' = [state EXCEPT ![r] = s] /\ conf' = [conf EXCEPT ![r] = c]

PauseAccounting(r, from) ==
  acc' = IF acc[r].status \in from THEN [acc EXCEPT ![r].status = "paused"] ELSE acc

Init ==
  /\ state = [r \in Runs |-> "absent"]
  /\ conf = [r \in Runs |-> NoConf]
  /\ review = [r \in Runs |-> [inv |-> NoInventory, state |-> "none"]]
  /\ lease = [r \in Runs |-> [owner |-> NoHost, fresh |-> FALSE]]
  /\ acc = [r \in Runs |-> [status |-> "running", inv |-> NoInventory]]
  /\ tries = [r \in Runs |-> 0]
  /\ located = [r \in Runs |-> {}]
  /\ sealed = [r \in Runs |-> NoInventory]
  /\ published = [r \in Runs |-> NoInventory]
  /\ disk \in Inventories /\ drifts = 0
  /\ call = [h \in Hosts |-> NoCall]
  /\ pc = [h \in Hosts |-> [r \in Runs |-> "none"]]
  /\ beating = [h \in Hosts |-> [r \in Runs |-> FALSE]]
  /\ wanted = [h \in Hosts |-> [r \in Runs |-> NoContent]]
  /\ crashes = 0
  /\ granted = {} /\ effects = {}

-----------------------------------------------------------------------------
(* Calls.  A Host has at most one start or resume in progress.             *)

CallStep(h, r, step) == call' = [call EXCEPT ![h] = [run |-> r, step |-> step]]
Return(h) == call' = [call EXCEPT ![h] = NoCall]

\* The Run row and its accounting Run are created, unless another is unfinished.
Start(h, r) ==
  /\ call[h].step = "idle"
  /\ state[r] = "absent"
  /\ \A other \in Runs : state[other] \notin Unfinished
  /\ state' = [state EXCEPT ![r] = "running"]
  /\ CallStep(h, r, "scheduling")
  /\ UNCHANGED <<conf, review, lease, workVars, treeVars, pc, beating, wanted, crashes,
                 ghostVars>>

Pause(r) ==
  /\ state[r] = "running"
  /\ UpdateState(r, "paused", NoConf)
  /\ UNCHANGED <<review, lease, workVars, treeVars, hostVars, ghostVars>>

Cancel(r) ==
  /\ state[r] \in Unfinished
  /\ UpdateState(r, "cancelled", NoConf)
  /\ UNCHANGED <<review, lease, workVars, treeVars, hostVars, ghostVars>>

\* A stopped Run whose thread of this Host still lives is refused; whether it
\* lives, and the state, are read before the transaction of the resume.  (A Run
\* that has ended is refused at once.)
CheckResume(h, r) ==
  /\ call[h].step = "idle"
  /\ state[r] \in Unfinished
  /\ ~(Alive(h, r) /\ state[r] \in {"paused", "blocked"})
  /\ CallStep(h, r, "resuming")
  /\ UNCHANGED <<rowVars, workVars, treeVars, pc, beating, wanted, crashes, ghostVars>>

Resuming(h, r) == call[h] = [run |-> r, step |-> "resuming"]

\* Nothing to decide: a running Run stays running, a stopped one runs again.
ResumePlain(h, r) ==
  /\ Resuming(h, r)
  /\ \/ /\ state[r] = "running"
        /\ UNCHANGED <<state, conf>>
     \/ /\ state[r] \in {"paused", "blocked"} /\ conf[r].kind = "none"
        /\ UpdateState(r, "running", NoConf)
  /\ CallStep(h, r, "scheduling")
  /\ UNCHANGED <<review, lease, workVars, treeVars, pc, beating, wanted, crashes, ghostVars>>

\* The Human selects a scope for the inventory i.
AcceptScope(h, r, i) ==
  /\ Resuming(h, r)
  /\ state[r] \in {"paused", "blocked"}
  /\ conf[r].kind = "source_scope" /\ conf[r].content.of = i
  /\ review[r] = [inv |-> i, state |-> "pending"]
  /\ review' = [review EXCEPT ![r].state = "accepted"]
  /\ UpdateState(r, "running", NoConf)
  /\ CallStep(h, r, "scheduling")
  /\ UNCHANGED <<lease, workVars, treeVars, pc, beating, wanted, crashes, ghostVars>>

NamesPending(r, c) == conf[r].kind = "external_effect" /\ conf[r].content = c

\* The Human confirms the disclosure c.
Proceed(h, r, c) ==
  /\ Resuming(h, r)
  /\ state[r] \in {"paused", "blocked"}
  /\ NamesPending(r, c)
  /\ UpdateState(r, "running", [conf[r] EXCEPT !.decision = "proceed"])
  /\ granted' = granted \cup {<<r, c>>}
  /\ CallStep(h, r, "scheduling")
  /\ UNCHANGED <<review, lease, workVars, treeVars, pc, beating, wanted, crashes, effects>>

Decline(h, r) ==
  /\ Resuming(h, r)
  /\ state[r] \in {"paused", "blocked"} /\ conf[r].kind = "external_effect"
  /\ UpdateState(r, "cancelled", [conf[r] EXCEPT !.decision = "decline"])
  /\ Return(h)
  /\ UNCHANGED <<review, lease, workVars, treeVars, pc, beating, wanted, crashes, ghostVars>>

\* The state moved on, or the decision is not for what is pending.
RefuseResume(h, r) ==
  /\ Resuming(h, r)
  /\ state[r] \in Terminal \/ conf[r].kind # "none"
  /\ Return(h)
  /\ UNCHANGED <<rowVars, workVars, treeVars, pc, beating, wanted, crashes, ghostVars>>

\* The source is elsewhere (blocked) or the preparation failed (failed): the Run
\* is stopped, unless it is not running any more or already has a worker.
PrepareFails(h, target) ==
  LET r == call[h].run IN
  /\ "error" \in Faults
  /\ call[h].step = "scheduling"
  /\ IF state[r] = "running" /\ lease[r].owner = NoHost
     THEN UpdateState(r, target, NoConf) /\ PauseAccounting(r, {"running"})
     ELSE UNCHANGED <<state, conf, acc>>
  /\ Return(h)
  /\ UNCHANGED <<review, lease, tries, located, sealed, published, treeVars, pc, beating,
                 wanted, crashes, ghostVars>>

\* Variant: the lease of another worker is taken over while it is fresh.
AnyLease(r) == TRUE

Claimable(r) == lease[r].owner = NoHost \/ ~lease[r].fresh

\* Under the worker lock: a live thread of this Host is left alone, a lease that
\* another token holds and refreshes is left alone too, and the call returns.
Schedule(h) ==
  LET r == call[h].run IN
  /\ call[h].step = "scheduling"
  /\ IF ~Alive(h, r) /\ state[r] = "running" /\ Claimable(r)
     THEN /\ lease' = [lease EXCEPT ![r] = [owner |-> h, fresh |-> TRUE]]
          /\ Goto(h, r, "claimed")
     ELSE UNCHANGED <<lease, pc>>
  /\ Return(h)
  /\ UNCHANGED <<state, conf, review, workVars, treeVars, beating, wanted, crashes, ghostVars>>

\* The thread does not start: the Run fails and the lease is given back.
LaunchFails(h) ==
  LET r == call[h].run IN
  /\ "error" \in Faults
  /\ call[h].step = "scheduling"
  /\ ~Alive(h, r) /\ state[r] = "running" /\ Claimable(r)
  /\ lease' = [lease EXCEPT ![r] = [owner |-> NoHost, fresh |-> FALSE]]
  /\ UpdateState(r, "failed", NoConf)
  /\ PauseAccounting(r, {"running"})
  /\ Return(h)
  /\ UNCHANGED <<review, tries, located, sealed, published, treeVars, pc, beating, wanted,
                 crashes, ghostVars>>

-----------------------------------------------------------------------------
(* The worker thread of Host h for Run r.                                  *)

WorkerVars == <<call, crashes, treeVars, granted>>

\* A finished accounting is scanned again only once a scope was accepted.
BeginScan(h, r) ==
  IF acc[r].status = "completed" /\ ~Accepted(review[r])
  THEN Goto(h, r, "scanned") /\ UNCHANGED acc
  ELSE Goto(h, r, "scanning") /\ acc' = [acc EXCEPT ![r].status = "running"]

\* A thread whose Run stopped, or whose lease is gone, before it began ends
\* without giving its lease back.
EnterRun(h, r) ==
  /\ pc[h][r] = "claimed"
  /\ IF state[r] = "running" /\ lease[r].owner = h
     THEN /\ BeginScan(h, r)
          /\ beating' = [beating EXCEPT ![h][r] = TRUE]
     ELSE Goto(h, r, "ending") /\ UNCHANGED <<acc, beating>>
  /\ UNCHANGED <<rowVars, tries, located, sealed, published, wanted, effects, WorkerVars>>

\* The scan ends: complete, cut short by a control, or at an unavailable source.
EndScan(h, r) ==
  /\ pc[h][r] = "scanning"
  /\ \/ /\ state[r] = "running"
        /\ acc' = [acc EXCEPT ![r] = [status |-> "completed", inv |-> disk]]
     \/ /\ state[r] # "running"
        /\ acc' = [acc EXCEPT ![r].status = "paused"]
     \/ /\ "source" \in Faults
        /\ acc' = [acc EXCEPT ![r].status = "blocked"]
  /\ Goto(h, r, "scanned")
  /\ UNCHANGED <<rowVars, tries, located, sealed, published, beating, wanted, effects,
                 WorkerVars>>

\* sync_accounting: the state of the accounting Run decides how the worker goes on.
SyncAccounting(h, r) ==
  /\ pc[h][r] = "scanned"
  /\ Goto(h, r, IF state[r] # "running" THEN "leaving"
                ELSE IF acc[r].status = "blocked" THEN "blocking"
                ELSE IF acc[r].status = "paused" THEN "interrupting"
                ELSE "review")
  /\ UNCHANGED <<rowVars, workVars, beating, wanted, effects, WorkerVars>>

\* Variant: a worker whose Run ended is not told so, and waits.
NextPhaseUnlessEnded(h, r, next) ==
  \/ state[r] = "running" /\ Goto(h, r, next)
  \/ state[r] \in {"paused", "blocked"} /\ Goto(h, r, "leaving")

\* Between two phases: checkpoints are refused once the Run ended, and a phase
\* is followed by the next only while the Run is running.
NextPhase(h, r, next) ==
  \/ state[r] = "running" /\ Goto(h, r, next)
  \/ state[r] \in {"paused", "blocked"} /\ Goto(h, r, "leaving")
  \/ state[r] \in Terminal /\ Goto(h, r, "failing")

\* Variant: any decision about the scope of this Run is taken again.
DecidedBefore(r) == Accepted(review[r])

Decided(r) == Accepted(review[r]) /\ review[r].inv = acc[r].inv

\* Variant: the decision of any earlier Run is taken over, also of a given-up one.
ReusableOfAny(r) ==
  \E prior \in Runs \ {r} : Accepted(review[prior]) /\ review[prior].inv = acc[r].inv

Reusable(r) ==
  \E prior \in Runs \ {r} : /\ state[prior] = "completed"
                            /\ Accepted(review[prior])
                            /\ review[prior].inv = acc[r].inv

\* ensure_scope_review: one transaction, whatever the state of the Run is.
EnsureScopeReview(h, r) ==
  LET pending == review[r] = [inv |-> acc[r].inv, state |-> "pending"]
      Ask(how) == review' = [review EXCEPT ![r] = [inv |-> acc[r].inv, state |-> how]]
  IN
  /\ pc[h][r] = "review"
  /\ \/ Decided(r) /\ Goto(h, r, "media") /\ UNCHANGED <<state, conf, review>>
     \/ /\ ~Decided(r) /\ pending
        /\ Goto(h, r, IF state[r] = "running" THEN "media" ELSE "leaving")
        /\ UNCHANGED <<state, conf, review>>
     \/ /\ ~Decided(r) /\ ~pending /\ Reusable(r)
        /\ Ask("reused") /\ Goto(h, r, "media") /\ UNCHANGED <<state, conf>>
     \/ /\ ~Decided(r) /\ ~pending /\ ~Reusable(r)
        /\ Ask("pending") /\ Goto(h, r, "leaving")
        /\ UpdateState(r, "paused", Asking("source_scope", [of |-> acc[r].inv, try |-> 0]))
  /\ UNCHANGED <<lease, workVars, beating, wanted, effects, WorkerVars>>

\* All local producers, from metadata to compression.
EndMedia(h, r) ==
  /\ pc[h][r] = "media"
  /\ NextPhase(h, r, "geo")
  /\ UNCHANGED <<rowVars, workVars, beating, wanted, effects, WorkerVars>>

\* Variant: nobody asks whether the Geo production has an owner.
NoGeoOwner(h, r) == FALSE

GeoOwned(h, r) == \E other \in Hosts \ {h} : pc[other][r] \in GeoSteps

\* The one Geo call is not admitted once the Run stopped, and then there is no
\* outcome to take; nor when another process is the owner of the production.
BeginGeo(h, r) ==
  /\ pc[h][r] = "geo"
  /\ Goto(h, r, IF state[r] # "running" \/ GeoOwned(h, r) THEN "failing" ELSE "asking")
  /\ UNCHANGED <<rowVars, workVars, beating, wanted, effects, WorkerVars>>

\* Variant: a proceed decision covers whatever is to be executed now.
CoversAny(r, c) == conf[r].kind = "external_effect" /\ conf[r].decision = "proceed"

Covers(r, c) == conf[r] = [kind |-> "external_effect", content |-> c, decision |-> "proceed"]

\* pause_for_confirmation, for the lookups not yet executed.
RequireConfirmation(h, r) ==
  /\ pc[h][r] = "asking"
  /\ \/ /\ ~Demand(r)
        /\ Goto(h, r, "sealing") /\ UNCHANGED <<state, conf, wanted>>
     \/ /\ Demand(r) /\ tries[r] = MaxTries
        /\ Goto(h, r, "blocking") /\ UNCHANGED <<state, conf, wanted>>
     \/ /\ Demand(r) /\ tries[r] < MaxTries
        /\ \/ /\ state[r] = "running" /\ Covers(r, Content(r))
              /\ Goto(h, r, "granted") /\ UNCHANGED <<state, conf>>
              /\ wanted' = [wanted EXCEPT ![h][r] = Content(r)]
           \/ /\ state[r] \in Unfinished
              /\ ~(state[r] = "running" /\ Covers(r, Content(r)))
              /\ UpdateState(r, "paused",
                             IF /\ state[r] = "paused" /\ conf[r].kind = "external_effect"
                                /\ conf[r].content = Content(r)
                             THEN conf[r] ELSE Asking("external_effect", Content(r)))
              /\ Goto(h, r, "leaving") /\ UNCHANGED wanted
           \/ /\ state[r] \in Terminal
              /\ Goto(h, r, "failing") /\ UNCHANGED <<state, conf, wanted>>
  /\ UNCHANGED <<review, lease, workVars, beating, effects, WorkerVars>>

\* The authority is read again for the request that is about to be sent; a pause
\* has taken it back in the meantime.
ReadAuthority(h, r) ==
  /\ pc[h][r] = "granted"
  /\ Goto(h, r, IF Covers(r, wanted[h][r]) THEN "effect" ELSE "failing")
  /\ UNCHANGED <<rowVars, workVars, beating, wanted, effects, WorkerVars>>

\* The execution is journalled; no request is sent once the Run has stopped.
BeginEffect(h, r) ==
  /\ pc[h][r] = "effect"
  /\ tries' = [tries EXCEPT ![r] = IF @ < MaxTries THEN @ + 1 ELSE @]
  /\ IF state[r] = "running"
     THEN effects' = effects \cup {<<r, wanted[h][r]>>} /\ Goto(h, r, "inflight")
     ELSE Goto(h, r, "sealing") /\ UNCHANGED effects
  /\ UNCHANGED <<rowVars, acc, located, sealed, published, beating, wanted, WorkerVars>>

\* Every lookup has an outcome, some were cut off by a control, or the effect is
\* indeterminate or its provider unavailable.
EndEffect(h, r) ==
  /\ pc[h][r] = "inflight"
  /\ \/ /\ located' = [located EXCEPT ![r] = @ \cup {wanted[h][r].of}]
        /\ Goto(h, r, "sealing")
     \/ state[r] # "running" /\ Goto(h, r, "sealing") /\ UNCHANGED located
     \/ "blocked" \in Faults /\ Goto(h, r, "blocking") /\ UNCHANGED located
  /\ UNCHANGED <<rowVars, acc, tries, sealed, published, beating, wanted, effects, WorkerVars>>

\* seal_result: the Result of a Run has one reference, derived from the Run; what
\* is published under it is never replaced by different content.
SealResult(h, r) ==
  /\ pc[h][r] = "sealing"
  /\ \/ state[r] # "running" /\ Goto(h, r, "leaving") /\ UNCHANGED sealed
     \/ /\ state[r] = "running" /\ sealed[r] \in {NoInventory, acc[r].inv}
        /\ sealed' = [sealed EXCEPT ![r] = acc[r].inv]
        /\ Goto(h, r, "completing")
     \/ /\ state[r] = "running" /\ sealed[r] \notin {NoInventory, acc[r].inv}
        /\ Goto(h, r, "failing") /\ UNCHANGED sealed
  /\ UNCHANGED <<rowVars, acc, tries, located, published, beating, wanted, effects,
                 WorkerVars>>

\* set_completed refuses a Run that is not running any more.
SetCompleted(h, r) ==
  /\ pc[h][r] = "completing"
  /\ \/ /\ state[r] = "running"
        /\ UpdateState(r, "completed", NoConf)
        /\ published' = [published EXCEPT ![r] = sealed[r]]
        /\ Goto(h, r, "leaving")
     \/ /\ state[r] = "completed"
        /\ Goto(h, r, "leaving") /\ UNCHANGED <<state, conf, published>>
     \/ /\ state[r] \notin {"running", "completed"}
        /\ Goto(h, r, "failing") /\ UNCHANGED <<state, conf, published>>
  /\ UNCHANGED <<review, lease, acc, tries, located, sealed, beating, wanted, effects,
                 WorkerVars>>

-----------------------------------------------------------------------------
(* How a worker ends.                                                      *)

\* A blocked condition may only be recorded of a running or blocked Run; any
\* other state is a conflict, which is recorded as a crash of the worker.
MarkBlocked(h, r) ==
  /\ pc[h][r] = "blocking"
  /\ IF state[r] \in {"running", "blocked"}
     THEN UpdateState(r, "blocked", NoConf) /\ Goto(h, r, "leaving")
     ELSE Goto(h, r, "failing") /\ UNCHANGED <<state, conf>>
  /\ UNCHANGED <<review, lease, workVars, beating, wanted, effects, WorkerVars>>

MarkInterrupted(h, r) ==
  /\ pc[h][r] = "interrupting"
  /\ CASE state[r] = "running" -> UpdateState(r, "paused", NoConf) /\ Goto(h, r, "leaving")
       [] state[r] = "paused"  -> Goto(h, r, "leaving") /\ UNCHANGED <<state, conf>>
       [] OTHER                -> Goto(h, r, "failing") /\ UNCHANGED <<state, conf>>
  /\ UNCHANGED <<review, lease, workVars, beating, wanted, effects, WorkerVars>>

\* mark_failed takes every unfinished Run, also one that was paused meanwhile.
MarkFailed(h, r) ==
  /\ pc[h][r] = "failing"
  /\ IF state[r] \in Unfinished
     THEN UpdateState(r, "failed", NoConf) /\ PauseAccounting(r, {"running", "blocked"})
     ELSE UNCHANGED <<state, conf, acc>>
  /\ Goto(h, r, "releasing")
  /\ UNCHANGED <<review, lease, tries, located, sealed, published, beating, wanted, effects,
                 WorkerVars>>

\* Variant: a worker leaves the Run as it is.
LeaveAsIs(r) == UNCHANGED <<state, conf>>

\* A Run that no step stopped must not stay running without a worker.
InterruptIfRunning(r) ==
  IF state[r] = "running" THEN UpdateState(r, "paused", NoConf) ELSE UNCHANGED <<state, conf>>

LeaveRun(h, r) ==
  /\ pc[h][r] = "leaving"
  /\ InterruptIfRunning(r)
  /\ Goto(h, r, "releasing")
  /\ UNCHANGED <<review, lease, workVars, beating, wanted, effects, WorkerVars>>

\* The heartbeat is stopped and the lease given back, if it is still its own.
ReleaseLease(h, r) ==
  /\ pc[h][r] = "releasing"
  /\ lease' = IF lease[r].owner = h
              THEN [lease EXCEPT ![r] = [owner |-> NoHost, fresh |-> FALSE]] ELSE lease
  /\ beating' = [beating EXCEPT ![h][r] = FALSE]
  /\ wanted' = [wanted EXCEPT ![h][r] = NoContent]
  /\ Goto(h, r, "ending")
  /\ UNCHANGED <<state, conf, review, workVars, effects, WorkerVars>>

\* The Host looks at the Run once more, and then forgets the thread.
EndThread(h, r) ==
  /\ pc[h][r] = "ending"
  /\ InterruptIfRunning(r)
  /\ Goto(h, r, "popping")
  /\ UNCHANGED <<review, lease, workVars, beating, wanted, effects, WorkerVars>>

ForgetThread(h, r) ==
  /\ pc[h][r] = "popping"
  /\ Goto(h, r, "none")
  /\ UNCHANGED <<rowVars, workVars, beating, wanted, effects, WorkerVars>>

-----------------------------------------------------------------------------
(* Heartbeats, faults and the source tree.                                 *)

\* A heartbeat refreshes the lease, or its thread ends: for good, also when the
\* Run is only paused for a moment.
Heartbeat(h, r) ==
  /\ beating[h][r]
  /\ IF state[r] = "running" /\ lease[r].owner = h
     THEN lease' = [lease EXCEPT ![r].fresh = TRUE] /\ UNCHANGED beating
     ELSE beating' = [beating EXCEPT ![h][r] = FALSE] /\ UNCHANGED lease
  /\ UNCHANGED <<state, conf, review, workVars, pc, wanted, effects, WorkerVars>>

\* The stale interval passes without a heartbeat.
LeaseExpires(r) ==
  /\ lease[r].fresh
  /\ \A h \in Hosts : lease[r].owner = h => ~Beating(h, r)
  /\ lease' = [lease EXCEPT ![r].fresh = FALSE]
  /\ UNCHANGED <<state, conf, review, workVars, treeVars, hostVars, ghostVars>>

\* A required condition is missing: a changed recipe, an unavailable model
\* backend or provider, a workspace that cannot be written.
MeetsCondition(h, r) ==
  /\ "blocked" \in Faults
  /\ pc[h][r] \in {"scanning", "media", "asking", "sealing"}
  /\ Goto(h, r, "blocking")
  /\ UNCHANGED <<rowVars, workVars, beating, wanted, effects, WorkerVars>>

\* Any other exception of the worker.
WorkerRaises(h, r) ==
  /\ "error" \in Faults
  /\ pc[h][r] \in Body
  /\ Goto(h, r, "failing")
  /\ UNCHANGED <<rowVars, workVars, beating, wanted, effects, WorkerVars>>

\* The Host process dies; the leases of its threads have no owner to renew them.
Crash(h) ==
  /\ crashes < MaxCrashes
  /\ call[h].step # "idle" \/ \E r \in Runs : Alive(h, r) \/ lease[r].owner = h
  /\ crashes' = crashes + 1
  /\ call' = [call EXCEPT ![h] = NoCall]
  /\ pc' = [pc EXCEPT ![h] = [r \in Runs |-> "none"]]
  /\ beating' = [beating EXCEPT ![h] = [r \in Runs |-> FALSE]]
  /\ wanted' = [wanted EXCEPT ![h] = [r \in Runs |-> NoContent]]
  /\ lease' = [r \in Runs |-> IF lease[r].owner = h THEN [lease[r] EXCEPT !.owner = DeadHost]
                              ELSE lease[r]]
  /\ UNCHANGED <<state, conf, review, workVars, treeVars, ghostVars>>

SourceChanges ==
  /\ drifts < MaxDrift
  /\ disk' \in Inventories \ {disk}
  /\ drifts' = drifts + 1
  /\ UNCHANGED <<rowVars, workVars, hostVars, ghostVars>>

-----------------------------------------------------------------------------
Human ==
  \E r \in Runs :
     \/ Pause(r) \/ Cancel(r)
     \/ \E h \in Hosts :
           \/ Start(h, r) \/ CheckResume(h, r) \/ ResumePlain(h, r)
           \/ \E i \in Inventories : AcceptScope(h, r, i)
           \/ \E c \in Contents : Proceed(h, r, c)
           \/ Decline(h, r) \/ RefuseResume(h, r)

Worker(h, r) ==
  \/ EnterRun(h, r) \/ EndScan(h, r) \/ SyncAccounting(h, r)
  \/ EnsureScopeReview(h, r) \/ EndMedia(h, r)
  \/ BeginGeo(h, r) \/ RequireConfirmation(h, r) \/ ReadAuthority(h, r)
  \/ BeginEffect(h, r) \/ EndEffect(h, r)
  \/ SealResult(h, r) \/ SetCompleted(h, r)
  \/ MarkBlocked(h, r) \/ MarkInterrupted(h, r) \/ MarkFailed(h, r) \/ LeaveRun(h, r)
  \/ ReleaseLease(h, r) \/ EndThread(h, r) \/ ForgetThread(h, r)

Environment ==
  \/ \E h \in Hosts :
        \/ PrepareFails(h, "blocked") \/ PrepareFails(h, "failed") \/ LaunchFails(h)
        \/ Crash(h)
        \/ \E r \in Runs : MeetsCondition(h, r) \/ WorkerRaises(h, r) \/ Heartbeat(h, r)
  \/ \E r \in Runs : LeaseExpires(r)
  \/ SourceChanges

Next ==
  \/ Human
  \/ \E h \in Hosts : Schedule(h) \/ \E r \in Runs : Worker(h, r)
  \/ Environment

Spec == Init /\ [][Next]_vars

\* A live Host finishes the calls it is in and keeps running its threads.
Fairness == \A h \in Hosts : /\ WF_vars(Schedule(h))
                             /\ \A r \in Runs : WF_vars(Worker(h, r))
FairSpec == Spec /\ Fairness

-----------------------------------------------------------------------------
(* What must hold.                                                         *)

TypeOK ==
  /\ state \in [Runs -> RunStates]
  /\ conf \in [Runs -> Confirmations]
  /\ review \in [Runs -> [inv : Inventories \cup {NoInventory}, state : ReviewStates]]
  /\ lease \in [Runs -> [owner : Hosts \cup {NoHost, DeadHost}, fresh : BOOLEAN]]
  /\ acc \in [Runs -> [status : {"running", "paused", "blocked", "completed"},
                       inv : Inventories \cup {NoInventory}]]
  /\ tries \in [Runs -> 0..MaxTries]
  /\ located \in [Runs -> SUBSET (Inventories \cup {NoInventory})]
  /\ sealed \in [Runs -> Inventories \cup {NoInventory}]
  /\ published \in [Runs -> Inventories \cup {NoInventory}]
  /\ disk \in Inventories /\ drifts \in 0..MaxDrift
  /\ call \in [Hosts -> [run : Runs \cup {NoRun}, step : CallSteps]]
  /\ pc \in [Hosts -> [Runs -> PCs]]
  /\ beating \in [Hosts -> [Runs -> BOOLEAN]]
  /\ wanted \in [Hosts -> [Runs -> Contents]]
  /\ crashes \in 0..MaxCrashes
  /\ granted \in SUBSET (Runs \X Contents) /\ effects \in SUBSET (Runs \X Contents)

\* Nothing is sent out but what the Human confirmed for that Run in those words:
\* the lookups of one inventory, and of one execution of them.
EffectsConfirmed == effects \subseteq granted

\* A disclosure is executed once: one execution at a time, and a recovery is a
\* new disclosure, also when owners change between the decision and the request.
OneExecution ==
  \A r \in Runs :
     \A h, other \in Hosts :
        pc[h][r] = "inflight" /\ pc[other][r] \in GeoSteps => other = h

\* Of the workers on one Run, whichever Hosts they belong to, at most one shows signs
\* of life: a worker that beats is never joined by another.
OneHeartbeat ==
  \A r \in Runs : \A h, other \in Hosts : Beating(h, r) /\ Beating(other, r) => h = other

SingleHost == \A h, other \in Hosts : h = other

\* Expensive media work is done under a scope decided for exactly the inventory
\* that is accounted, when a single Host has the Dataset open.
MediaInScope ==
  SingleHost => \A r \in Runs, h \in Hosts :
     pc[h][r] \in MediaSteps => Accepted(review[r]) /\ review[r].inv = acc[r].inv

\* A completed Run published the Result sealed for it, of the inventory whose
\* scope was decided, whatever crashed, changed or stopped it on the way.
CompletedResult ==
  \A r \in Runs : state[r] = "completed" =>
     /\ published[r] = sealed[r] /\ sealed[r] # NoInventory
     /\ SingleHost => review[r].inv = published[r] /\ Accepted(review[r])

\* A scope taken over without asking was accepted by the Human for the same
\* inventory, in a Run that was carried to its Result.
ReusesAccepted ==
  \A r \in Runs : review[r].state = "reused" =>
     \E prior \in Runs \ {r} : /\ state[prior] = "completed"
                               /\ review[prior] = [inv |-> review[r].inv, state |-> "accepted"]

ReusedWasAccepted == SingleHost => ReusesAccepted

\* The only way back from an end is a scope review that was already under way.
EndsAreFinal ==
  [][\A r \in Runs : state[r] \in Terminal /\ state'[r] # state[r] =>
        /\ state'[r] = "paused" /\ conf'[r].kind = "source_scope"
        /\ \E h \in Hosts : pc[h][r] = "review"]_vars

\* A Run whose worker is at work does not stay running for ever: it ends, stops
\* for a decision, or its worker leaves it in a state that says so.
WorkedRunsSettle ==
  \A h \in Hosts, r \in Runs :
     (state[r] = "running" /\ pc[h][r] \notin {"none", "releasing", "ending", "popping"})
        ~> (state[r] # "running" \/ crashes > 0)

\* A cancelled Run is left by its worker, and its lease given back.
CancelledIsLeft ==
  \A h \in Hosts, r \in Runs :
     state[r] = "cancelled" ~> (pc[h][r] = "none" \/ state[r] # "cancelled")

-----------------------------------------------------------------------------
(* What the documents of the repository say, and the code does not do.     *)

\* An ended Run stays ended.
TerminalIsFinal ==
  [][\A r \in Runs : state[r] \in Terminal => state'[r] = state[r]]_vars

\* An accepted pause is durable: the Run waits for the caller to continue it.
PauseIsDurable == [][\A r \in Runs : state[r] = "paused" => state'[r] # "failed"]_vars

\* A successful start or resume means that a worker has the right to execute.
ScheduledHasWorker ==
  [][\A h \in Hosts, r \in Runs :
        call[h] = [run |-> r, step |-> "scheduling"] /\ call'[h] = NoCall
        /\ state[r] = "running" /\ state'[r] = "running"
        => \E owner \in Hosts : pc'[owner][r] \in Body \cup {"claimed"}]_vars

\* Lookups still under way are not passed off as lawful missing places: a Run
\* completes only when every lookup its inventory needs has an outcome.
LookupsNotSkipped ==
  \A r \in Runs : state[r] = "completed" /\ published[r] \in GeoNeeded =>
                    published[r] \in located[r]
=============================================================================
