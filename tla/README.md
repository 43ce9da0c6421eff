# MediaSense verification project

MediaSense prepares a large media collection (**PreCheck**), plans its organization with a Human
(**Plan**) and moves the original files (**Apply**). Its promises are about durability and consent:
nothing is sent out and nothing is moved but what a Human confirmed in those words, nothing is lost,
and whatever crashed, paused or raced on the way, the records say what happened. This directory
holds TLA+ models of the protocols those promises rest on, TLC configurations that check them on
small instances, and TLAPS proofs of the results that matter most.

Sources are named relative to `src/src/mediasense/`, documents to `src/docs/`. `PROJECT.json` maps
every definition of the models to the lines it stands for, lists the hazards of the code with the
properties that cover them, and gives for every property a mutant of the code that breaks it.

## 1. Inventory of the system

| Part | State it keeps | Operations | Hard behaviour | What makes it correct | Here |
|---|---|---|---|---|---|
| Apply execution (`apply/execution.py`) | Run row, item ledger, discrepancies, receipt publication (SQLite) | execute, pause, resume, cancel; the worker's recover, move, verify, close | controls race with the worker; crash between effect and record; metadata loss withdraws authority | effects authorized and journalled, completion real, Receipt agrees with the sealed ledger | `ApplyRun`, `MoveOriginals` |
| Apply filesystem (`apply/filesystem.py`) | source, target, temporary of each item | exclusive rename; copy, compare, publish, unlink; reconcile | crash inside a copy, drift between verification and rename | no object lost, none overwritten | `ApplyRun` |
| Apply Receipt store (`apply/receipt.py`) | one immutable file per Run | prepare, publish, read | crash between publication and closing | one Receipt, never revised | `ApplyRun` (publication) |
| Apply preparation (`apply/preparation.py`, `tool.py`) | Runs, items, findings, authorizations | prepare forward and rewind, resume, reopen, cancel, authorize | a preparation dies between looks at a moving disk, or meets another call at its Run; two Runs over the same files | what may be authorized was looked at as a whole, and excludes its rivals | `Preparation` |
| PreCheck Run (`precheck/run.py`, `_run_sqlite.py`) | Run row: state, confirmation, checkpoint with the worker lease; scope reviews | start, pause, resume with decision, cancel; every exit of the worker | controls race with the worker in another thread or Host; stale leases | effects confirmed, ends final, no Run running without an owner | `PrecheckRun` |
| PreCheck orchestration (`precheck/_orchestrator.py`, `geocode.py`) | phase checkpoints; the Work it drives | accounting, scope review, local producers, external evidence, seal | stop and resume between two looks; recovery of a cut-off external execution | media work in the decided scope, one execution per confirmation | `PrecheckRun`, `Production` |
| Host composition (`runtime/composition.py`) | worker threads, wakeups, locks | schedule, advance, hand off | a call finds a dying thread alive | an accepted control has an owner | `ApplyRun`, `PrecheckRun` |
| PreCheck accounting (`precheck/accounting.py`, `_accounting_sqlite.py`) | Working Runs, source state, inventories, removals | passes in batches, reuse, carry-over, rebinding | the source changes and the volume is swapped between batches; passes re-entered | a revision means one observation; a completed inventory was really there | `Accounting` |
| Work store (`precheck/_work_sqlite.py`, `_invalidation.py`) | Work records, leases, dependencies, attempts | define, claim, renew, succeed, fail, invalidate, rebuild, detach | expired owners still writing; promotion and blocking | no result without its inputs, nothing waits for ever, both tables agree | `WorkLeases` |
| Producers (`precheck/metadata.py`, `rendition.py`, `video.py`, `bundling.py`, `compression.py` ...) | the pass of a Run over its kinds of Work | demand, claim, produce, report; group; admit | two Runs share records and invalidate them | a Result is sealed over results that stand | `Production`, `Grouping`, `Admission` |
| Artifact and Result stores (`precheck/_artifact_sqlite.py`, `_result_sqlite.py`, `maintenance.py`) | rows and files, pins, quarantine | publish, bind, seal, register, audit, collect, restore | publication races with collection; crash between link and row | bytes somebody counts on are kept; a Result has one content | `ArtifactStore` |
| Result assembly (`precheck/_result_assembly.py`, projections) | the draft of a Result | read rows, judge, validate, register | Work, bytes and sources change under the draft | what is sealed is whole and hides nothing | `ResultAssembly` |
| PreCheck Read (`precheck/read.py`, `_read_file.py`) | cached graphs, cursors | load, verify, page | the file changes under the cache; byte limits | answers are verified, walks are exact | `ResultRead`, `ResultPages` |
| Plan Work (`plan/work.py`, `_sqlite.py`, `_update_execution.py`, `_publication.py`) | Works, receipts, reservations, frozen Plans | create, update, cancel, seal | seal races with update; crash between reserve and publish | what is sealed is what was reviewed | `PlanWork`, `PlanRegister` |
| Plan candidate (`plan/_candidate.py`, `source_sets.py`) | a shared memo of resolved sets | analyze | pages, eviction and outages during an analysis | exactly the good candidates pass | `PlanCandidate` |
| Plan view (`runtime/plan_views.py`, `_view_server.py`, `_view_lifecycle.py`) | one process with lock and files; contexts, pins, waits | ensure, deliver, stop; bind, read, sweep, retire | exit races with a delivery; lost wakeups | one host; nobody loses its context | `ViewHost`, `ViewContexts` |
| Dataset registry (`runtime/dataset.py`) | two workspace tiers, manifest, stores | open, create, migrate | Hosts open at once and die between steps | an opened Dataset is complete and current | `DatasetOpen` |
| Geo capability (`capabilities/geo/*`) | journal of requests, cycles, reservations | admit, reserve, call, reconcile, recover | crash after a reservation; one ceiling over several cycles | no request beyond the accepted ceiling, none unaccounted for | `GeoCalls` |
| Source validity, Apply tool, MCP Host, CLI, configuration, Geo providers | see `PROJECT.json` | | I/O, parsing, transport | | not modelled |

How they interact: a *call* arrives at `DatasetRuntime.call`, commits one SQLite transaction on a
Run and then, for start, execute and resume, schedules a worker *thread*. The thread never gets a
message from a later control: it reads the Run again between its own steps. The worker of a PreCheck
Run drives the Work store, which it shares with the Runs of other processes; what it seals is read
through PreCheck Read, by Plan candidates and Plan views; a sealed Plan is what Apply prepares and
executes. The processes that have a Dataset open share nothing but the database, OS locks (per Geo
request, per Apply Run, per Plan view directory) and the filesystem.

## 2. The modules

| Module | Composes, implements | Checked by | Proofs |
|---|---|---|---|
| `ApplyRun` | implements `MoveOriginals` | `apply_recovery`, `apply_drift`, `apply_live` | `ApplyRun_proofs` |
| `PrecheckRun` | | `precheck_recovery`, `runs` | `PrecheckRun_proofs` |
| `PlanWork` | implements `PlanRegister` | `services` | `PlanWork_proofs` |
| `WorkLeases` | | `work` | `WorkLeases_proofs` |
| `Production` | drives and implements `WorkLeases` | `work` | `Production_proofs` |
| `ArtifactStore` | | `runs` | `PrecheckRun_proofs` (as `A`) |
| `Preparation` | | `preparation`, `apply_two_rewinds` | `Preparation_proofs` |
| `ViewHost` | | `reading`, `view_exit` | `ViewHost_proofs` |
| `DatasetOpen` | | `services` | `Preparation_proofs` (as `D`) |
| `GeoCalls` | | `services` | `GeoCalls_proofs` |
| `PlanCandidate`, `Accounting`, `Admission` | | `services`; `accounting_reentry` | |
| `ViewContexts` | | `reading` | `ViewHost_proofs` (as `V`) |
| `ResultAssembly`, `ResultRead`, `ResultPages`, `Grouping` | | `reading` | |

Four modules for TLC (`MCServices`, `MCReading`, `MCWork`, `MCRuns`) put several components beside
each other. Components of one such module share no state; the variable `part` says, from the initial
state on, which of them moves; the others have no state, or stay where they begin. The reachable states are the
disjoint union of those of the parts, so nothing is lost and nothing is multiplied, and a property
says of which part it speaks. `MCWork` is more than a sum: the passes of `Production` work on the
variables of `WorkLeases`, so the properties of the tables are asked of both.

## 3. Correspondence

Throughout, an action is a transaction with every call it makes, or an effect or look outside of
one; a read that only chooses the next step is merged with the step after it. Timestamps, logs,
progress and wording are left out.

### ApplyRun, MoveOriginals

*State.* `state, control, closure, revision, auth, route` are columns of `runs`; `status, tried,
loss, lossRef, disclosed` are `run_items` and `metadata_discrepancies`; `publication` is
`receipt_publications` and `receipt` the file it names; `source, target, temp, copied` are the disk;
`pc, cur, queue, draft` are the position of the one worker thread, `calling` a control call between
its commit and its scheduling, and `wakeup` the set of that name in `composition.py`. `auth` is the
revision whose preparation was authorized, 0 when none is.

*Actions.* One per control (`Execute`, `ReplayExecute`, `Resume`, `Pause`, `CancelBeforeExecution`,
`Cancel`), one per commit or filesystem effect of the worker, from `StartAdvance` over
`RecoverPublication`, `ReconcileIntent`, `ChooseNext`, `RecordIntent`, `BeginMove` ... `UnlinkSource`,
`RecordObservation` to `BuildReceipt`, `ReservePublication`, `PublishBuiltReceipt`, `CloseRun` and
`LeaveRun`, and one per fault (`Crash`, `StorageFails`, `WorkerRaises`, `ExternalDrift`,
`ChangeDuringRead`).

*Abstractions.* `attempts` is reduced to `tried` (attempted or not, which is all the code asks).
Resume counts, created directories, ACLs and findings rows are left out. Metadata is a set of
possible `Losses`. Ledgers kept in segments behave as inline ones. Drift inside the cross-filesystem
effect itself is excluded by the contract. A Run belongs to one Host: `_run_lock` excludes others.
`MaxRevision` bounds the prepared revisions (a loss at the bound is not taken).

*Refinement.* `MoveOriginals` is the promise of the effect: a file is at its source, at both places
or at its target, only goes forward, starts only under an authorization, and a sealed account names
only files that arrived. `Moving` maps a file to `"target"` once its source is gone or its
completion recorded, to `"both"` once its copy is published.

### PrecheckRun

*State.* `state, conf, lease` are columns of `precheck_runs` (the lease is
`execution_checkpoint.worker`, with `fresh` for "its heartbeat is younger than the stale interval"),
`review` the newest non-stale row of `precheck_scope_reviews`; `acc` is the accounting Run, with the
inventory of its last complete scan; `tries` and `located` are the Geo executions of the Run and the
inventories whose lookups have outcomes; `sealed` the content bound to the Run's Result reference,
`published` the Result the Run points to. Per Host: `call` (start or resume between commit and
return), `pc` (where its thread for a Run is), `beating` (its heartbeat thread), `wanted` (the
disclosure the thread took its authority for). `granted` and `effects` record what the Human
confirmed and what was sent.

*Actions.* Calls: `Start, Pause, Cancel, CheckResume, ResumePlain, AcceptScope, Proceed, Decline,
RefuseResume, PrepareFails, Schedule, LaunchFails`. The thread: `EnterRun, EndScan, SyncAccounting,
EnsureScopeReview, EndMedia, BeginGeo, RequireConfirmation, ReadAuthority, BeginEffect, EndEffect,
SealResult, SetCompleted`. Its exits: `MarkBlocked, MarkInterrupted, MarkFailed, LeaveRun,
ReleaseLease, EndThread, ForgetThread`. The environment: `Heartbeat, LeaseExpires, MeetsCondition,
WorkerRaises, Crash, SourceChanges`.

*Abstractions.*
- The transactions of start (accounting, Run row, binding) are one step; a Host has one start or
  resume in progress. A resume of an ended Run is refused at once.
- The content of a scope selection is dropped: a scope is decided for an inventory or it is not.
- The local producers, from metadata to compression, are one phase (`media`); `Production` opens it.
- An accounting Run belongs to one public Run. (In the code a new Run may adopt the unfinished
  accounting Run of a failed one.)
- A confirmation's content is `<<inventory, execution>>`: every execution and every recovery freezes
  a new disclosure with its own content identity. The journal's completion and its projection onto
  the Work records are one step; `GeoCalls` opens the journal.
- The checks of a sealed Result only read and are merged with the seal; `ResultAssembly` and
  `ArtifactStore` open it.
- When recording a blocked condition meets a conflict, the code gives the lease back before it
  records the failure; the model does it after.
- Heartbeats of a live thread are not late by a whole stale interval.
- Runs started over an explicit source snapshot, start replays and progress are left out.
- `MaxTries`, `MaxDrift` and `MaxCrashes` are bounds; at `MaxTries` a further execution is blocked,
  as it is when the cumulative budget of the code is spent.

### PlanWork, PlanRegister

`work, receipts, reserved` are the tables `plan_works`, `plan_requests` and
`plan_seal_reservations`; `artifact` is the frozen Plan's file, `owner` the update lock of a Work,
`call` where each invocation is. `Begin`, `Cancel`, `Dies` and `Step` take an invocation through
create (look, commit), update (preflight, lock, recheck, analysis, commit gate, commit) and seal
(reserve, publish, complete); a request may be repeated by any invocation, and its receipt answers.
`Accept` is the Human's confirmation of a revision, `TouchArtifact` an outsider at the frozen file.
The content is one of a few, and its analysis passes or refuses (`PlanCandidate` is the analysis).
`PlanRegister` is the promise: a register of versions, sealed at most once with the version it holds
at that moment, and only if the Human accepted exactly that version.

### WorkLeases

`rows` is `work_records` in order of creation, each with its kind, its inputs (`up`), status, lease
and whether its lease has run out or its retry is delayed; `attempts` is `work_attempts`, `attached`
is `run_work_records`, `held` what each worker still believes it holds. One action per transaction:
`EnsureWork, Detach, Claim, ClaimNothing, Renew, Succeed, Fail, LoseLease, RecoverExpired,
Invalidate, Rebuild`; `Crash, LeaseExpires, DelayPasses` are the environment. Walks over the
dependencies (`_block_dependents`, `invalidate_work_tree`) are one operator, `Reached`, defined along
the order of creation. Outputs and source bindings are left out: an input that changes is an
invalidation.

### Production

The phases of one pass in their order (`Order`), each producer with its demand (`ensure_work`), claim,
success, failure, give-back, lost lease and invalidation of what it found changed; `taken` is what
the pass has collected, `target` and `step` where its call is; `Seal` is the validation of what
supports the Result. A pass ends `failed` where it finds records it cannot go on with, and `broken`
where an exception its producer did not expect leaves it: a source that changed before its Work was
demanded, a heartbeat that could not renew, an encoder or a detector that broke its contract, storage.
`Breaks` is that exit of every producer, with what each leaves behind (`LeftBehind`): embeddings fail for
good, metadata and frames may be tried again, sensitivity voids a record that is being computed, be it by
another Run (`Voided`, which a lost lease leads to as well, `LostSensitivity`), and the others leave
theirs running. The code fails the Run in both cases. It works on the tables of `WorkLeases` and uses its transactions. Abstractions:
one photo, one video and one GPX track per Run; the lanes of a phase run one after the other; a
Result that does not validate fails the Run.

### ArtifactStore

`works, attached, artifacts, registered` are rows (`work_records` with `work_artifacts`,
`run_work_records`, `artifacts`, `precheck_results`), `files` and `sealed` what is at the places of
contents and Results, `vault` the quarantine, `recent` the files younger than the grace period. A
Run's pass looks, reuses or demands, claims, places bytes, binds, links its Result and registers it;
maintenance audits, deletes rows, then moves files; bytes get damaged and are restored; passes die
anywhere. A Work stands for one content, and its file is found under that content.

### ResultAssembly, ResultRead, ResultPages, Grouping

`ResultAssembly` takes a Run's Work to a registered Result in the reads the code makes (`ReadRows`,
`Compress`, `JudgePhoto`, `JudgeVideo`, `ShowVideo`, `Validate`, `Register`) while material is lost,
sources change and others retract or finish Work. A block of 32 sources is one source; there is one
rendition profile; a rendition may be left running, retryable (its file could not be published) or
invalidated by the phase that asked for it (`Unfinished`); `error` is folded into `invalid`; all compression groups are one Work whose groups
are nondeterministic; metadata, GPX, sensitivity and geo observations are left out; a
`ResultSealError` ends the Run as a crashed execution.

`ResultRead` is `_load`: lookup, open, digest, check and publication into the two cache places, while
the file, the workspace and the registered proofs change. `ResultPages` is `_query_page`: sizes are
in units of which `Budget` is the response limit, a cursor's size is constant, the execution audit is
read from its start, and the queries are `review` (which delivers faults in place) and `members`.

`Grouping` is the streamed and the in-memory bundling and the cuts of a compression as functions of
a list of files; the GPS axis, the `min(..., 100)` caps and the choice of a representative by
similarity are left out.

### ViewHost, ViewContexts

`ViewHost` is the Plan view's process from outside: `process.lock` with the header in it,
`connection.json`, `lifecycle.lock`, the clients that probe, start, deliver and stop. A bind is
atomic; the probe's momentary hold of the process lock, the failure of the monitor and the
diagnostic clean-up are left out. `ViewContexts` is the process from inside: projections of Works in
a bounded number of places, pins, bounded waits, the sweep, retirement and stop. The last check
inside `_load` is folded into the read; evidence, asset size and path checks are left out. `last_read` is
kept as, for each Work that has one, the Works read before it; readings of the clock are taken not
to tie.

### DatasetOpen, PlanCandidate, Preparation, Accounting, Admission, GeoCalls

- `DatasetOpen`: `open` with `_initialize` and `_migrate` over both tiers, each file operation a
  step. Identity mismatches and an explicit workspace are left out. A truncated `dataset.before-plan-v4.json` is never redone
  by the code, nor by the model.
- `PlanCandidate`: `analyze_candidate` over paged resolution of Source Sets with a shared memo.
- `Preparation`: the calls that prepare a forward Run or resume a blocked one, with every look at the
  disk, and the one transaction of a rewind. Nothing in the code keeps two calls from one Run, so each of
  the `Callers` may be at work at each Run (`call[r][c]`), begins whether or not another is there
  (`Joins`), and writes items, findings and state at last without a look at the state, as
  `_prepare_item`, `_block_item`, `_finalize_preparation` and `_finalize_rewind_preparation` do; the
  worker in turn does not look at the state between two items (`Executing`). `overlapped` is a ghost: the
  Runs at which a call began while another was at work, and rewinds of those. `receipt` is the Receipt of a closed
  Run. `Batch` is one query for the rows that are left, of any number of them. Row and volumes are looked
  at in one step. `_finalize_rewind_preparation` reads before it takes the write lock; the model makes it
  one transaction. Content identity is the record; platform findings, retain/exclude outcomes and the
  rebinding of a destination are left out; a crash inside the resume of a rewind leaves it `preparing`,
  as in the code. `TargetTaken` is not met by the configured instances.
- `Accounting`: passes of Working Runs, their batches, revisions, reuse, directories carried over,
  removals, rebinding to a volume. The volume is swapped between passes only; a Run that was given
  up may still have its pass at work (`run.alone` remembers); issues are folded into the rows;
  inspection failures of entries, name collisions, verified relocation, first-available rebinding,
  snapshot Runs and scope selection are left out; invalidation belongs to `WorkLeases`.
- `Admission`: `hold` and `iter_run` for one phase of calls on the budget of a host. `iter_run` is
  called without an Event by the phases that do so; after an error the pool is drained. Units are 64
  KiB. The phases of video probes and contact sheets are left out.
- `GeoCalls`: an execution with its journal, from admission over reservations and calls to the
  result; reconciliation and recovery, and adoption of a journal from before cycles. A provider's
  condition is folded into a fault followed by a stop; there is one provider per query; the billable
  ceiling behaves as the request ceiling. Sums of reserved requests are sizes of sets: `Reserved` has
  an element for each request that is reserved or was used. The replay of the rows by `reconcile` is
  stated by what it leaves of each coordinate: a success if there is one, else the last row.

## 4. Runs

`CHECK_DEADLOCK FALSE` everywhere, because what is modelled may end: a closed or cancelled Run, a
phase that is over, a bounded number of calls.

| Run | Instance | Distinct states | Shows |
|---|---|---|---|
| `apply_recovery` | 2 items, both routes, 1 loss, 3 revisions, crashes and storage errors | 272,612 | `TypeOK`; effects are journalled (`JournalCoversEffects`) and deletions decided (`DeletionAuthorized`); rest is rest (`QuiescentAtRest`); the Receipt is true of ledger and disk (`ReceiptTruthful`) and what it reserved is not changed (`SealedForGood`); `MoveOriginals` is implemented (`KeepsMovePromise`) |
| `apply_drift` | 1 item, 2 losses, 1 drift, all faults | 680,794 | `NothingLost`, `CompletedIsReal` when files are disturbed from outside and workers raise |
| `apply_live` | 2 items, no faults, fair | 7,010 | an accepted cancel closes (`CancelCloses`), an accepted execute or resume is carried through (`Settles`), although controls race with a worker that is leaving |
| `precheck_recovery` | 1 Run, 1 Host, 2 inventories, 2 executions, 1 source change, 1 crash, all faults, fair | 296,973 | what was sent was confirmed (`EffectsConfirmed`), the Result is of the decided inventory (`CompletedResult`), a worker leaves (`WorkedRunsSettle`, `CancelledIsLeft`) |
| `work` | tables: 2 workers of 1 Run, 3 kinds, 3 records, 2 attempts, 1 invalidation, 1 detachment; passes: five pairs of Runs, on one medium alone or sharing records, 9 records, 1 stop, 1 lapse, 1 fault | 262,452 | results rest on results (`InputsHold`), a wait can end (`PendingCanEnd`), both tables agree and a description has one current record (`TablesAgree`), and what passes seal is of one piece, over steps the Work store offers, and fails only where something disturbed it or an exception broke it (`ProductionIsSound`) |
| `runs` | 2 Hosts at 1 Run with lookups, or 1 Host with 2 Runs without; a store with 2 Runs, 1 content, 2 records, 1 death, 1 damage | 1,474,850 | one execution and one living heartbeat at a time (`OneExecution`, `OneHeartbeat`), scopes taken over were accepted (`ReusedScopesCount`), bytes and Results are not destroyed, though they may be moved to quarantine (`BytesAreKept`) |
| `preparation` | a finished Run and 2 to prepare, 3 items, 2 callers, 1 drift; Runs permuted | 989,249 | `AuthorityIsEarned`: what may be authorized was looked at as a whole and excludes its forward rivals, and what moves was confirmed, of Runs whose preparing calls did not overlap |
| `services` | Plan Work: 2 invocations, 2 requests, 2 Works, 2 contents, 2 revisions, 1 touched file; Dataset: 2 Hosts, 4 opens, 2 changes; candidate: 12 candidates on 3 items beside 1 draft; accounting: 2 Runs, 2 paths, 2 volumes, 2 passes, 1 mishap; admission: 2 machines, 3 sources; lookups: 2 invocations, 2 requests, 2 coordinates, ceiling 2; names of invocations, Hosts and requests permuted | 703,716 | `SealCannotBeOvertaken`, `OneTransitionPerRequest`, `UpdateAnswersTruly`, and `PlanRegister` is implemented (`KeepsRegister`); `DatasetIsCurrentAndKept`, `AnalysisDecides`, `AccountingIsTrue`, `AdmissionIsSound`, `LookupsAreAccountedFor` (`CeilingHolds`, `ResultAccountsForAll`, `EvidenceAskedOnce`) |
| `reading` | pages of up to 3 items; 2 callers and 4 Results in a cache of 3; view process: 3 processes, 2 clients, 1 fault; its contexts: 3 threads, 2 Works, 1 place; 2 photos and 1 video; lists of up to 5 files | 914,105 | `PagesAreExact`, `AnswersAreVerified`, `OneHost`, `StoppedIsReal`, `ReadersKeepTheirContext`, `SealedResultsAreWhole`, `GroupingIsSound` |
| `accounting_reentry` | 1 Run, 2 paths, 3 passes, 2 mishaps | | violated: see below |
| `apply_two_rewinds` | a finished Run and 2 Runs, 3 items | | violated: see below |
| `view_exit` | 3 processes, 2 clients, 1 fault | | violated: see below |

Why the bounds are enough for what happens in them. Two items let one be in flight while another is
finished, failed or undecided, and three revisions let two losses be decided in turn; two executions
are a first one and a recovery; two inventories let a decided scope go stale, and one change with one
crash lets it happen between any two steps and be recovered from; two Hosts are an owner and a
contender, and a third could only contend likewise. Two invocations are a repeat of a request at the
same time, or a seal beside an update; three records of three kinds have chains, a diamond and a
second generation after an invalidation; two attempts are a retry and its limit. Two Runs over one
content are a publication beside a collection of the same bytes. Two preparing calls at one Run are a
request and its repeat, or two resumes. `SmallSpec` checks overlapping calls (`AtOnce`, on volumes that
stay, with a Plan of one item or rewinds) and changing volumes (`OneByOne`, one call at a time at each Run,
changes at the places of the moved item and of the one both Plans want) in one run of two halves; the
proofs make no such restriction. Two requests of lookups are a request and its recovery, whose evidence
`EvidenceAskedOnce` is about; recoveries of recoveries are left to the proofs. Three processes are one that leaves,
one that starts and one that starts too late; two clients one that delivers and one that stops. Two
passes over two paths, one in a directory, are an interrupted scan and its repetition. Three threads
for one place are a reader, one that waits and one that is refused. Where values may change places
they are permuted (`SYMMETRY`), in runs without liveness only.

Fairness: `WF(Worker)` and `WF(Schedule)` in `ApplyRun` and `PrecheckRun`: a live Host keeps running
its threads and finishes the calls it is in. Controls are the Human's and are never assumed. Nothing
is assumed of a Host that crashed, so `WorkedRunsSettle` claims nothing once one has. `Settles`
excludes a Run that is asked to pause for ever.

### Disagreements

Three runs check what a document or comment of the repository says and find that the code does
otherwise; they are quoted in `PROJECT.json`.

- `accounting_reentry`: a path that could not be fingerprinted by the pass that re-entered a Run, and
  is unchanged at the next, fails the Run on a NULL revision.
- `apply_two_rewinds`: rewinds never look for conflicting Runs; two of the same Receipt may both be
  authorized.
- `view_exit`: a delivery that meets an orderly exit between the closed listener and the freed lock is
  given up without a retry.

Seen while modelling, without a run (each can be stated as an invariant that TLC violates, or is a
trace described by the definitions named):

- *Apply.* After a storage error that keeps an item's intent, a cancel makes the Receipt inadmissible
  and the Run `failed` without one (`execution.py:639`; `docs/spec/contract/apply/index.md:194`). Two
  losses accepted in turn are both attributed to a pair of reference and authorization that never
  existed (`execution.py:1051`; `apply/index.md:210`). A Run stopped for a metadata loss refuses
  `cancel`, having no accepted execution any more (`apply/index.md:186`). An execute after a metadata
  loss revokes an accepted cancel (`execution.py:143-160`; `apply/index.md:173`). When that cancel had
  already reserved the Receipt and the process died, the execute on the new revision clears the
  request, a resume resets failed items although the Receipt is reserved (`execution.py:201-221`), and
  a Run whose ledger is kept in segments can never rebuild it (`receipt.py:119-122`): the model's
  `WorkerRaises` at `republishing`. A resume while cancelling with an undecided loss seals a Receipt
  whose authorization is the text `None`. An unguarded `needs_attention` overwrites a cancel accepted
  meanwhile; an exception of a leaving worker can overwrite `closed` with `failed`; recovery never sets
  the `closure` column; a crash inside a cross-filesystem copy leaves a partial temporary that every
  retry refuses; `resume` is accepted from `verifying`, which the lifecycle table does not list.
- *Apply preparation.* A cancelled Run can be brought back by a preparation still at work
  (`preparation.py:1566`, `:2055`; `design-260829-0038-apply-reference-handoff/index.md:205`). Two calls
  may prepare one Run, and the later one writes rows and state whatever has become of it meanwhile
  (`:1794`, `:1841`, `:2063`, `:1031`): a Run that executes is put back to ready, where
  `cancel_before_execution`, whose count of attempted items is of a column that never says so (`:1371`),
  cancels it with media moved (`CancelledMovedNothing`; `apply/index.md:189`), and the rows of a closed Run
  change, though its Receipt does not.
- *PreCheck Run.* A cancel accepted just before `ensure_scope_review` is overwritten by `paused`
  (`_run_sqlite.py:728`; `docs/spec/contract/precheck-run/index.md:71`). A pause accepted before the Geo
  call is admitted, or before the completion, a blocked record or the authority read, becomes `failed`
  (`_orchestrator.py:1556`; `index.md:69-70`). A worker that ends before it begins leaves its lease; a
  resume within the stale interval answers `running` and nothing runs (`run.py:464`). A pause cuts
  lookups off and a resume comes before the worker looks; the Run completes without them
  (`_orchestrator.py:724`). `_schedule` may find a dying thread alive after its last look, and the Run
  then stays `running` without an owner until the next call (`WorkedRunsSettle` excludes threads past
  that look). The Host's last look does not name the lease and may pause a Run another Host just took; a
  Host whose heartbeat ended at a short pause can be replaced while it still works; a crash between seal
  and completion followed by a source change makes the new seal refused and the Run `failed`.
- *Work, Results, Read.* A Run fails over a record that another Run is computing (`WaitsForRunningWork`;
  `design-260827-0022-precheck-implementation.md:546`); absence is claimed of a path that could not be
  looked at (same document, :280); Work that has succeeded when a Result is sealed need not be shown by
  it (`SupportIsShown`; `precheck-run/index.md:177`); a rendition whose file could not be published is left
  `retryable_failure` (`rendition.py:279`), is selected all the same (`_orchestrator.py:729`), named as
  support (`_result_assembly.py:884`) and refused by the seal (`_result_sqlite.py:547`), so a passing fault
  of one file fails a Run in which nothing else happened (`CalmRunSeals` excludes it); a collection moves bytes that a
  publication has bound since its recheck to quarantine, where the Result that rests on them does not find
  them until they are restored (`BytesStay`; `design-260827-0022-precheck-implementation.md:600` "remains
  pinned for the Result lifetime", `:660` "work protected by an active publication"); a review calls an item too large that a page of its
  own could hold (`read.py:1884`; `docs/spec/contract/precheck-read/index.md:315`, `:346`).
- *Geo.* A recovery that stops early leaves a success it kept out of its result (`RecoveryRetains`;
  `service.py:510`), so the recovery after it asks the provider again for what the chain has evidence of,
  against `geo-query/index.md:139` "only missing components may be requested again". `EvidenceAskedOnce`
  therefore looks at a request's own journal and at the one result it recovers, not at the chain.
- *Dataset, views.* Two Hosts may make a Dataset in both tiers for one source, and a manifest cut off by
  a crash is not repaired (`docs/spec/contract/dataset-open/index.md`); a host whose state is unknown is
  taken for dead in one window (`design-260915-1519-plan-view-lifecycle.md:247`).

## 5. Proofs

The theorems hold for every value of the constants that satisfies the assumptions the modules name
(the ASSUMEs of `ApplyRun`, `Preparation`, `PrecheckRun`, `PlanWork`, `WorkLeases` and `ViewHost`;
`ArtifactConstants`, `ProductionConstants`, `ContextConstants`, `DatasetConstants` and `GeoConstants`
are hypotheses of the theorems about these modules, and TLC evaluates them on the instances of `runs`, `work`,
`reading` and `services`).
They ask of the sets of items, Runs, Hosts, requests or records hardly more than that the names used
for "none" are not among them, and of the bounds that they are natural numbers; `GeoCalls` also that a Human can give an
authorization at all. `Preparation` also
asks what its inputs guarantee: each item of a Result is at a place of its own, a Frozen Plan gives
its items targets, and the Receipt that is there at the start has moved its items to different places. `PROJECT.json`
lists the theorems a reader should know of. Each proof module has the same plan: type correctness,
then an inductive invariant as a conjunction of named parts, each with one lemma per action or group
of actions, then the properties as consequences.

**Apply execution** (`ApplyRun_proofs`).
- `EffectsRecoverable`: `EffectInv` adds to the properties what the worker relies on between the
  steps of an effect (`WorkerKnows`: the durable intent it works under, the route, what it has already
  seen or done on disk) and that a copy is verified before it is published. Without it the properties
  are not inductive: that `UnlinkSource` loses nothing follows only from what was seen steps before. `NothingIsLost`, `JournalIsAhead`, `CompletionIsReal` follow.
- `ControlsAgree`: `ControlInv` relates the state of the Run, the requested control, the
  authorization, the undecided losses and the worker's position; `SealInv` says that once a Receipt is
  reserved the worker only publishes it, closes and leaves, and that the completed items of the draft or
  the reserved document are those of the ledger. `EffectsAuthorized` and
  `RestIsQuiet` follow; `ReceiptTellsTruth` needs both invariants.
- `LossesDecided` from `LossInv`: one loss at a time awaits a decision, under the revision that
  discloses it, and a copy gets past its comparison only with a loss the Human accepted.
- `CompletionIsFinal`, `ReservationIsSealed`, `ClosedRunsStay` are action properties of every step.
- `RunKeepsPromise`: every step of `ApplyRun` is, under the mapping, a step of
  `MoveOriginals` or a stutter: effects map to arrivals and removals (`Arrives`, `Removes`), and what
  leaves authorization, disk, reservation and completions alone is a stutter (`Stutters`).

**Apply preparation** (`Preparation_proofs`). That a `ready` Run is whole is not inductive: the last
call of a preparation only counts findings, and relies on having been through every item, on rows that
an earlier call left when it died, and on a Plan or a Receipt that is still the one it began with. `Inv`
says of every Run what may be relied on whatever calls overlap at it (`Based`), and of the `Undisturbed`
ones that they are `Sound`, in named parts:
- the calls: there is one (`Lone`), it works only where something is left to prepare, over a Plan that is
  staged and with the object in hand that the Receipt names (`AtWork`), and in a rewind it has all
  that is pending before it (`Advanced`);
- the rows: what is verified is an object at a place (`RowsHold`), what is blocked has a finding
  (`Reported`), no two verified rows have one target (`TargetsApart`), and a rewind's rows take back
  what its Receipt says was moved, object by object (`OfItsReceipt`);
- the Run: its Receipt says what the rows of the closed Run say (`Sealed`), what is ready or beyond is
  staged, has no finding, only verified rows and no object twice (`Staged`, `Whole`), what is offered for
  authorization is what the rows say (`Offered`), only what is executed moves (`MovesInExecution`), and
  it is what the Human confirmed (`Confirmed`).

Every step is about one Run (`Alone`), so the parts of the others have to be shown only for what they
read of it: rewinds read a Receipt, which is never written again (`ReceiptsAlwaysStand`); forward
Runs exclude each other (`ForwardsExclude`) because the conflict check is in the transaction that
makes a Run ready. `AuthorityIsAlwaysEarned` follows, and `RewindsAlwaysReturn`: also a rewind that
was blocked, reopened and then prepared item by item returns the object the Receipt names to where it
was found. All of it but the types is said of `Undisturbed` Runs: where preparing calls overlap the code
keeps none of it (see Disagreements), and what is shown is that such a Run does not touch the others,
however many calls are at work at it.

**Dataset registry** (the second part of `Preparation_proofs`, about `D`, an instance of
`DatasetOpen`). That an opened Dataset is current needs more than is said of who has opened it:
`OpenInv` adds what a call relies on while others make, migrate and replace. A workspace it has found
stays (`Founded`), and one whose stores it verifies has a manifest that is not the old one any more;
a call that began with a Dataset on the volume stays with it (`Faithful`). `Keeps` is what every step
of every Host does to every workspace, a crash in a migration included: it keeps its Dataset, and what is
new in it stays new. `CallStepKeeps` and `ChangeKeeps` say what suffices for a step of one call to keep
all this. `OpenedIsAlwaysCurrent`, `PrecedenceAlwaysHolds` and `PublishedAlwaysStays` follow; together
they are what `DatasetIsCurrentAndKept` says.

**PreCheck Run** (`PrecheckRun_proofs`).
- `EffectsAreConfirmed` from `Confirmed`: only a disclosure the Human granted carries the decision to
  proceed, and a request about to be journalled is one that was granted to that Run.
- `ExecutionsAreSingle` from `GeoAlone` (the Geo production of a Run has one owner),
  `HeartbeatsAreSingle` from `LeaseHeld` (a worker that shows signs of life is the owner the lease
  names, and the lease is fresh).
- `OnlyReviewReopens`: an ended Run is left by no step but the one that opens a scope review (see
  Disagreements).
- `ResultsAreDecided`, `MediaIsInScope`, `ReuseWasAccepted` from `Whole`, the conjunction of
  `SealsInventory` (nobody gets past the scope review of a Run without an inventory, and
  what a Run is completed with was sealed) and `DecidedFirst` (a
  worker in the media phase or later is under a scope decided for the accounted inventory). The last
  part is claimed of a single Host: with two, a worker that lost its lease may scan again while another
  is at the media of the earlier inventory, as the code allows.

**Plan Work** (`PlanWork_proofs`).
- `SealIsNotOvertaken` from `SealInv`: what each invocation under way still knows (`CallsFit`), a
  reserved Work is open at the reserved version (`ReservationsFit`), an untouched Plan file is that of a
  reserved or sealed Work (`ArtifactsFit`), and nothing is accepted or recorded of what does not exist
  yet (`PastFits`).
- `UpdatesAnswerTruly` is an action property from the same invariant; `RequestsActOnce` from
  `CountInv`, which counts revisions against the receipts that made them; `WorkKeepsRegister` is the
  refinement of `PlanRegister`.

**Work store** (`WorkLeases_proofs`). `Correct` is the inductive invariant, whose core `Good` says of
every record that it is younger than its inputs, that its attempts account for its status (`Told`),
that its inputs stand (`Rests`) and that what it waits for can come (`Waits`). `ReachedIs` says what
the recursive walk over the dependencies computes, as an equivalence per record, by the least
counterexample in the order of creation (`LeastNumber`, `WalkEnds`). `EndKeeps` is the lemma all
transactions share: a set of records ends, what is downstream is blocked or ended with it, and the
rest keeps its story. `InputsAlwaysHold`, `WaitingCanEnd`, `HistoryAlwaysAgrees` follow.
`DescriptionsAreUnique` rests on `StepKeeps`: no transaction but a demand makes a record, none
changes what a record describes, and what is invalidated stays so.

**Producer passes** (`Production_proofs`). The module instantiates `WorkLeases_proofs` as the passes
instantiate `WorkLeases`, and `SameTables`, `SameCalls` and `SameStore` identify the two. `Inv` adds
to the invariant of the store that every pass is `Sound`: what it has taken are requests of its Run,
each of the kind it is taken for, it is in a call about a request of the kind it is at, and when it
computes it goes by a lease of that record. `PassStepKeeps` says what suffices for a step to keep
this, and the steps of a call, the producers, the seal and the stop are brought under it one by one.
What an exception leaves behind
(`Breaks`) is a step of the store like the others. That a demand is one the store accepts needs `DescriptionsAreUnique`: otherwise a bundle could be
made from two metadata records. `ImplementsWorks` is the refinement, so what is proved of
`WorkLeases` holds of the store the passes share; `SealedIsConsistent` follows with
`OnlySealSeals` and `InputsAlwaysHold`. `FailsOnlyDisturbed` says that a Run is failed (not `broken`) only if
another Run prepares one of its kinds, a pass was cut off, a lease ran out, a record was invalidated,
or a record of its own waits for a retry. It rests on `CalmInv`: as long as nothing was cut off, ran
out or was invalidated (`Quiet`), every Run whose kinds are its own is `Followed`: each record of its
kinds is one it has taken or is in a call about, taken as it ended; it holds the lease of what it
computes; and it has failed only over a record to be retried. A producer's step is described once, by
what it does to the records of its kinds (`OwnStepKeeps`) and to those of the others
(`OthersFollowed`).

**Artifact store** (the second part of `PrecheckRun_proofs`, about `A`, an instance of
`ArtifactStore` with the same Runs). `StoreInv` is the conjunction of `StoreTypes`, `InTable`, `AtRest`,
`OneHeld`, `AboutContent`, `Linked`, `CountedAreSafe`, `ResultsInPlace` and `ResultsKeepTheirOwn`. The
property itself, that bytes somebody counts on survive, is not inductive: between placing bytes and
binding them a pass counts on a file nobody's row names yet, and a collection that has deleted its
rows is still to move its files. So `Counted` includes the content a pass has placed and will bind,
and `Safe` says that it is good in place, in quarantine or damaged. `RowsFade` and `RowsMove` describe
once what any step does to the rows, and the parts of `StoreInv` are shown to survive that description. `BytesAlwaysSurvive`,
`ResultsAlwaysKeepTheirOwn` and the action property `ReuseSeesTheBytes` follow.

**Geo capability** (`GeoCalls_proofs`). That the ceiling holds is not inductive: what was really sent
is nowhere in the journal, and the reservation that covers it may be lowered. `IInv` keeps the books
of every chain of recoveries:
- `Families`: a recovery is of a request that was concluded, belongs to its root, and a chain has one
  last request (`Linked`, `Tip`), since a result has one recovery;
- `Money`: what was sent is at most what the chain has reserved or used, and that is at most the ceiling
  (`Funds`); the open request of a chain, or its last result, counts all of it, and if it calls that
  exact it is what was sent (`Books`);
- `Fits` says of every invocation what it relies on between its steps: before its admission that the
  result it looked at is still that (`FitsNew`), at work that it knows all evidence (`FitsWork`), between
  calls that it has counted everything (`FitsCount`), and during a call that the last reservation, the
  only open one, covers what is being sent (`FitsLast`);
- `Evidences`: whatever is asked is asked where the recovered result had no success, and a success is the
  last row about its coordinate.

Sums are sizes of sets of units (`Reserved`), so `AppendedCounts` and `LoweredCounts` say once how a
reservation and its record change the usage of a chain; nothing is assumed about the number of rows. `CeilingAlwaysHolds`,
`ResultsAccount` and `EvidenceOnce` follow; together they are what `LookupsAreAccountedFor` says
(`LookupsStayAccountedFor`).

**Plan view host** (`ViewHost_proofs`). `OneHostAtATime` and `StoppedIsTrue` from `Inv`: the lock of
`process.lock` is held exactly by a process that is beyond it and not gone (`LockIsHeld`), header and
address are the owner's own while it serves (`OwnFiles`), and a header names only a process that has
had the lock (`HeaderIsEarned`).

The second part of the module is about the process from inside, `V`, an instance of `ViewContexts`, for
any number of threads, Works and places. That nobody waits for nothing is not inductive as it stands:
what frees room is also the sweep, which tells nobody. `ContextInv` says what a waiting thread really
waits for: its Work is being read or as many Works as there are places are (`Woken`), and only the end
of a reader changes that. That such a thread then could not have fitted anyway is `AvailableFits`: when
fewer Works are in use than there are places, some context is not in use and one of those was read
before the others (`SomeOldest`, by the least number of Works read before it), because `last_read`
orders what it has (`ReadInOrder`) and has all that is not in use (`TableFits`). `RowFits` is what a
request relies on while others sweep, evict and fail, `OneReader` ties the Works in use to their
readers, and `Counted` counts pins and waiting places. `RequestStepKeeps` says once what suffices for a
step of one request to keep all this, `HostStepKeeps` for a step of none.
`ContextsStayBounded`, `PinsStayReal`, `NobodyWaitsForNothing`, `ExitStaysHonest` and the action
property `AnswersAreOfTheirRevision` follow; together they are what `ReadersKeepTheirContext` says.

Not proved, and left to TLC:
- liveness (`CancelCloses`, `Settles`, `WorkedRunsSettle`, `CancelledIsLeft`): fairness and ENABLED are
  out of the prover's reach;
- `ReusedScopesCount` as the run states it: the theorem `ReuseWasAccepted` has its single-Host form;
- the operators over data (`Grouping`, `ResultPages`, `Admission` with their sums and folds): induction
  over data is out of reach;
- `PlanCandidate`, `Accounting`, `ResultAssembly` and `ResultRead`, the other parts of `services` and
  `reading`: their invariants are checked, not proved;
- `TablesAgree`, `ProductionIsSound`, `BytesAreKept`, `ReadersKeepTheirContext`,
  `DatasetIsCurrentAndKept` and the `LookupsAreAccountedFor` of `MCServices` are about one part of a run
  or join several; what they say of `WorkLeases`, `Production`, `ArtifactStore`, `ViewContexts`,
  `DatasetOpen` and `GeoCalls` is proved as named above;
- what the three violated runs show.

## 6. Limits

- SQLite transactions are taken to be atomic and durable, and at most one writer at a time; WAL and
  busy timeouts are not modelled.
- Of the filesystem: link and rename are atomic and exclusive, a copy is an object that is whole or
  partial, unlink removes one name. Directories, permissions, ACLs and fsync orders are left out.
- Content is a name: decoding, metadata extraction, embeddings, similarity and the wording of
  documents are not modelled; identity of content is equality of names, so digests do not collide.
- The parts not modelled (§1) are I/O, transport, parsing or configuration; the providers of locations
  appear in `GeoCalls` through their answers only.
- Counters that the code lets grow (revisions, executions, crashes, drifts, deaths, damages) are
  bounded in the guards; the proofs hold for every value of the bounds.
