----------------------------- MODULE Accounting -----------------------------
(***************************************************************************)
(* Source accounting: the passes in which the Working Runs of one Dataset  *)
(* enumerate the source tree, and what they make of it in the store: for   *)
(* each path its revision (source_state), for each Run its inventory       *)
(* (run_items) and the paths it found to be gone (run_removals).           *)
(*                                                                         *)
(* A pass discovers lazily and commits in batches; between two steps the   *)
(* files change, the volume is unplugged, the process dies, or the Run is  *)
(* given up and another started while the pass is still at work.           *)
(* Paths are numbered in the order of discovery; the paths of Dir, the     *)
(* last ones, lie in a directory below the root.                           *)
(***************************************************************************)
EXTENDS Integers, FiniteSets, SequencesExt

CONSTANTS
    Runs,         \* Working Runs of the Dataset, in the order they start: 1..n
    NumPaths,     \* paths a source tree may have
    Dir,          \* those in the directory below the root
    Contents,     \* what a file may hold, as its fingerprint and stat tell
    Volumes,      \* volumes that may be attached at the source root
    BatchSize,    \* discovery events in a commit
    MaxPasses,    \* bound on the passes of a Run
    MaxMishaps,   \* bound on edits, changes of what is attached, failed reads, crashes
    Absent        \* no file; also: nothing is attached

Paths == 1..NumPaths
DirIssue == 0                  \* the directory could not be read
RootIssue == NumPaths + 1      \* the root could not

VARIABLES
    attached,     \* the volume at the source root, or Absent
    files,        \* of each volume: the content of each path
    run,          \* working_runs: status, generation, volume and reuse domain;
                  \* whether no other Run's pass was ever at work beside it
    source,       \* source_state of each path
    items,        \* run_items of each Run
    removed,      \* run_removals of each Run
    pass,         \* the pass of each Run: where it is, its pending batch, what it could
                  \* not look at
    held,         \* what each path held on the Run's volume since its pass began
    mishaps       \* so far

vars == <<attached, files, run, source, items, removed, pass, held, mishaps>>
storeVars == <<source, items, removed>>

Unfinished == {"running", "paused", "blocked"}
Closed == {"ended", "failed"}          \* the public Run of it is over
Started == {r \in Runs : run[r].status # "none"}
NoRow == [gen |-> 0, rev |-> 0, of |-> Absent, domain |-> 0, how |-> "none"]
NoSource == [rev |-> 0, of |-> Absent, domain |-> 0, present |-> FALSE, by |-> 0]
Idle == [at |-> 0, batch |-> <<>>, blocked |-> FALSE, finishing |-> FALSE, gaps |-> {}]

Unseen == [p \in Paths |-> {}]

Working(r) == pass[r].at # 0
SeesAt(p) == IF attached = Absent THEN Absent ELSE files[attached][p]
RootIsThere(r) == attached = run[r].volume
Domains == {run[r].domain : r \in Runs}
NewDomain == 1 + CHOOSE d \in Domains : \A other \in Domains : other <= d

Init ==
    /\ attached \in Volumes
    /\ \E k \in Contents : files = [v \in Volumes |-> [p \in Paths |-> k]]
    /\ run = [r \in Runs |-> [status |-> "none", gen |-> 0, volume |-> Absent, domain |-> 0,
                          alone |-> TRUE]]
    /\ source = [p \in Paths |-> NoSource]
    /\ items = [r \in Runs |-> [p \in Paths |-> NoRow]]
    /\ removed = [r \in Runs |-> {}]
    /\ pass = [r \in Runs |-> Idle]
    /\ held = [r \in Runs |-> Unseen]
    /\ mishaps = 0

-----------------------------------------------------------------------------
(* Runs and what they are attached to.                                     *)

Latest == CHOOSE r \in Started : \A s \in Started : s <= r

\* start_or_resume_run of a Dataset without an unfinished Run, public or not: a root
\* that is not recognized needs the operator's word and a reuse domain of its own.
StartRun(r) ==
    /\ run[r].status = "none" /\ \A s \in Runs : s < r => s \in Started
    /\ \A s \in Started : run[s].status \in Closed
    /\ LET known == Started # {} /\ (attached = Absent \/ attached = run[Latest].volume)
       IN run' = [run EXCEPT ![r] =
                  [status |-> "running", gen |-> 0,
                   volume |-> IF known THEN run[Latest].volume ELSE attached,
                   domain |-> IF known THEN run[Latest].domain ELSE NewDomain,
                   alone |-> TRUE]]
    /\ attached # Absent \/ Started # {}
    /\ UNCHANGED <<attached, files, storeVars, pass, held, mishaps>>

\* Resuming a Run over another root, confirmed by the operator.
RebindRun(r) ==
    /\ run[r].status \in Unfinished /\ ~Working(r)
    /\ attached # Absent /\ ~RootIsThere(r)
    /\ run' = [run EXCEPT ![r].volume = attached, ![r].domain = NewDomain,
                          ![r].status = "paused"]
    /\ UNCHANGED <<attached, files, storeVars, pass, held, mishaps>>

\* The public Run of r ends; a pass of r may still be at work.
EndRun(r) ==
    /\ run[r].status \in Unfinished \cup {"completed"}
    /\ run' = [run EXCEPT ![r].status = "ended"]
    /\ UNCHANGED <<attached, files, storeVars, pass, held, mishaps>>

-----------------------------------------------------------------------------
(* A pass.                                                                 *)

\* process_run: probe the root, then block the Run or open a new generation.
\* A completed Run is scanned again when its scope has been decided.
BeginPass(r) ==
    /\ run[r].status \in Unfinished \cup {"completed"} /\ ~Working(r)
    /\ run[r].gen < MaxPasses
    /\ IF RootIsThere(r)
       THEN /\ LET others == {s \in Runs \ {r} : Working(s)}
               IN run' = [s \in Runs |->
                    IF s = r THEN [run[r] EXCEPT !.status = "running", !.gen = @ + 1,
                                                 !.alone = @ /\ others = {}]
                    ELSE [run[s] EXCEPT !.alone = @ /\ s \notin others]]
            /\ pass' = [pass EXCEPT ![r] = [Idle EXCEPT !.at = 1]]
            /\ held' = [held EXCEPT ![r] = [p \in Paths |-> {files[attached][p]}]]
       ELSE run' = [run EXCEPT ![r].status = "blocked"] /\ UNCHANGED <<pass, held>>
    /\ UNCHANGED <<attached, files, storeVars, mishaps>>

Discovering(r) ==
    Working(r) /\ pass[r].at <= NumPaths /\ Len(pass[r].batch) < BatchSize

\* The next path is listed, if it is there now.
DiscoverPath(r) ==
    /\ Discovering(r)
    /\ LET p == pass[r].at
       IN pass' = [pass EXCEPT ![r].at = p + 1,
                               ![r].batch = IF SeesAt(p) = Absent THEN @ ELSE Append(@, p)]
    /\ UNCHANGED <<attached, files, run, storeVars, held, mishaps>>

Mishap == mishaps < MaxMishaps /\ mishaps' = mishaps + 1

\* A read of the tree fails, of course or by accident.
ReadFails == IF attached = Absent THEN UNCHANGED mishaps ELSE Mishap

\* The directory cannot be read (to its end); the rest of the tree can.
DirectoryFails(r) ==
    /\ Discovering(r) /\ pass[r].at \in Dir /\ ReadFails
    /\ pass' = [pass EXCEPT ![r].batch = Append(@, DirIssue), ![r].at = NumPaths + 1,
                            ![r].gaps = @ \cup {"directory"}]
    /\ UNCHANGED <<attached, files, run, storeVars, held>>

\* The root cannot be read: no absence may be concluded from this pass.
RootFails(r) ==
    /\ Discovering(r) /\ pass[r].at \notin Dir /\ ReadFails
    /\ pass' = [pass EXCEPT ![r].batch = Append(@, RootIssue), ![r].at = NumPaths + 1,
                            ![r].blocked = TRUE]
    /\ UNCHANGED <<attached, files, run, storeVars, held>>

\* _can_reuse_current_observation.
SameObservation(r, previous, k) == previous.of = k /\ previous.domain = run[r].domain

NextRevision(previous) == previous.rev + 1

\* _write_item: what the observation of p is in the light of source_state.  A pass
\* that sees again what this Run has recorded keeps the record of the Run.
WriteItem(r, db, p, unreadable) ==
    LET previous == db.source[p]
        row == db.items[p]
        k == SeesAt(p)
        same == previous.present /\ SameObservation(r, previous, k)
        mine == previous.by = r /\ row # NoRow
        how == IF same THEN IF mine THEN row.how ELSE "reused"
               ELSE IF previous.present THEN "changed" ELSE "new"
        rev == IF same THEN IF mine THEN row.rev ELSE previous.rev ELSE NextRevision(previous)
    IN IF unreadable \/ k = Absent
       THEN [db EXCEPT !.items[p] = [NoRow EXCEPT !.gen = run[r].gen, !.domain = run[r].domain,
                                                 !.how = "error"]]
       ELSE [source |-> [db.source EXCEPT ![p] = [rev |-> rev, of |-> k, domain |-> run[r].domain,
                                                  present |-> TRUE, by |-> r]],
             items |-> [db.items EXCEPT ![p] = [gen |-> run[r].gen, rev |-> rev, of |-> k,
                                                domain |-> run[r].domain, how |-> how]]]

\* Variant: paths of an unreadable directory are left to the reconciliation.
CarryNothing(r, db) == db

\* What was known below an unreadable directory stays in the inventory, in error.
CarryForward(r, db) ==
    LET known == {p \in Dir : db.source[p].present}
        Kept(p) == IF db.items[p] # NoRow THEN db.items[p]
                   ELSE [NoRow EXCEPT !.rev = db.source[p].rev, !.of = db.source[p].of,
                                      !.domain = db.source[p].domain]
    IN [db EXCEPT !.items = [p \in Paths |->
            IF p \in known THEN [Kept(p) EXCEPT !.gen = run[r].gen, !.how = "error"]
            ELSE db.items[p]]]

WriteEvent(r, db, event, unreadable) ==
    CASE event = DirIssue -> CarryForward(r, db)
      [] event = RootIssue -> db
      [] OTHER -> WriteItem(r, db, event, event \in unreadable)

\* source_state.revision is NOT NULL.
Refused(db) == \E p \in Paths : db.source[p].present /\ db.source[p].rev = 0

EndsPass(r) == pass' = [pass EXCEPT ![r] = Idle] /\ held' = [held EXCEPT ![r] = Unseen]

\* An exception ends the pass and, with it, the public Run.
Raise(r) ==
    /\ EndsPass(r)
    /\ run' = [run EXCEPT ![r].status = "failed"]
    /\ UNCHANGED storeVars

\* set_status is not conditional on the public Run.
Leave(r, status) ==
    /\ EndsPass(r)
    /\ run' = IF run[r].status # "running" THEN run ELSE [run EXCEPT ![r].status = status]

\* commit_batch, one transaction, and the look at the controls that follows it.
CommitBatch(r, unreadable) ==
    LET batch == pass[r].batch
        db == FoldLeft(LAMBDA d, event : WriteEvent(r, d, event, unreadable),
                       [source |-> source, items |-> items[r]], batch)
    IN
    /\ Working(r) /\ ~pass[r].finishing /\ batch # <<>>
    /\ Len(batch) = BatchSize \/ pass[r].at > NumPaths
    /\ unreadable \subseteq {p \in ToSet(batch) \cap Paths : SeesAt(p) # Absent}
    /\ IF unreadable = {} THEN UNCHANGED mishaps ELSE Mishap
    /\ \/ Refused(db) /\ Raise(r)
       \/ /\ ~Refused(db)
          /\ source' = db.source
          /\ items' = [items EXCEPT ![r] = db.items]
          /\ UNCHANGED removed
          /\ \/ /\ run[r].status = "running"
                /\ pass' = [pass EXCEPT ![r].batch = <<>>]
                /\ UNCHANGED <<run, held>>
             \/ Leave(r, "paused")
    /\ UNCHANGED <<attached, files>>

\* The last look at the controls, after everything is committed.
EndOfPass(r) ==
    /\ Working(r) /\ ~pass[r].finishing
    /\ pass[r].at > NumPaths /\ pass[r].batch = <<>>
    /\ \/ Leave(r, "paused")
       \/ pass[r].blocked /\ Leave(r, "blocked")
       \/ /\ ~pass[r].blocked /\ run[r].status = "running"
          /\ pass' = [pass EXCEPT ![r].finishing = TRUE]
          /\ UNCHANGED <<run, held>>
    /\ UNCHANGED <<attached, files, storeVars, mishaps>>

CurrentRows(r) == [p \in Paths |-> IF items[r][p].gen = run[r].gen THEN items[r][p] ELSE NoRow]

\* finish_run: what is present in source_state and was not seen by this pass is
\* recorded as removed; a second removal of a path by a Run breaks its key.
FinishRun(r) ==
    LET gone == {p \in Paths : source[p].present /\ items[r][p].gen # run[r].gen}
    IN
    /\ pass[r].finishing
    /\ IF gone \cap removed[r] # {} THEN Raise(r)
       ELSE /\ source' = [p \in Paths |-> IF p \in gone
                                          THEN [source[p] EXCEPT !.present = FALSE, !.by = r]
                                          ELSE source[p]]
            /\ removed' = [removed EXCEPT ![r] = @ \cup gone]
            /\ items' = [items EXCEPT ![r] = CurrentRows(r)]
            /\ Leave(r, "completed")
    /\ UNCHANGED <<attached, files, mishaps>>

\* The process dies with every pass in it.
Crash ==
    /\ Mishap /\ \E r \in Runs : Working(r)
    /\ pass' = [r \in Runs |-> Idle]
    /\ held' = [r \in Runs |-> Unseen]
    /\ UNCHANGED <<attached, files, run, storeVars>>

-----------------------------------------------------------------------------
(* The source tree.                                                        *)

Edit(v, p, k) ==
    /\ Mishap /\ files[v][p] # k
    /\ files' = [files EXCEPT ![v][p] = k]
    /\ held' = [r \in Runs |-> IF Working(r) /\ run[r].volume = v 
                               THEN [held[r] EXCEPT ![p] = @ \cup {k}] ELSE held[r]]
    /\ UNCHANGED <<attached, run, storeVars, pass>>

\* A volume goes at any time; another one comes only while no pass is at work.
Plug(v) ==
    /\ Mishap /\ attached # v
    /\ v = Absent \/ \A r \in Runs : ~Working(r)
    /\ attached' = v
    /\ pass' = [r \in Runs |-> IF Working(r) 
                               THEN [pass[r] EXCEPT !.gaps = @ \cup {"volume"}] ELSE pass[r]]
    /\ UNCHANGED <<files, run, storeVars, held>>

Next ==
    \/ Crash
    \/ \E r \in Runs :
          \/ StartRun(r) \/ RebindRun(r) \/ EndRun(r)
          \/ BeginPass(r) \/ DiscoverPath(r) \/ DirectoryFails(r) \/ RootFails(r)
          \/ \E unreadable \in SUBSET Paths : CommitBatch(r, unreadable)
          \/ EndOfPass(r) \/ FinishRun(r)
    \/ \E v \in Volumes, p \in Paths, k \in Contents \cup {Absent} : Edit(v, p, k)
    \/ \E v \in Volumes \cup {Absent} : Plug(v)

Spec == Init /\ [][Next]_vars

-----------------------------------------------------------------------------
(* What must hold.                                                         *)

TypeOK ==
    /\ attached \in Volumes \cup {Absent}
    /\ \A p \in Paths : source[p].present => source[p].rev > 0
    /\ \A r \in Runs : run[r].status \in Unfinished \cup Closed \cup {"none", "completed"}

\* A revision of a path means one observation for good: whatever passes, Runs,
\* disappearances and rebindings lie between, two inventories that give a path
\* the same revision saw the same content in the same reuse domain.
RevisionMeansOneThing ==
    \A r, s \in Runs, p \in Paths :
        items[r][p].rev # 0 /\ items[r][p].rev = items[s][p].rev =>
            /\ items[r][p].of = items[s][p].of
            /\ items[r][p].domain = items[s][p].domain

Completes(r) == pass[r].finishing /\ ~Working(r)' /\ run'[r].status = "completed"
\* What a completed Run accounts for was there: each content was on its volume at
\* some time of the last pass; what it leaves out was not there at some time of
\* it, or was never seen before and could not be looked at (or the volume left
\* during the pass, see AbsenceIsReal).  And its rows are the Dataset's present sources,
\* unless the pass of a Run given up was still at work beside it.
InventoryIsTrueStep ==
    \A r \in Runs : Completes(r) =>
          \A p \in Paths :
              LET row == items'[r][p]
              IN /\ row.how \notin {"none", "error"} => row.of \in held[r][p]
                 /\ row = NoRow => \/ Absent \in held[r][p] \/ "volume" \in pass[r].gaps
                                   \/ "directory" \in pass[r].gaps 
                 /\ run[r].alone =>
                       /\ row.rev # 0 => source'[p].present /\ source'[p].rev = row.rev
                       /\ row = NoRow => ~source'[p].present
                       /\ row = NoRow /\ source[p].present =>
                             Absent \in held[r][p] \/ "volume" \in pass[r].gaps

InventoryIsTrue == [][InventoryIsTrueStep]_vars

-----------------------------------------------------------------------------
(* What the documents of the repository say, and the code does not do.     *)

\* Entering an unfinished Run again reuses its committed observations.
ReentryReuses == \A r \in Runs : run[r].status # "failed"

\* A disconnected volume is never taken for a deletion.
AbsenceIsReal ==
    [][\A r \in Runs : \A p \in removed'[r] \ removed[r] : Absent \in held[r][p]]_vars

=============================================================================
