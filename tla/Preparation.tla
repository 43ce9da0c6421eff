---------------------------- MODULE Preparation -----------------------------
(***************************************************************************)
(* Preparing Apply Runs (apply/preparation.py, apply/tool.py). A forward   *)
(* preparation is a call of many transactions with reads of the media      *)
(* volumes in between; it may die anywhere, and a repeated request or a    *)
(* resume goes on from the rows. A rewind is prepared from the Receipt of  *)
(* a closed Run in one transaction. Meanwhile the user's volumes change,   *)
(* other Runs are prepared, and this one may be cancelled. Execution       *)
(* (ApplyRun) is here a move of one prepared item at a time.               *)
(*                                                                         *)
(* Nothing keeps two calls from preparing one Run, and what a call writes  *)
(* at last it writes whatever has become of the Run: overlapped has the    *)
(* Runs at which a call began while another was at work.                   *)
(***************************************************************************)
EXTENDS Naturals, FiniteSets

CONSTANTS
    Runs, Requests,
    Callers,     \* who may be preparing a Run at one time
    Earlier,     \* the Run a Receipt is there from at the start
    Items,       \* source items, numbered in the Plans' order
    Wanted,      \* the items each request's Frozen Plan materializes
    Source,      \* the place each item was found at, and
    Target,      \* the place each request's Plan gives it, up to case and normal form
    Places,
    Moved,       \* where the earlier Run has moved items to
    MaxNode,     \* bound: filesystem objects
    MaxDrift,    \* bound: changes the user makes
    None

VARIABLES
    at,       \* the object at each place
    good,     \* the objects whose bytes are the ones PreCheck saw
    mounted,  \* whether the source root's path leads to the directory it did
    run,      \* runs, with the tables run_items and findings
    call,     \* the preparing calls at work at each Run
    overlapped,  \* ghost: the Runs two of them were at work at, and rewinds of these
    authorized,  \* what the Human confirmed
    drift     \* how often the user changed something

vars == <<at, good, mounted, run, call, overlapped, authorized, drift>>

Nodes == 1..MaxNode

\* A Result has each of its items at a place of its own, and each is an object of
\* its own; of a Run's targets no two are one (unique_materialized_target).
ASSUME PreparationConstants ==
    /\ MaxNode \in Nat /\ MaxDrift \in Nat /\ Items \subseteq Nodes
    /\ Earlier \in Runs
    /\ Source \in [Items -> Places]
    /\ \A i, j \in Items : i # j => Source[i] # Source[j]
    /\ Wanted \in [Requests -> SUBSET Items]
    /\ \A q \in Requests : \A i \in Wanted[q] : Target[q][i] \in Places
    /\ DOMAIN Moved \subseteq Items
    /\ \A i \in DOMAIN Moved : Moved[i] \in Places
    /\ \A i, j \in DOMAIN Moved : i # j => Moved[i] # Moved[j]
    /\ None \notin Nodes /\ None \notin Places /\ None \notin Runs /\ None \notin Requests

Sources == {Source[i] : i \in Items}

States == {"unused", "preparing", "ready", "blocked", "executing", "closed", "cancelled"}
Item == [prep : {"pending", "verified", "blocked"}, node : Nodes \cup {None},
         from : Places \cup {None}, to : Places \cup {None}, done : BOOLEAN]

\* The value that stands for nothing is not what a Receipt says.
ASSUME NoneIsNothing == None \notin [Items -> Item]

Codes == {"root", "conflict", "alias"} \X {0} \cup {"item", "target", "missing"} \X Items
Steps == {"reopen", "resume", "bindings", "keep", "stage", "items", "record", "finalize"}

\* The hash _prepared_identity takes stands for what it is taken of.
Identity(r) == [items |-> r.items, findings |-> r.findings]

NoItem == [prep |-> "pending", node |-> None, from |-> None, to |-> None, done |-> FALSE]
NoRun == [state |-> "unused", request |-> None, rewinds |-> None,
          scope |-> {}, items |-> [i \in Items |-> NoItem], findings |-> {},
          identity |-> None, receipt |-> None]

TypeOK ==
    /\ at \in [Places -> Nodes \cup {None}]
    /\ good \subseteq Nodes
    /\ mounted \in BOOLEAN
    /\ \A r \in Runs :
          /\ run[r].state \in States
          /\ run[r].request \in Requests \cup {None}
          /\ run[r].rewinds \in Runs \cup {None}
          /\ run[r].scope \subseteq Items
          /\ run[r].items \in [Items -> Item]
          /\ run[r].findings \subseteq Codes
          /\ run[r].receipt \in [Items -> Item] \cup {None}
          /\ \A c \in Callers : call[r][c] = None \/
                /\ call[r][c].step \in Steps
                /\ call[r][c].after \in {0} \cup Items
                /\ call[r][c].todo \subseteq Items
                /\ call[r][c].saw \in Nodes \cup {None}
                /\ call[r][c].problem \in {"none", "target", "item"}
    /\ overlapped \subseteq Runs
    /\ drift \in 0..MaxDrift

EarlierItems ==
    [i \in Items |->
        IF i \in DOMAIN Moved
        THEN [prep |-> "verified", node |-> i, from |-> Source[i], to |-> Moved[i], done |-> TRUE]
        ELSE NoItem]

Init ==
    /\ at = [p \in Places |->
                LET here == {i \in Items : p = IF i \in DOMAIN Moved THEN Moved[i] ELSE Source[i]}
                IN  IF here = {} THEN None ELSE CHOOSE i \in here : TRUE]
    /\ good = Items
    /\ mounted = TRUE
    /\ run = [r \in Runs |->
                IF r # Earlier THEN NoRun
                ELSE [NoRun EXCEPT !.state = "closed", !.scope = DOMAIN Moved,
                                   !.items = EarlierItems, !.receipt = EarlierItems]]
    /\ call = [r \in Runs |-> [c \in Callers |-> None]]
    /\ overlapped = {}
    /\ authorized = [r \in Runs |-> None]
    /\ drift = 0

-----------------------------------------------------------------------------
(* The volumes.                                                            *)

\* What is found at a place. Nothing of the sources is found in another directory.
Found(p) == IF p \in Sources /\ ~mounted THEN None ELSE at[p]

\* Another object comes to a place: the same bytes again, or any others.
Replace(p, n, same) ==
    /\ drift < MaxDrift
    /\ at[p] # None \/ ~same
    /\ n = 1 + Cardinality({m \in Nodes : \E q \in Places : at[q] = m} \cup good \cup Items)
    /\ n \in Nodes
    /\ at' = [at EXCEPT ![p] = n]
    /\ good' = IF same THEN good \cup {n} ELSE good \ {n}
    /\ drift' = drift + 1
    /\ UNCHANGED <<mounted, run, call, overlapped, authorized>>

\* A second name for an object.
Link(p, q) ==
    /\ drift < MaxDrift
    /\ q \in Sources
    /\ at[p] # None /\ at[p] # at[q]
    /\ at' = [at EXCEPT ![q] = at[p]]
    /\ drift' = drift + 1
    /\ UNCHANGED <<good, mounted, run, call, overlapped, authorized>>

Remove(p) ==
    /\ drift < MaxDrift
    /\ at[p] # None
    /\ at' = [at EXCEPT ![p] = None]
    /\ drift' = drift + 1
    /\ UNCHANGED <<good, mounted, run, call, overlapped, authorized>>

Remount ==
    /\ drift < MaxDrift
    /\ mounted' = ~mounted
    /\ drift' = drift + 1
    /\ UNCHANGED <<at, good, run, call, overlapped, authorized>>

-----------------------------------------------------------------------------
(* A request for a forward Run.                                            *)

ForRequest(q) == {r \in Runs : run[r].request = q}

At(r, c, step) == call[r][c] # None /\ call[r][c].step = step

Begin(step) == [step |-> step, after |-> 0, todo |-> {}, saw |-> None, problem |-> "none"]
Goes(r, c, step) == call' = [call EXCEPT ![r][c] = Begin(step)]
Ends(r, c) == call' = [call EXCEPT ![r][c] = None]

\* A call begins at a Run, whether or not another is at work there.
Joins(r, c, step) ==
    /\ call[r][c] = None
    /\ Goes(r, c, step)
    /\ overlapped' = IF \E d \in Callers : call[r][d] # None THEN overlapped \cup {r} ELSE overlapped

\* _begin_run creates the Run. Without the root there is none, and a repeat that
\* sees another root is another request.
CreateRun(q, c) ==
    \E r \in Runs :
        /\ mounted
        /\ ForRequest(q) = {} /\ run[r].state = "unused"
        /\ run' = [run EXCEPT ![r].state = "preparing", ![r].request = q]
        /\ Goes(r, c, "stage")
        /\ UNCHANGED <<at, good, mounted, overlapped, authorized, drift>>

\* A repeated request finds its Run, and prepares it too.
RepeatRequest(r, c) ==
    /\ run[r].request # None /\ mounted
    /\ \/ run[r].state = "preparing" /\ Joins(r, c, "stage")
       \/ run[r].state = "blocked" /\ Joins(r, c, "reopen")
    /\ UNCHANGED <<at, good, mounted, run, authorized, drift>>

\* The Tool's resume of a Run it sees blocked.
Resume(r, c) ==
    /\ run[r].state = "blocked" /\ Joins(r, c, "resume")
    /\ UNCHANGED <<at, good, mounted, run, authorized, drift>>

\* _reopen_blocked_preparation: what was found is forgotten, not what was verified.
Reopen(r, c) ==
    /\ At(r, c, "reopen") \/ At(r, c, "resume")
    /\ run' = [run EXCEPT
          ![r].state = "preparing", ![r].findings = {}, ![r].identity = None,
          ![r].items = [i \in Items |->
              IF run[r].items[i].prep = "blocked"
              THEN [run[r].items[i] EXCEPT !.prep = "pending"] ELSE run[r].items[i]]]
    /\ Goes(r, c, IF call[r][c].step = "resume" THEN "bindings" ELSE "stage")
    /\ UNCHANGED <<at, good, mounted, overlapped, authorized, drift>>

\* A root that is not the one it was is a finding.
CheckBindings(r, c) ==
    /\ At(r, c, "bindings")
    /\ IF run[r].rewinds = None /\ ~mounted
       THEN run' = [run EXCEPT ![r].findings = @ \cup {<<"root", 0>>}] /\ Goes(r, c, "keep")
       ELSE run' = run /\ Goes(r, c, "items")
    /\ UNCHANGED <<at, good, mounted, overlapped, authorized, drift>>

\* _keep_preparation_blocked
KeepBlocked(r, c) ==
    /\ At(r, c, "keep")
    /\ run' = [run EXCEPT ![r].state = "blocked"]
    /\ Ends(r, c)
    /\ UNCHANGED <<at, good, mounted, overlapped, authorized, drift>>

\* _stage_plan: every item of the Plan, or none. Who stages second does nothing.
Stage(r, c) ==
    /\ At(r, c, "stage")
    /\ run' = IF run[r].rewinds = None THEN [run EXCEPT ![r].scope = Wanted[run[r].request]]
              ELSE run
    /\ Goes(r, c, "items")
    /\ UNCHANGED <<at, good, mounted, overlapped, authorized, drift>>

-----------------------------------------------------------------------------
(* The items, in their order: a look at row and volumes, then a            *)
(* transaction.                                                            *)

Way(r, i) ==
    IF run[r].rewinds = None THEN [from |-> Source[i], to |-> Target[run[r].request][i]]
    ELSE LET it == run[run[r].rewinds].receipt[i] IN [from |-> it.to, to |-> it.from]

\* A rewind takes back the very object its Receipt names.
Fits(r, i) ==
    LET there == Found(Way(r, i).from)
    IN  /\ there \in good
        /\ run[r].rewinds # None => there = run[run[r].rewinds].receipt[i].node

Problem(r, i) ==
    IF Found(Way(r, i).to) # None THEN "target" ELSE IF Fits(r, i) THEN "none" ELSE "item"

\* The rows the next query gives, but for its limit.
Left(r, c) ==
    {i \in run[r].scope :
        IF run[r].rewinds = None
        THEN i > call[r][c].after /\ run[r].items[i].prep # "verified"
        ELSE call[r][c].after = 0 /\ run[r].items[i].prep = "pending"}

\* _pending_materialization_refs takes the first so many of them, a rewind all of
\* them at once.
Batch(r, c) ==
    /\ At(r, c, "items") /\ call[r][c].todo = {}
    /\ \E todo \in SUBSET Left(r, c) :
          /\ \A i \in todo, j \in Left(r, c) \ todo : i < j
          /\ todo = {} \/ run[r].rewinds # None => todo = Left(r, c)
          /\ call' = [call EXCEPT ![r][c].todo = todo,
                                  ![r][c].step = IF todo = {} THEN "finalize" ELSE "items"]
    /\ UNCHANGED <<at, good, mounted, run, overlapped, authorized, drift>>

IsNext(r, c, i) == i \in call[r][c].todo /\ \A j \in call[r][c].todo : i <= j

Passes(r, c, i, to) ==
    call' = [call EXCEPT ![r][c] = [to EXCEPT !.after = i, !.todo = call[r][c].todo \ {i}]]

\* A row that was verified meanwhile is left alone, but not by a rewind.
Look(r, c) ==
    /\ At(r, c, "items")
    /\ \E i \in Items :
          /\ IsNext(r, c, i)
          /\ IF run[r].rewinds = None /\ run[r].items[i].prep = "verified"
             THEN Passes(r, c, i, Begin("items"))
             ELSE Passes(r, c, i, [Begin("record") EXCEPT !.saw = Found(Way(r, i).from),
                                                          !.problem = Problem(r, i)])
    /\ UNCHANGED <<at, good, mounted, run, overlapped, authorized, drift>>

\* The Result is not read, or has no evidence a move could be based on.
EvidenceFails(r, c) ==
    /\ At(r, c, "items") /\ run[r].rewinds = None
    /\ \E i \in Items :
          IsNext(r, c, i) /\ Passes(r, c, i, [Begin("record") EXCEPT !.problem = "item"])
    /\ UNCHANGED <<at, good, mounted, run, overlapped, authorized, drift>>

\* The index unique_materialized_target.
TargetTaken(items, i, to) == \E j \in Items \ {i} : items[j].to = to

Block(r, i, code) ==
    [r EXCEPT !.items[i].prep = "blocked", !.findings = @ \cup {<<code, i>>}]

Verify(r, i, node, places) ==
    [r EXCEPT !.items[i] = [prep |-> "verified", node |-> node, done |-> r.items[i].done,
                            from |-> places.from, to |-> places.to]]

\* The row is written whatever the state of the Run.
RecordItem(r, c) ==
    /\ At(r, c, "record")
    /\ LET i == call[r][c].after
           p == Way(r, i)
       IN  run' = [run EXCEPT ![r] =
              IF call[r][c].problem # "none" THEN Block(@, i, call[r][c].problem)
              ELSE IF TargetTaken(run[r].items, i, p.to) THEN Block(@, i, "target")
              ELSE Verify(@, i, call[r][c].saw, p)]
    /\ call' = [call EXCEPT ![r][c].step = "items", ![r][c].saw = None, ![r][c].problem = "none"]
    /\ UNCHANGED <<at, good, mounted, overlapped, authorized, drift>>

-----------------------------------------------------------------------------
(* The end of the preparation.                                             *)

\* Variant: two items of one object are found before they are verified.
AliasWaiting(items) ==
    \E i, j \in Items : i # j /\ items[i].prep = "pending" /\ items[j].prep = "pending"
                        /\ items[i].node # None /\ items[i].node = items[j].node

Alias(items) ==
    \E i, j \in Items : i # j /\ items[i].prep = "verified" /\ items[j].prep = "verified"
                        /\ items[i].node = items[j].node

Active == {"preparing", "ready", "executing"}

\* Some item of two Runs is the same object, or goes to the same place.
Overlap(mine, theirs) ==
    \E i, j \in Items :
        \/ mine[i].node # None /\ mine[i].node = theirs[j].node
        \/ mine[i].to # None /\ mine[i].to = theirs[j].to

\* _record_concurrency_conflict
Conflicts(r) ==
    \E other \in Runs \ {r} :
        run[other].state \in Active /\ Overlap(run[r].items, run[other].items)

Ended(r) ==
    [r EXCEPT !.state = IF r.findings = {} THEN "ready" ELSE "blocked",
              !.identity = Identity(r)]

\* The first item that is still to be looked at.
Missing(r) ==
    {<<"missing", i>> : i \in {i \in run[r].scope :
        /\ run[r].items[i].prep = "pending"
        /\ \A j \in run[r].scope : run[r].items[j].prep = "pending" => i <= j}}

\* Only a forward Run looks at its rows again, and at the other Runs.
Findings(r) ==
    IF run[r].rewinds # None THEN {}
    ELSE Missing(r)
         \cup (IF Alias(run[r].items) THEN {<<"alias", 0>>} ELSE {})
         \cup (IF Conflicts(r) THEN {<<"conflict", 0>>} ELSE {})

\* The state of the Run is not looked at again.
Finalize(r, c) ==
    /\ At(r, c, "finalize")
    /\ run' = [run EXCEPT ![r] = Ended([run[r] EXCEPT !.findings = @ \cup Findings(r)])]
    /\ Ends(r, c)
    /\ UNCHANGED <<at, good, mounted, overlapped, authorized, drift>>

Crash(r, c) ==
    /\ call[r][c] # None
    /\ Ends(r, c)
    /\ UNCHANGED <<at, good, mounted, run, overlapped, authorized, drift>>

\* prepare_rewind: all of it in one transaction.
Rewound(of, i) ==
    LET it == run[of].receipt[i]
        free == Found(it.from) = None
        same == at[it.to] = it.node /\ it.node \in good
    IN  [prep |-> IF free /\ same THEN "verified" ELSE "blocked",
         node |-> IF same THEN it.node ELSE None,
         from |-> it.to, to |-> it.from, done |-> FALSE]

PrepareRewind(r, of) ==
    /\ run[r].state = "unused"
    /\ run[of].receipt # None /\ run[of].rewinds = None
    /\ LET back == {i \in Items : run[of].receipt[i].done}
           items == [i \in Items |-> IF i \in back THEN Rewound(of, i) ELSE NoItem]
           found == {<<"item", i>> : i \in {j \in back : items[j].prep = "blocked"}}
       IN  /\ back # {}
           /\ run' = [run EXCEPT ![r] = Ended([NoRun EXCEPT
                  !.rewinds = of, !.scope = back, !.items = items, !.findings = found])]
    /\ overlapped' = IF of \in overlapped THEN overlapped \cup {r} ELSE overlapped
    /\ UNCHANGED <<at, good, mounted, call, authorized, drift>>

-----------------------------------------------------------------------------
(* What the Human and the executor do with a prepared Run.                 *)

\* cancel_before_execution
CancelBeforeExecution(r) ==
    /\ run[r].state \in {"preparing", "ready", "blocked"}
    /\ run' = [run EXCEPT ![r].state = "cancelled"]
    /\ UNCHANGED <<at, good, mounted, call, overlapped, authorized, drift>>

\* A Run has one authorization.
Authorize(r) ==
    /\ run[r].state = "ready" /\ authorized[r] = None
    /\ run' = [run EXCEPT ![r].state = "executing"]
    /\ authorized' = [authorized EXCEPT ![r] = run[r].identity]
    /\ UNCHANGED <<at, good, mounted, call, overlapped, drift>>

\* The worker does not look at the state between two items.
Executing(r) == authorized[r] # None /\ run[r].receipt = None

\* One item, if it is still the object that was verified.
Move(r, i) ==
    LET it == run[r].items[i]
    IN  /\ Executing(r) /\ i \in run[r].scope /\ ~it.done /\ it.node # None
        /\ Found(it.from) = it.node /\ at[it.to] = None
        /\ at' = [at EXCEPT ![it.from] = None, ![it.to] = it.node]
        /\ run' = [run EXCEPT ![r].items[i].done = TRUE]
        /\ UNCHANGED <<good, mounted, call, overlapped, authorized, drift>>

Close(r) ==
    /\ Executing(r)
    /\ run' = [run EXCEPT ![r].state = "closed", ![r].receipt = run[r].items]
    /\ UNCHANGED <<at, good, mounted, call, overlapped, authorized, drift>>

User ==
    \/ \E p \in Places, n \in Nodes, same \in BOOLEAN : Replace(p, n, same)
    \/ \E p, q \in Places : Link(p, q)
    \/ \E p \in Places : Remove(p)
    \/ Remount

Next ==
    \/ \E q \in Requests, c \in Callers : CreateRun(q, c)
    \/ \E r, of \in Runs : PrepareRewind(r, of)
    \/ \E r \in Runs, c \in Callers :
          \/ RepeatRequest(r, c) \/ Resume(r, c) \/ Reopen(r, c)
          \/ CheckBindings(r, c) \/ KeepBlocked(r, c) \/ Stage(r, c)
          \/ Batch(r, c) \/ Look(r, c) \/ EvidenceFails(r, c) \/ RecordItem(r, c)
          \/ Finalize(r, c) \/ Crash(r, c)
    \/ \E r \in Runs :
          \/ CancelBeforeExecution(r) \/ Authorize(r) \/ Close(r)
          \/ \E i \in Items : Move(r, i)
    \/ User

Spec == Init /\ [][Next]_vars

-----------------------------------------------------------------------------
(* What is promised of a Run at which no call began while another was at   *)
(* work; two that overlap may leave it neither whole nor as confirmed.     *)
Undisturbed == Runs \ overlapped

(* A Run that may be authorized has looked at all of its Plan: every item  *)
(* is verified, no two are one object or go to one place, nothing found    *)
(* speaks against it, and the identity the Human confirms is that of the   *)
(* rows as they are; unless preparing calls overlapped.                    *)
ReadyIsWhole ==
    \A r \in Undisturbed : run[r].state = "ready" =>
        LET items == run[r].items
        IN  /\ run[r].rewinds = None => run[r].scope = Wanted[run[r].request]
            /\ run[r].findings = {} /\ run[r].identity = Identity(run[r])
            /\ \A i \in run[r].scope : items[i].prep = "verified"
            /\ \A i, j \in run[r].scope :
                  i # j => items[i].node # items[j].node /\ items[i].to # items[j].to

\* Two Runs that both have, or may be given, authority over one object or place.
Compete(r, o) ==
    /\ r # o /\ {run[r].state, run[o].state} \subseteq {"ready", "executing"}
    /\ \E i \in run[r].scope, j \in run[o].scope :
          \/ run[r].items[i].node = run[o].items[j].node
          \/ run[r].items[i].to = run[o].items[j].to

(* Of two forward Runs that overlap on an object or a place at most one    *)
(* may be authorized (_record_concurrency_conflict), unless preparing      *)
(* calls overlapped at one of them.                                        *)
ForwardsExclude ==
    \A r, o \in Undisturbed : Compete(r, o) => run[r].rewinds # None \/ run[o].rewinds # None

(* Of any two Runs that overlap on a source or a target at most one may    *)
(* hold mutation authority.                                                *)
AuthorityIsExclusive == \A r, o \in Runs : ~Compete(r, o)

(* What a Run has moved is what the Human confirmed for it, object and     *)
(* places, and a cancelled Run has moved nothing, unless preparing calls   *)
(* overlapped.                                                             *)
EffectsWereConfirmed ==
    \A r \in Undisturbed \ {Earlier} : \A i \in Items :
        run[r].items[i].done =>
            /\ run[r].state # "cancelled"
            /\ authorized[r].items[i] = [run[r].items[i] EXCEPT !.done = FALSE]
            /\ authorized[r].findings = {}

(* docs/spec/contract/apply/index.md:189: "Preparation ended before        *)
(* execution authorization with proven zero media effects." Not so when a  *)
(* late preparing call has put an executing Run back to ready.             *)
CancelledMovedNothing ==
    \A r \in Runs \ {Earlier} : \A i \in Items :
        run[r].state = "cancelled" => ~run[r].items[i].done

(* No Run comes to mutation authority but over a Plan it has looked at as  *)
(* a whole, at the exclusion of its forward rivals, and it uses it for     *)
(* nothing but what the Human confirmed. All this of Runs at which no      *)
(* preparing call began while another was at work.                         *)
AuthorityIsEarned == TypeOK /\ ReadyIsWhole /\ ForwardsExclude /\ EffectsWereConfirmed
=============================================================================
