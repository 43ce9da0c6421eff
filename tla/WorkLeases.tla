----------------------------- MODULE WorkLeases -----------------------------
(***************************************************************************)
(* The Work store of PreCheck (precheck/_work_sqlite.py and                *)
(* _invalidation.py): records of reusable computations that depend on      *)
(* sources and on each other, claimed under leases by the workers of       *)
(* several Runs. Every action is one immediate transaction; a transaction  *)
(* that raises is rolled back, the recovery of expired leases it began     *)
(* with included. A worker may go on with a lease it has lost.             *)
(***************************************************************************)
EXTENDS Naturals, FiniteSets, Sequences

CONSTANTS
    Runs,             \* Working Runs that have completed their accounting
    Workers,          \* lease owners
    RunOf,            \* the Run each worker works for
    Kinds,            \* kinds of Work: capability, producer and parameters
    Inputs,           \* the sets of kinds whose results a kind may be made from
    MaxWork,          \* bound: Work records
    MaxAttempts,      \* the retry policy of every Work
    MaxInvalidations, \* bound: invalidations and rebuilds
    MaxDetached,      \* bound: records taken out of a Run
    None

ASSUME LeaseConstants ==
    /\ RunOf \in [Workers -> Runs]
    /\ Inputs \in [Kinds -> SUBSET (SUBSET Kinds)]
    /\ None \notin Workers
    /\ MaxWork \in Nat /\ MaxAttempts \in Nat \ {0}
    /\ MaxInvalidations \in Nat /\ MaxDetached \in Nat

VARIABLES
    rows,        \* work_records, in the order of their creation
    attempts,    \* work_attempts: the outcomes of each record's attempts
    attached,    \* run_work_records: the records each Run has requested
    held,        \* the leases each worker still goes by
    invalidations, detached  \* how often these have happened

vars == <<rows, attempts, attached, held, invalidations, detached>>

Statuses == {"pending", "ready", "running", "succeeded", "retryable", "terminal",
             "blocked", "invalidated"}

Unusable == {"terminal", "blocked", "invalidated"}

Ids == DOMAIN rows
Records ==
    [kind : Kinds, up : SUBSET (1..MaxWork), status : Statuses,
     lease : Workers \cup {None}, expired : BOOLEAN, delayed : BOOLEAN]

Outcomes == {"running", "succeeded", "retryable", "terminal", "expired", "invalidated"}

\* A lease names its Work and the attempt it was given for.
Leases == [id : 1..MaxWork, attempt : 1..MaxAttempts]

TypeOK ==
    /\ rows \in Seq(Records) /\ Len(rows) <= MaxWork
    /\ attempts \in Seq(Seq(Outcomes)) /\ Len(attempts) = Len(rows)
    /\ \A id \in Ids : Len(attempts[id]) <= MaxAttempts
    /\ attached \in [Runs -> SUBSET (1..MaxWork)]
    /\ held \in [Workers -> SUBSET Leases]
    /\ invalidations \in 0..MaxInvalidations
    /\ detached \in 0..MaxDetached

Init ==
    /\ rows = <<>>
    /\ attempts = <<>>
    /\ attached = [r \in Runs |-> {}]
    /\ held = [w \in Workers |-> {}]
    /\ invalidations = 0
    /\ detached = 0

-----------------------------------------------------------------------------
(* The records a transaction starts from, and what it makes of them. A     *)
(* store is the pair of the two tables.                                    *)

Store == [rows |-> rows, attempts |-> attempts]

Commits(store) == rows' = store.rows /\ attempts' = store.attempts

Dependents(table, ids) == {d \in DOMAIN table : table[d].up \cap ids # {}}

\* What a walk over the dependencies reaches from its roots without leaving
\* `live`. Dependents are younger than what they depend on, so one pass in the
\* order of creation finds it all.
Reached(table, roots, live) ==
    LET upTo[d \in 0..Len(table)] ==
          IF d = 0 THEN {}
          ELSE IF d \in live /\ (d \in roots \/ table[d].up \cap upTo[d - 1] # {})
               THEN upTo[d - 1] \cup {d} ELSE upTo[d - 1]
    IN upTo[Len(table)]

\* The transitive dependents of a set of records.
Downstream(table, ids) == Reached(table, Dependents(table, ids), DOMAIN table)

\* Variant: only the direct dependents are blocked.
BlockNearest(table, ids) ==
    [d \in DOMAIN table |->
       IF d \in Dependents(table, ids) /\ table[d].status \in {"pending", "ready"}
       THEN [table[d] EXCEPT !.status = "blocked"] ELSE table[d]]

\* _block_dependents
BlockDependents(table, ids) ==
    LET below == Downstream(table, ids) IN
    [d \in DOMAIN table |->
       IF d \in below /\ table[d].status \in {"pending", "ready"}
       THEN [table[d] EXCEPT !.status = "blocked"] ELSE table[d]]

UpStatuses(table, up) == {table[u].status : u \in up}

\* _promote_dependents
PromoteDependents(table, ids) ==
    [d \in DOMAIN table |->
       IF /\ d \in Dependents(table, ids)
          /\ table[d].status = "pending"
          /\ UpStatuses(table, table[d].up) = {"succeeded"}
       THEN [table[d] EXCEPT !.status = "ready"] ELSE table[d]]

\* A record as it leaves an attempt, and the attempt's entry as it is closed.
Freed(row, status) ==
    [row EXCEPT !.status = status, !.lease = None, !.expired = FALSE, !.delayed = FALSE]

Closed(store, ids, outcome) ==
    [d \in DOMAIN store.attempts |->
       IF d \in ids /\ store.rows[d].status = "running"
       THEN [store.attempts[d] EXCEPT ![Len(store.attempts[d])] = outcome]
       ELSE store.attempts[d]]

CanRetry(store, id) == Len(store.attempts[id]) < MaxAttempts

\* _recover_expired: an expired lease ends its attempt, for another try or,
\* at the limit, for good.
Recovered(store) ==
    LET gone == {d \in DOMAIN store.rows : store.rows[d].status = "running" /\ store.rows[d].expired}
        spent == {d \in gone : ~CanRetry(store, d)}
        freed == [d \in DOMAIN store.rows |->
                    IF d \in spent THEN Freed(store.rows[d], "terminal")
                    ELSE IF d \in gone THEN Freed(store.rows[d], "retryable")
                    ELSE store.rows[d]]
    IN [rows |-> BlockDependents(freed, spent), attempts |-> Closed(store, gone, "expired")]

\* Variant: the number of the attempt is enough.
HoldsByAttempt(store, w, lease) == Len(store.attempts[lease.id]) = lease.attempt

\* _require_lease
Holds(store, w, lease) ==
    /\ store.rows[lease.id].status = "running"
    /\ store.rows[lease.id].lease = w
    /\ Len(store.attempts[lease.id]) = lease.attempt

\* Variant: results already there are kept.
InvalidateUnfinished(store, roots) ==
    LET tree == roots \cup {d \in Downstream(store.rows, roots) : store.rows[d].status # "succeeded"}
    IN [rows |-> [d \in DOMAIN store.rows |->
                    IF d \in tree THEN Freed(store.rows[d], "invalidated") ELSE store.rows[d]],
        attempts |-> Closed(store, tree, "invalidated")]

\* invalidate_work_tree. A record that is invalidated already ends the walk.
InvalidateTree(store, roots) ==
    LET live == {d \in DOMAIN store.rows : store.rows[d].status # "invalidated"}
        tree == Reached(store.rows, roots, live)
    IN [rows |-> [d \in DOMAIN store.rows |->
                    IF d \in tree THEN Freed(store.rows[d], "invalidated") ELSE store.rows[d]],
        attempts |-> Closed(store, tree, "invalidated")]

-----------------------------------------------------------------------------
(* Definition of Work *)

\* _initial_status
InitialStatus(up) ==
    IF UpStatuses(rows, up) \cap Unusable # {} THEN "blocked"
    ELSE IF UpStatuses(rows, up) \subseteq {"succeeded"} THEN "ready"
    ELSE "pending"

\* The record that stands for a description: the one not invalidated.
Current(kind, up) ==
    {id \in Ids : rows[id].kind = kind /\ rows[id].up = up /\ rows[id].status # "invalidated"}

\* ensure_work: one current record per description, reused or created. The
\* description names the upstream records, so new ones make it a new Work.
Ensured(r, kind, up, id) ==
    /\ {rows[u].kind : u \in up} \in Inputs[kind]
    /\ \/ /\ id \in Current(kind, up)
          /\ UNCHANGED <<rows, attempts>>
       \/ /\ Current(kind, up) = {}
          /\ Len(rows) < MaxWork
          /\ id = Len(rows) + 1
          /\ rows' = Append(rows, [kind |-> kind, up |-> up, status |-> InitialStatus(up),
                                   lease |-> None, expired |-> FALSE, delayed |-> FALSE])
          /\ attempts' = Append(attempts, <<>>)
    /\ attached' = [attached EXCEPT ![r] = @ \cup {id}]
    /\ UNCHANGED <<held, invalidations, detached>>

EnsureWork(r) ==
    \E up \in SUBSET attached[r] :
      LET kinds == {rows[u].kind : u \in up} IN
      /\ Cardinality(kinds) = Cardinality(up)
      /\ \E kind \in {k \in Kinds : kinds \in Inputs[k]}, id \in 1..(Len(rows) + 1) :
           id \notin attached[r] /\ Ensured(r, kind, up, id)

\* detach_run_work: a record the Run itself is running stays.
Detach(r) ==
    \E id \in attached[r] :
      /\ detached < MaxDetached
      /\ ~(rows[id].status = "running" /\ RunOf[rows[id].lease] = r)
      /\ attached' = [attached EXCEPT ![r] = @ \ {id}]
      /\ detached' = detached + 1
      /\ UNCHANGED <<rows, attempts, held, invalidations>>

-----------------------------------------------------------------------------
(* Work under a lease *)

\* _promote_ready over all pending records
PromoteReady(table) ==
    [d \in DOMAIN table |->
       IF table[d].status # "pending" THEN table[d]
       ELSE IF UpStatuses(table, table[d].up) \cap Unusable # {}
            THEN [table[d] EXCEPT !.status = "blocked"]
       ELSE IF UpStatuses(table, table[d].up) \subseteq {"succeeded"}
            THEN [table[d] EXCEPT !.status = "ready"]
       ELSE table[d]]

Claimable(table, r) ==
    {id \in attached[r] : \/ table[id].status = "ready"
                          \/ table[id].status = "retryable" /\ ~table[id].delayed}

\* claim_ready_work of one record
Claimed(w, id) ==
    LET store == Recovered(Store)
        table == PromoteReady(store.rows)
    IN /\ id \in Claimable(table, RunOf[w])
       /\ rows' = [table EXCEPT ![id].status = "running", ![id].lease = w,
                                ![id].delayed = FALSE]
       /\ attempts' = [store.attempts EXCEPT ![id] = Append(@, "running")]
       /\ held' = [held EXCEPT ![w] =
                     @ \cup {[id |-> id, attempt |-> Len(store.attempts[id]) + 1]}]
       /\ UNCHANGED <<attached, invalidations, detached>>

Claim(w) == \E id \in attached[RunOf[w]] : Claimed(w, id)

\* claim_ready_work that finds nothing to claim still recovers and promotes.
ClaimNothing(w) ==
    LET store == Recovered(Store)
        table == PromoteReady(store.rows)
    IN /\ Claimable(table, RunOf[w]) = {}
       /\ <<table, store.attempts>> # <<rows, attempts>>
       /\ rows' = table
       /\ attempts' = store.attempts
       /\ UNCHANGED <<attached, held, invalidations, detached>>

\* renew_leases and save_checkpoint: a lease is renewed before it has expired,
\* a batch of leases together; the store has recovered all the others.
Renew(w) ==
    /\ held[w] # {}
    /\ \A lease \in held[w] : Holds(Recovered(Store), w, lease)
    /\ Recovered(Store) # Store
    /\ Commits(Recovered(Store))
    /\ UNCHANGED <<attached, held, invalidations, detached>>

\* succeed_work and succeed_work_many: all the leases hold, or nothing changes.
Succeeded(w, batch) ==
    LET store == Recovered(Store)
        ids == {lease.id : lease \in batch}
        done == [d \in DOMAIN store.rows |->
                   IF d \in ids THEN Freed(store.rows[d], "succeeded") ELSE store.rows[d]]
    IN /\ \A lease \in batch : Holds(store, w, lease)
       /\ Commits([rows |-> PromoteDependents(done, ids),
                   attempts |-> Closed(store, ids, "succeeded")])
       /\ held' = [held EXCEPT ![w] = @ \ batch]
       /\ UNCHANGED <<attached, invalidations, detached>>

Succeed(w) == \E batch \in (SUBSET held[w]) \ {{}} : Succeeded(w, batch)

\* fail_work, with or without hope of a retry, at once or after a delay
Failed(w, lease, retryable, later) ==
    LET store == Recovered(Store)
        again == retryable /\ CanRetry(store, lease.id)
        row == Freed(store.rows[lease.id], IF again THEN "retryable" ELSE "terminal")
        failed == [store.rows EXCEPT ![lease.id] = [row EXCEPT !.delayed = again /\ later]]
    IN /\ Holds(store, w, lease)
       /\ Commits([rows |-> IF again THEN failed ELSE BlockDependents(failed, {lease.id}),
                   attempts |-> Closed(store, {lease.id},
                                       IF again THEN "retryable" ELSE "terminal")])
       /\ held' = [held EXCEPT ![w] = @ \ {lease}]
       /\ UNCHANGED <<attached, invalidations, detached>>

Fail(w) == \E lease \in held[w], retryable, later \in BOOLEAN : Failed(w, lease, retryable, later)

\* LeaseLost: the call is rolled back and the worker drops the lease.
LoseLease(w) ==
    \E lease \in held[w] :
      /\ ~Holds(Recovered(Store), w, lease)
      /\ held' = [held EXCEPT ![w] = @ \ {lease}]
      /\ UNCHANGED <<rows, attempts, attached, invalidations, detached>>

\* The worker's process dies, or raises before it reports.
Crash(w) ==
    /\ held[w] # {}
    /\ held' = [held EXCEPT ![w] = {}]
    /\ UNCHANGED <<rows, attempts, attached, invalidations, detached>>

\* recover_expired_leases
RecoverExpired ==
    /\ Recovered(Store) # Store
    /\ Commits(Recovered(Store))
    /\ UNCHANGED <<attached, held, invalidations, detached>>

-----------------------------------------------------------------------------
(* Invalidation *)

Invalidated(roots) ==
    /\ invalidations < MaxInvalidations
    /\ InvalidateTree(Store, roots) # Store
    /\ Commits(InvalidateTree(Store, roots))
    /\ invalidations' = invalidations + 1
    /\ UNCHANGED <<attached, detached>>

\* invalidate_work by a producer that finds an output or an input gone, and
\* invalidate_source_dependencies, whose roots are the Works over a source.
Invalidate ==
    \E roots \in {{id} : id \in Ids} \cup {{id \in Ids : rows[id].up = {}}} :
      Invalidated(roots) /\ UNCHANGED held

\* invalidate_for_rebuild: what the Run has attached, unless it is running.
Rebuild(r) ==
    \E roots \in (SUBSET attached[r]) \ {{}} :
      /\ \A id \in roots : rows[id].status # "running"
      /\ Invalidated(roots)
      /\ UNCHANGED held

-----------------------------------------------------------------------------
(* Time *)

LeaseExpires ==
    \E id \in Ids :
      /\ rows[id].status = "running" /\ ~rows[id].expired
      /\ rows' = [rows EXCEPT ![id].expired = TRUE]
      /\ UNCHANGED <<attempts, attached, held, invalidations, detached>>

DelayPasses ==
    \E id \in Ids :
      /\ rows[id].delayed
      /\ rows' = [rows EXCEPT ![id].delayed = FALSE]
      /\ UNCHANGED <<attempts, attached, held, invalidations, detached>>

Next ==
    \/ \E w \in Workers : \/ Claim(w) \/ ClaimNothing(w) \/ Renew(w) \/ Succeed(w)
                          \/ Fail(w) \/ LoseLease(w) \/ Crash(w)
    \/ RecoverExpired
    \/ Invalidate
    \/ LeaseExpires
    \/ DelayPasses
    \/ \E r \in Runs : Detach(r) \/ Rebuild(r) \/ EnsureWork(r)

Spec == Init /\ [][Next]_vars

-----------------------------------------------------------------------------
(* Properties *)

\* What has been attempted, and what is a result, rests on results: a Work is
\* neither offered nor run nor kept once something it was made from is gone.
InputsHold ==
    \A id \in Ids : rows[id].status \notin {"pending", "blocked", "invalidated"} =>
        \A u \in rows[id].up : rows[u].status = "succeeded"

\* A Work waits only for something that can still come: a failure, a
\* blockage or an invalidation reaches everything that waits for it, and the
\* last result wakes what needed it, whichever transaction it happened in.
PendingCanEnd ==
    \A id \in Ids : rows[id].status = "pending" =>
        /\ \E u \in rows[id].up : rows[u].status # "succeeded"
        /\ \A u \in rows[id].up : rows[u].status \notin Unusable

\* The two tables tell the same story: every claim has one entry, which is
\* closed once, by its owner, its expiry or an invalidation, whatever an
\* owner that has lost its lease reports.
HistoryAgrees ==
    \A id \in Ids :
      LET n == Len(attempts[id]) IN
      /\ \A k \in 1..n : attempts[id][k] \in {"running", "succeeded", "terminal"} => k = n
      /\ rows[id].status = "running" <=> (n > 0 /\ attempts[id][n] = "running")
      /\ rows[id].status = "succeeded" => n > 0 /\ attempts[id][n] = "succeeded"
      /\ rows[id].status = "retryable" => attempts[id][n] \in {"retryable", "expired"}
      /\ rows[id].status = "terminal" => attempts[id][n] \in {"terminal", "expired"}
      /\ rows[id].lease # None <=> rows[id].status = "running"

\* Whatever is invalidated and demanded again, by whichever Run: a description
\* has at most one record that is not invalidated, and it is made from what its
\* kind is made from (the index work_records_current_semantic_key).
OneCurrent ==
    \A id \in Ids :
      /\ {rows[u].kind : u \in rows[id].up} \in Inputs[rows[id].kind]
      /\ rows[id].status # "invalidated" => Current(rows[id].kind, rows[id].up) = {id}

=============================================================================
