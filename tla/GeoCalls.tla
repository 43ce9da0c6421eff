------------------------------ MODULE GeoCalls ------------------------------
(***************************************************************************)
(* Executions of mediasense.geo.query (capabilities/geo/tool.py,           *)
(* service.py, journal.py and _checkpoint.py): what a provider is asked    *)
(* under a Human's authorization, with a durable journal of reservations   *)
(* made before each call. An execution may die between any two steps; it   *)
(* is then reconciled from the journal, and what is missing may be asked   *)
(* again by a recovery, under the ceiling of the first authorization.      *)
(***************************************************************************)
EXTENDS Integers, Sequences, FiniteSets

CONSTANTS
    Calls,        \* invocations that can be under way at once
    Requests,     \* request ids
    Legacy,       \* those that may have been completed before cycles were recorded
    Grants,       \* distinct authorizations a Human gives for one request
    Coordinates,  \* the coordinates of the query: a number, for their order
    CallCeiling,  \* provider requests one call may make
    Ceiling,      \* provider requests an authorization allows
    MaxAttempts,  \* RetryPolicy.max_attempts
    None

VARIABLES
    request,  \* the journal: geo_operation_journal with geo_execution_cycles
    rows,     \* geo_provider_executions of each request
    owner,    \* the OS lock of a request
    call,     \* where each invocation is
    sent      \* provider requests that were really sent, by root request

vars == <<request, rows, owner, call, sent>>

Points == 1..Coordinates

Statuses == {"not_requested", "success", "failed", "indeterminate"}

\* What a call of a provider can come to: an answer, or none to be had; a fault
\* that may pass, or no knowing, after either of which the loop may also stop; a
\* refusal of this place; and a rejected request, which is a defect and is raised.
Answers == {"success", "permanent", "defect"}
Outcomes == Answers \cup {"transient", "unknown"}

StatusOf(outcome) ==
    CASE outcome = "success" -> "success"
      [] outcome = "unknown" -> "indeterminate"
      [] OTHER -> "failed"

\* An authorization names the request exactly: its recovery and that one's result.
Authorizations == [prior : Requests \cup {None}, grant : Grants]

Untried == [k \in Points |-> "not_requested"]

Results == [status : [Points -> Statuses], used : Nat, exact : BOOLEAN]

RequestRows ==
    [auth : Authorizations, root : Requests, prior : Requests \cup {None}, closed : BOOLEAN,
     tracked : BOOLEAN, baseline : Nat, result : Results \cup {None}]

\* A provider execution, "open" from its reservation until it is recorded.
Rows == [k : Points, reserved : 0..CallCeiling, outcome : Outcomes \cup {"open"}]

Stages == {"idle", "admit", "run", "send", "record", "finish"}

Invocations ==
    [at : Stages, id : Requests \cup {None}, auth : Authorizations \cup {None},
     status : [Points -> Statuses], count : Nat, exact : BOOLEAN, k : 1..Coordinates + 1,
     attempts : Nat, got : [n : 0..CallCeiling, outcome : Outcomes] \cup {None}]

\* Assumed of the constants, and checked where they are given values.
GeoConstants ==
    /\ Legacy \subseteq Requests /\ Grants # {}
    /\ {Coordinates, CallCeiling, Ceiling, MaxAttempts} \subseteq Nat \ {0}
    /\ None \notin Requests /\ None \notin Calls
    /\ None \notin RequestRows /\ None \notin Results

Idle == [at |-> "idle", id |-> None, auth |-> None, status |-> Untried, count |-> 0,
         exact |-> TRUE, k |-> 1, attempts |-> 0, got |-> None]

Known(r) == request[r] # None
Closed(r) == Known(r) /\ request[r].closed
Tracked(r) == Known(r) /\ request[r].tracked

Chain(root) == {r \in Requests : Known(r) /\ request[r].root = root}

TypeOK ==
    /\ request \in [Requests -> RequestRows \cup {None}]
    /\ rows \in [Requests -> Seq(Rows)]
    /\ owner \in [Requests -> Calls \cup {None}]
    /\ call \in [Calls -> Invocations]
    /\ sent \in [Requests -> Nat]

\* A request completed by an earlier release: its count is known, and no cycle.
OldRequest(r, result) ==
    [auth |-> CHOOSE a \in Authorizations : a.prior = None, root |-> r, prior |-> None,
     closed |-> TRUE, tracked |-> FALSE, baseline |-> result.used, result |-> result]

Init ==
    /\ \E done \in SUBSET Legacy, status \in [Points -> {"success", "failed"}], used \in 1..Ceiling :
         LET old == [status |-> status, used |-> used, exact |-> TRUE]
         IN /\ request = [r \in Requests |-> IF r \in done THEN OldRequest(r, old) ELSE None]
            /\ sent = [r \in Requests |-> IF r \in done THEN used ELSE 0]
    /\ rows = [r \in Requests |-> <<>>]
    /\ owner = [r \in Requests |-> None]
    /\ call = [c \in Calls |-> Idle]

-----------------------------------------------------------------------------
(* Steps of an invocation *)

Goes(c, new) == call' = [call EXCEPT ![c] = new]

Ends(c) ==
    /\ Goes(c, Idle)
    /\ owner' = [r \in Requests |-> IF owner[r] = c THEN None ELSE owner[r]]

\* A request that an earlier execution had rejected is raised again, never concluded.
Reconcilable(r) == \A i \in DOMAIN rows[r] : rows[r][i].outcome # "defect"

\* Variant: what was reserved and not recorded is taken for never sent.
SpentIfRecorded(row) == IF row.outcome = "open" THEN 0 ELSE row.reserved

\* An interrupted call keeps its whole reservation.
Spent(row) == row.reserved

\* The provider requests that are reserved for some requests, or were used.
Reserved(table, ids) ==
    UNION {UNION {{<<r, i, n>> : n \in 1..Spent(table[r][i])} : i \in DOMAIN table[r]} : r \in ids}

NoResult == [status |-> Untried, used |-> 0, exact |-> TRUE]

\* The result a request starts from: that of the request it recovers.
Before(r) == IF request[r].prior = None THEN NoResult ELSE request[request[r].prior].result

\* reconcile: the result an interrupted execution left, from the one before it
\* and from its rows in their order, of which a success is final.
LastRow(set) == CHOOSE i \in set : \A j \in set : j <= i

Reconciled(r) ==
    LET before == Before(r)
        of(k) == {i \in DOMAIN rows[r] : rows[r][i].k = k}
        has(k) == before.status[k] = "success" \/ \E i \in of(k) : rows[r][i].outcome = "success"
        open(i) == rows[r][i].outcome = "open"
        last(k) == LastRow(of(k))
    IN [status |-> [k \in Points |->
            IF has(k) THEN "success"
            ELSE IF of(k) = {} THEN before.status[k]
            ELSE IF open(last(k)) THEN "indeterminate" ELSE StatusOf(rows[r][last(k)].outcome)],
        used |-> before.used + Cardinality(Reserved(rows, {r})),
        exact |-> before.exact /\ \A i \in DOMAIN rows[r] : ~open(i)]

\* The transaction of complete: the result and the close of the cycle.
Complete(r, result) ==
    request' = [request EXCEPT ![r].closed = TRUE, ![r].result = result]

\* A request that is repeated after its owner is gone, with the authorization it had
\* or none, is reconciled from the journal; any other repeat changes nothing.
AnswerKnown(r) ==
    /\ owner[r] = None
    /\ Known(r) /\ ~Closed(r)
    /\ Reconcilable(r)
    /\ Complete(r, Reconciled(r))
    /\ UNCHANGED <<rows, owner, call, sent>>

Missing(result) == \E k \in Points : result.status[k] # "success"

\* What a recovery asks of the request before it.
Recoverable(prior) == Tracked(prior) /\ Closed(prior) /\ Missing(request[prior].result)

\* The request is new and its lock is free: preflight, and for a recovery a look at
\* the prior result, of which it keeps the evidence.
LookNew(c, r, auth) ==
    LET prior == auth.prior
        kept(st) == [k \in Points |-> IF st[k] = "success" THEN "success" ELSE "not_requested"]
        new == [Idle EXCEPT !.at = "admit", !.id = r, !.auth = auth]
    IN /\ call[c].at = "idle" /\ owner[r] = None
       /\ ~Known(r) /\ prior # r
       /\ \/ /\ prior = None
             /\ Goes(c, new)
          \/ /\ prior # None
             /\ Recoverable(prior)
             /\ LET result == request[prior].result
                IN Goes(c, [new EXCEPT !.status = kept(result.status), !.count = result.used,
                                       !.exact = result.exact])
       /\ owner' = [owner EXCEPT ![r] = c]
       /\ UNCHANGED <<request, rows, sent>>

\* An authorization serves one request, and a result has one recovery.
Admissible(c) ==
    /\ \A r \in Requests : Known(r) => request[r].auth # call[c].auth
    /\ call[c].auth.prior # None =>
           \A r \in Requests : Known(r) => request[r].prior # call[c].auth.prior

\* The transaction of admit.
Admit(c) ==
    LET r == call[c].id
        prior == call[c].auth.prior
    IN /\ call[c].at = "admit"
       /\ \/ /\ Admissible(c)
             /\ request' = [request EXCEPT ![r] =
                  [auth |-> call[c].auth, prior |-> prior,
                   root |-> IF prior = None THEN r ELSE request[prior].root,
                   closed |-> FALSE, tracked |-> TRUE, baseline |-> 0, result |-> None]]
             /\ Goes(c, [call[c] EXCEPT !.at = "run"])
             /\ UNCHANGED owner
          \/ /\ ~Admissible(c)
             /\ Ends(c)
             /\ UNCHANGED request
       /\ UNCHANGED <<rows, sent>>

\* The next coordinate without evidence, or the one after the last.
NextPoint(c) ==
    LET open == {k \in Points : k >= call[c].k /\ call[c].status[k] # "success"}
    IN IF open = {} THEN Coordinates + 1 ELSE CHOOSE k \in open : \A j \in open : k <= j

\* What the cycles of a root have reserved or used together.
Usage(root) == request[root].baseline + Cardinality(Reserved(rows, Chain(root)))

\* The transaction of reserve, before each provider call.
Reserve(c) ==
    LET r == call[c].id
        k == NextPoint(c)
    IN /\ call[c].at = "run"
       /\ k <= Coordinates
       /\ call[c].count + CallCeiling <= Ceiling
       /\ Usage(request[r].root) + CallCeiling <= Ceiling
       /\ rows' = [rows EXCEPT ![r] = Append(@, [k |-> k, reserved |-> CallCeiling,
                                                 outcome |-> "open"])]
       /\ Goes(c, [call[c] EXCEPT !.at = "send", !.k = k,
                                  !.attempts = IF k = call[c].k THEN @ ELSE 0])
       /\ UNCHANGED <<request, owner, sent>>

\* _unattempted_components: the coordinates from one on are not asked for.
Unattempted(status, from) ==
    [k \in Points |-> IF k >= from THEN "not_requested" ELSE status[k]]

\* The loop over the coordinates ends: all are done; the ceiling or the deadline is
\* reached, which fails a coordinate not asked for yet; or a cancellation is seen.
Stop(c) ==
    LET k == NextPoint(c)
        asked == k = call[c].k /\ call[c].attempts > 0
        final == IF asked THEN call[c].status[k] ELSE "failed"
    IN /\ call[c].at = "run"
       /\ \/ /\ k > Coordinates
             /\ Goes(c, [call[c] EXCEPT !.at = "finish"])
          \/ /\ k <= Coordinates
             /\ Goes(c, [call[c] EXCEPT !.at = "finish",
                            !.status = [Unattempted(@, k + 1) EXCEPT ![k] = final]])
          \/ \E from \in call[c].k..Coordinates :
                /\ from <= IF asked THEN k + 1 ELSE k
                /\ asked => from > k
                /\ Goes(c, [call[c] EXCEPT !.at = "finish", !.status = Unattempted(@, from)])
       /\ UNCHANGED <<request, rows, owner, sent>>

\* The provider is asked, which cannot be seen until it is recorded.
Send(c) ==
    /\ call[c].at = "send"
    /\ \E n \in 0..CallCeiling, outcome \in Outcomes :
         /\ outcome \in Answers => n > 0
         /\ sent' = [sent EXCEPT ![request[call[c].id].root] = @ + n]
         /\ Goes(c, [call[c] EXCEPT !.at = "record", !.got = [n |-> n, outcome |-> outcome]])
    /\ UNCHANGED <<request, rows, owner>>

\* Where the loops over attempts and coordinates go after an outcome.
After(c, outcome, status) ==
    LET k == call[c].k
        now == [call[c] EXCEPT !.status[k] = status]
    IN CASE outcome \in {"success", "permanent"} ->
              [now EXCEPT !.at = "run", !.k = k + 1, !.attempts = 0]
         [] outcome \in {"transient", "unknown"} /\ call[c].attempts + 1 < MaxAttempts ->
              [now EXCEPT !.at = "run", !.attempts = @ + 1]
         [] OTHER -> [now EXCEPT !.at = "finish", !.status = Unattempted(@, k + 1)]

\* record_execution lowers the reservation to what was used; then invoke takes
\* the component: an unknown effect stays unknown until there is an answer.
Record(c) ==
    LET r == call[c].id
        got == call[c].got
        status == IF got.outcome # "success" /\ call[c].status[call[c].k] = "indeterminate"
                  THEN "indeterminate" ELSE StatusOf(got.outcome)
    IN /\ call[c].at = "record"
       /\ rows' = [rows EXCEPT ![r][Len(rows[r])] =
                      [@ EXCEPT !.reserved = got.n, !.outcome = got.outcome]]
       /\ IF got.outcome = "defect"
          THEN Ends(c)
          ELSE /\ Goes(c, [After(c, got.outcome, status) EXCEPT !.count = @ + got.n, !.got = None])
               /\ UNCHANGED owner
       /\ UNCHANGED <<request, sent>>

Finish(c) ==
    /\ call[c].at = "finish"
    /\ Complete(call[c].id, [status |-> call[c].status, used |-> call[c].count,
                             exact |-> call[c].exact])
    /\ Ends(c)
    /\ UNCHANGED <<rows, sent>>

\* The invocation raises, or its process dies; the OS lock goes with it.
Dies(c) ==
    /\ call[c].at # "idle"
    /\ Ends(c)
    /\ UNCHANGED <<request, rows, sent>>

\* PreCheck attaches a cycle to a result of an earlier release, with what it used.
AdoptLegacy(r) ==
    /\ Known(r) /\ ~request[r].tracked
    /\ request' = [request EXCEPT ![r].tracked = TRUE]
    /\ UNCHANGED <<rows, owner, call, sent>>

Step(c) ==
    \/ Admit(c) \/ Reserve(c) \/ Stop(c) \/ Send(c) \/ Record(c) \/ Finish(c) \/ Dies(c)

Next ==
    \/ \E c \in Calls :
         \/ Step(c)
         \/ \E r \in Requests, auth \in Authorizations : LookNew(c, r, auth)
    \/ \E r \in Requests : AnswerKnown(r) \/ AdoptLegacy(r)

Spec == Init /\ [][Next]_vars

-----------------------------------------------------------------------------
(* Properties *)

\* However often an execution dies, is reconciled and is recovered, the requests
\* really sent under an authorization and its recoveries stay within the ceiling
\* the Human accepted first (reserve before each call, by root).
CeilingHolds == \A r \in Requests : sent[r] <= Ceiling

\* The last result of a chain accounts for every request that was sent: exactly
\* when it says so, and otherwise with an upper bound (record_execution,
\* reconcile, invoke with the previous result).
ResultAccountsForAll ==
    \A r \in Requests :
        Closed(r) /\ (\A s \in Requests : Known(s) => request[s].prior # r) =>
            LET result == request[r].result
                really == sent[request[r].root]
            IN really <= result.used /\ (result.exact => really = result.used)

\* What a request has evidence for, recorded by itself or kept in the result of the
\* request it recovers, it does not ask for again, with whatever outcome (selected in
\* invoke, remaining_request, and the lock). Only that one result counts: see
\* RecoveryRetains for evidence of the requests before it.
EvidenceAskedOnce ==
    \A r \in Requests :
        Known(r) =>
            \A i \in DOMAIN rows[r] :
                LET k == rows[r][i].k
                IN /\ Before(r).status[k] # "success"
                   /\ \A j \in 1..i - 1 : ~(rows[r][j].k = k /\ rows[r][j].outcome = "success")

\* All of it, of what an authorization pays for (geo/journal.py, service.py).
LookupsAreAccountedFor ==
    TypeOK /\ CeilingHolds /\ ResultAccountsForAll /\ EvidenceAskedOnce

\* What docs/spec/contract/geo-query/index.md says of a recovery: "Successful and
\* valid no-result components are retained; only missing components may be
\* requested again." The code does not: a recovery that stops early leaves a kept
\* success out of its result, and the next recovery asks again (service.py:510).
RecoveryRetains ==
    \A r \in Requests :
        Closed(r) =>
            \A k \in Points :
                Before(r).status[k] = "success" => request[r].result.status[k] = "success"
=============================================================================
