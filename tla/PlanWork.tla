------------------------------ MODULE PlanWork ------------------------------
(***************************************************************************)
(* Plan Work (plan/work.py, _sqlite.py, _update_execution.py and           *)
(* _publication.py): concurrent create, update and seal invocations over   *)
(* one SQLite store, an update lock per Work, and the directory of frozen  *)
(* Plans. Every transaction of the store is one action, and so is every    *)
(* look at it outside a transaction. An invocation may be cancelled, may   *)
(* fail or may die with its process between any two of them, and a request *)
(* may be repeated by any number of invocations.                           *)
(***************************************************************************)
EXTENDS Naturals, FiniteSets

CONSTANTS
    Invokers,    \* invocations that can be under way at once
    Requests,    \* request ids the callers use
    Works,       \* Working States there can be
    Existing,    \* those created and saved before, by requests that are not repeated
    Contents,    \* organization contents that are submitted
    Candidates,  \* those of kind candidate; the others are drafts
    Edits,       \* what updates do to the organization: submit, keep or clear it
    Times,       \* instants of Human acceptance
    MaxRevision, \* bound: revisions of one Work
    MaxTouched,  \* bound: artifacts an outsider may have touched
    Foreign,     \* what an outsider leaves at an artifact's path
    None

ASSUME WorkConstants ==
    /\ Existing \subseteq Works
    /\ Candidates \subseteq Contents
    /\ Edits \subseteq Contents \cup {"keep", "clear"}
    /\ None \notin Contents \cup Invokers \cup {Foreign}
    /\ MaxRevision \in Nat \ {0}
    /\ MaxTouched \in Nat

VARIABLES
    work,       \* plan_works: state, revision, content, the sealed Plan
    receipts,   \* plan_requests: the request and the answer recorded for an id
    reserved,   \* plan_seal_reservations: the seal a Work is reserved for
    artifact,   \* the frozen Plan file of a Work
    owner,      \* who holds the update lock of a Work
    call,       \* where each invocation is, and its request
    answer,     \* what the last step answered, if it ended an invocation
    cancelled,  \* invocations that were asked to stop
    accepted,   \* what the Human has accepted: trusted confirmations
    touched     \* Works whose artifact an outsider has touched

storeVars == <<work, receipts, reserved>>
vars == <<work, receipts, reserved, artifact, owner, call, answer, cancelled, accepted, touched>>

Revisions == 1..MaxRevision

\* The content identity of a candidate; a draft has none.
IdentityOf(content) == IF content \in Candidates THEN content ELSE None

Acceptances ==
    [work : Works, revision : Revisions, identity : Candidates, at : Times]

\* The request as its digest binds it; a seal binds the confirmation too.
Bodies ==
    [op : {"create"}]
    \cup [op : {"update"}, work : Works, base : Revisions,
          content : Edits]
    \cup [op : {"seal"}, work : Works, revision : Revisions,
          identity : Candidates, by : Acceptances]

\* The frozen Plan a seal request publishes.
PlanOf(body) == [revision |-> body.revision, identity |-> body.identity, by |-> body.by]
Plans == [revision : Revisions, identity : Candidates, by : Acceptances]

\* What a Work is reserved for: one request.
Reservations == [id : Requests, body : Bodies]

\* What a Work holds at one moment.
Versions == [revision : Revisions, content : Contents \cup {None}]

\* The value that stands for nothing is none of these.
ASSUME NoneIsNothing ==
    None \notin Requests \cup Works \cup Bodies \cup Plans \cup Reservations \cup Versions

Places == {"idle", "lookup", "look", "recheck", "admit", "analyze", "commit", "verify",
           "reserve", "publish", "complete"}
Answers == {"none", "ok", "replayed", "rejected", "conflict", "refused", "cancelled", "lost"}

\* An invocation that has not begun, or has ended.
Unused == [at |-> "idle", id |-> None, body |-> None]

NoWork == [state |-> "none", revision |-> 0, content |-> None, plan |-> None]
NewWork == [NoWork EXCEPT !.state = "open", !.revision = 1]

TypeOK ==
    /\ work \in [Works -> [state : {"none", "open", "closed"}, revision : 0..MaxRevision,
                           content : Contents \cup {None}, plan : Plans \cup {None}]]
    /\ receipts \in [Requests -> Bodies \cup {None}]
    /\ reserved \in [Works -> Reservations \cup {None}]
    /\ artifact \in [Works -> Plans \cup {None, Foreign}]
    /\ owner \in [Works -> Invokers \cup {None}]
    /\ call \in [Invokers -> [at : Places, id : Requests \cup {None}, body : Bodies \cup {None}]]
    /\ answer \in Answers
    /\ cancelled \subseteq Invokers
    /\ accepted \subseteq Acceptances
    /\ touched \subseteq Works

Init ==
    /\ \E saved \in [Existing -> Contents \cup {None}] :
         work = [w \in Works |-> IF w \in Existing THEN [NewWork EXCEPT !.content = saved[w]]
                                                ELSE NoWork]
    /\ receipts = [r \in Requests |-> None]
    /\ reserved = [w \in Works |-> None]
    /\ artifact = [w \in Works |-> None]
    /\ owner = [w \in Works |-> None]
    /\ call = [c \in Invokers |-> Unused]
    /\ answer = "none"
    /\ cancelled = {}
    /\ accepted = {}
    /\ touched = {}

-----------------------------------------------------------------------------
(* How an invocation moves on and how it ends. Every end leaves the update *)
(* lock, by the context manager or because the process is gone.            *)

At(c, op, place) == call[c].at = place /\ call[c].body.op = op

MovesTo(c, place) ==
    /\ call' = [call EXCEPT ![c].at = place]
    /\ answer' = "none"
    /\ UNCHANGED <<owner, cancelled>>

Ends(c, reply) ==
    /\ call' = [call EXCEPT ![c] = Unused]
    /\ answer' = reply
    /\ cancelled' = cancelled \ {c}
    /\ owner' = [w \in Works |-> IF owner[w] = c THEN None ELSE owner[w]]

\* The receipt of the invocation's request id, if the request is the same.
Replays(c) == receipts[call[c].id] = call[c].body
Conflicts(c) == receipts[call[c].id] \notin {None, call[c].body}
Fresh(c) == receipts[call[c].id] = None

WorkOf(c) == call[c].body.work

\* UpdateExecution.checkpoint: only updates can be cancelled.
Stopped(c) == c \in cancelled

-----------------------------------------------------------------------------
(* The callers and the Human *)

\* A request arrives. A seal carries a confirmation the Human gave, which may
\* be for another content: such a request is refused before anything is read.
Begin(c) ==
    /\ call[c].at = "idle"
    /\ \E r \in Requests, body \in
            [op : {"create"}]
            \cup {b \in [op : {"update"}, work : Works, base : Revisions,
                         content : Edits] :
                    work[b.work].revision >= b.base}
            \cup {b \in [op : {"seal"}, work : Works, revision : Revisions,
                         identity : Candidates, by : accepted] :
                    work[b.work].revision >= b.revision} :
        IF body.op = "seal" /\ body.by.identity # body.identity
        THEN answer' = "refused" /\ UNCHANGED call
        ELSE /\ call' = [call EXCEPT ![c] = [at |-> "lookup", id |-> r, body |-> body]]
             /\ answer' = "none"
    /\ UNCHANGED <<storeVars, artifact, owner, cancelled, accepted, touched>>

\* The Human reviews the page of the current revision and accepts it.
Accept(w, t) ==
    /\ work[w].state = "open"
    /\ IdentityOf(work[w].content) # None
    /\ accepted' = accepted \cup {[work |-> w, revision |-> work[w].revision,
                                   identity |-> work[w].content, at |-> t]}
    /\ answer' = "none"
    /\ UNCHANGED <<storeVars, artifact, owner, call, cancelled, touched>>

\* The client cancels an update it is waiting for.
Cancel(c) ==
    /\ call[c].at # "idle"
    /\ call[c].body.op = "update"
    /\ cancelled' = cancelled \cup {c}
    /\ answer' = "none"
    /\ UNCHANGED <<storeVars, artifact, owner, call, accepted, touched>>

\* The invocation fails with an exception, or its process dies.
Dies(c) ==
    /\ call[c].at # "idle"
    /\ Ends(c, "lost")
    /\ UNCHANGED <<storeVars, artifact, accepted, touched>>

\* Somebody else writes to the path of a frozen Plan.
TouchArtifact(w) ==
    /\ work[w].state # "none"
    /\ Cardinality(touched \cup {w}) <= MaxTouched
    /\ artifact' = [artifact EXCEPT ![w] = Foreign]
    /\ touched' = touched \cup {w}
    /\ answer' = "none"
    /\ UNCHANGED <<storeVars, owner, call, cancelled, accepted>>

-----------------------------------------------------------------------------
(* create *)

LookupCreate(c) ==
    /\ At(c, "create", "lookup")
    /\ \/ Replays(c) /\ Ends(c, "replayed")
       \/ Conflicts(c) /\ Ends(c, "conflict")
       \/ Fresh(c) /\ \/ MovesTo(c, "commit")
                      \/ Ends(c, "refused")     \* the Result is not plan-ready
    /\ UNCHANGED <<storeVars, artifact, accepted, touched>>
\* Variant: the transaction does not ask for the receipt again.
CommitCreateBlindly(c) ==
    /\ At(c, "create", "commit") /\ Ends(c, "ok")
    /\ \E w \in Works :
          /\ work[w].state = "none"
          /\ work' = [work EXCEPT ![w] = NewWork]
    /\ receipts' = [receipts EXCEPT ![call[c].id] = call[c].body]
    /\ UNCHANGED <<reserved, artifact, accepted, touched>>

CommitCreate(c) ==
    /\ At(c, "create", "commit")
    /\ \/ /\ Replays(c) /\ Ends(c, "replayed")
          /\ UNCHANGED <<work, receipts>>
       \/ /\ Conflicts(c) /\ Ends(c, "conflict")
          /\ UNCHANGED <<work, receipts>>
       \/ /\ Fresh(c) /\ Ends(c, "ok")
          /\ \E w \in Works :
                /\ work[w].state = "none"
                /\ work' = [work EXCEPT ![w] = NewWork]
          /\ receipts' = [receipts EXCEPT ![call[c].id] = call[c].body]
    /\ UNCHANGED <<reserved, artifact, accepted, touched>>

-----------------------------------------------------------------------------
(* update *)

\* The first look of _update_preflight, for the receipt.
LookupUpdate(c) ==
    /\ At(c, "update", "lookup")
    /\ \/ Stopped(c) /\ Ends(c, "cancelled")
       \/ Replays(c) /\ Ends(c, "replayed")
       \/ Conflicts(c) /\ Ends(c, "conflict")
       \/ Fresh(c) /\ MovesTo(c, "look")
    /\ UNCHANGED <<storeVars, artifact, accepted, touched>>
\* Variant: a closed Work is not stale as long as its revision is the base.
StaleRevision(c) == work[WorkOf(c)].revision # call[c].body.base

Stale(c) == work[WorkOf(c)].state # "open" \/ work[WorkOf(c)].revision # call[c].body.base

\* The second look, for state and revision: once before the lock is taken, and
\* once while it is held.
LookUpdate(c) ==
    /\ At(c, "update", "look")
    /\ \/ work[WorkOf(c)].state = "none" /\ Ends(c, "refused")
       \/ work[WorkOf(c)].state # "none" /\ Stale(c) /\ MovesTo(c, "recheck")
       \/ ~Stale(c) /\ MovesTo(c, IF owner[WorkOf(c)] = c THEN "analyze" ELSE "admit")
    /\ UNCHANGED <<storeVars, artifact, accepted, touched>>

\* Variant: reject on the second look alone.
RejectAtOnce(c) ==
    /\ At(c, "update", "recheck") /\ Ends(c, "rejected")
    /\ UNCHANGED <<storeVars, artifact, accepted, touched>>

\* A commit may have landed between the two looks: ask for the receipt again
\* before rejecting.
RecheckUpdate(c) ==
    /\ At(c, "update", "recheck")
    /\ \/ Replays(c) /\ Ends(c, "replayed")
       \/ Conflicts(c) /\ Ends(c, "conflict")
       \/ Fresh(c) /\ Ends(c, "rejected")
    /\ UNCHANGED <<storeVars, artifact, accepted, touched>>

\* update_ownership: poll the lock, give up when cancelled, and look again once
\* it is held.
AdmitUpdate(c) ==
    /\ At(c, "update", "admit")
    /\ \/ Stopped(c) /\ Ends(c, "cancelled")
       \/ /\ ~Stopped(c)
          /\ owner[WorkOf(c)] = None
          /\ owner' = [owner EXCEPT ![WorkOf(c)] = c]
          /\ call' = [call EXCEPT ![c].at = "lookup"]
          /\ answer' = "none"
          /\ UNCHANGED cancelled
    /\ UNCHANGED <<storeVars, artifact, accepted, touched>>

\* analyze_candidate, with a checkpoint at every stage: the content is unsound,
\* or the Result cannot be read, or it passes.
AnalyzeUpdate(c) ==
    /\ At(c, "update", "analyze")
    /\ \/ Stopped(c) /\ Ends(c, "cancelled")
       \/ call[c].body.content \in Contents /\ Ends(c, "refused")
       \/ ~Stopped(c) /\ MovesTo(c, "commit")
    /\ UNCHANGED <<storeVars, artifact, accepted, touched>>

Saved(w, content) ==
    [w EXCEPT !.revision = @ + 1,
              !.content = CASE content = "keep" -> @
                            [] content = "clear" -> None
                            [] OTHER -> content]

\* Variant: an update does not mind a reservation.
CommitOverSeal(c) ==
    /\ At(c, "update", "commit")
    /\ Fresh(c) /\ ~Stale(c) /\ ~Stopped(c)
    /\ work[WorkOf(c)].revision < MaxRevision
    /\ work' = [work EXCEPT ![WorkOf(c)] = Saved(@, call[c].body.content)]
    /\ receipts' = [receipts EXCEPT ![call[c].id] = call[c].body]
    /\ Ends(c, "ok")
    /\ UNCHANGED <<reserved, artifact, accepted, touched>>

\* The transaction of SQLitePlanStore.update; begin_commit is where a cancel
\* and the commit are arbitrated.
CommitUpdate(c) ==
    /\ At(c, "update", "commit")
    /\ \/ /\ \/ Replays(c) /\ Ends(c, "replayed")
             \/ Conflicts(c) /\ Ends(c, "conflict")
             \/ Fresh(c) /\ Stale(c) /\ Ends(c, "rejected")
             \/ Fresh(c) /\ reserved[WorkOf(c)] # None /\ Ends(c, "refused")
             \/ Fresh(c) /\ ~Stale(c) /\ reserved[WorkOf(c)] = None /\ Stopped(c)
                /\ Ends(c, "cancelled")
          /\ UNCHANGED <<work, receipts>>
       \/ /\ Fresh(c) /\ ~Stale(c) /\ reserved[WorkOf(c)] = None /\ ~Stopped(c)
          /\ work[WorkOf(c)].revision < MaxRevision
          /\ work' = [work EXCEPT ![WorkOf(c)] = Saved(@, call[c].body.content)]
          /\ receipts' = [receipts EXCEPT ![call[c].id] = call[c].body]
          /\ Ends(c, "ok")
    /\ UNCHANGED <<reserved, artifact, accepted, touched>>

-----------------------------------------------------------------------------
(* seal *)

LookupSeal(c) ==
    /\ At(c, "seal", "lookup")
    /\ \/ Replays(c) /\ MovesTo(c, "verify")
       \/ Conflicts(c) /\ Ends(c, "conflict")
       \/ Fresh(c) /\ MovesTo(c, "look")
    /\ UNCHANGED <<storeVars, artifact, accepted, touched>>

\* A replayed seal answers only with an artifact that is still the Plan.
VerifySeal(c) ==
    /\ At(c, "seal", "verify")
    /\ Ends(c, IF artifact[WorkOf(c)] = PlanOf(call[c].body) THEN "replayed" ELSE "refused")
    /\ UNCHANGED <<storeVars, artifact, accepted, touched>>

\* The confirmation names this Work and this revision.
Bound(body) == body.by.work = body.work /\ body.by.revision = body.revision

LookSeal(c) ==
    /\ At(c, "seal", "look")
    /\ LET w == work[WorkOf(c)]
           body == call[c].body
           fits == Bound(body) /\ IdentityOf(w.content) = body.identity
       IN \/ (w.state # "open" \/ w.revision # body.revision) /\ Ends(c, "rejected")
          \/ w.state = "open" /\ w.revision = body.revision /\ fits /\ MovesTo(c, "reserve")
          \/ Ends(c, "refused")     \* does not fit, or the Result cannot be read
    /\ UNCHANGED <<storeVars, artifact, accepted, touched>>

\* The transaction of reserve_seal: the same request finds its reservation again.
ReserveSeal(c) ==
    /\ At(c, "seal", "reserve")
    /\ LET w == WorkOf(c)
           body == call[c].body
           mine == \E v \in Works : reserved[v] # None /\ reserved[v].id = call[c].id
           same == reserved[w] = [id |-> call[c].id, body |-> body]
       IN \/ /\ \/ ~Fresh(c) /\ Ends(c, IF Replays(c) THEN "refused" ELSE "conflict")
                \/ Fresh(c) /\ mine /\ same /\ MovesTo(c, "publish")
                \/ Fresh(c) /\ mine /\ ~same /\ Ends(c, "conflict")
                \/ /\ Fresh(c) /\ ~mine
                   /\ work[w].state # "open" \/ work[w].revision # body.revision
                   /\ Ends(c, "rejected")
                \/ /\ Fresh(c) /\ ~mine
                   /\ IdentityOf(work[w].content) # body.identity \/ reserved[w] # None
                   /\ Ends(c, "refused")
             /\ UNCHANGED reserved
          \/ /\ Fresh(c) /\ ~mine
             /\ work[w].state = "open" /\ work[w].revision = body.revision
             /\ IdentityOf(work[w].content) = body.identity
             /\ reserved[w] = None
             /\ reserved' = [reserved EXCEPT ![w] = [id |-> call[c].id, body |-> body]]
             /\ MovesTo(c, "publish")
    /\ UNCHANGED <<work, receipts, artifact, accepted, touched>>

\* FrozenPlanPublisher.publish and read_verified: an exclusive link of the whole
\* file, or the file that is there already if it has the reserved bytes.
PublishSeal(c) ==
    /\ At(c, "seal", "publish")
    /\ LET w == WorkOf(c)
           plan == PlanOf(call[c].body)
       IN \/ /\ artifact[w] \in {None, plan}
             /\ artifact' = [artifact EXCEPT ![w] = plan]
             /\ MovesTo(c, "complete")
          \/ /\ artifact[w] \notin {None, plan}
             /\ UNCHANGED artifact
             /\ Ends(c, "refused")
    /\ UNCHANGED <<storeVars, accepted, touched>>

\* The transaction of complete_seal.
CompleteSeal(c) ==
    /\ At(c, "seal", "complete")
    /\ LET w == WorkOf(c)
           body == call[c].body
           same == reserved[w] = [id |-> call[c].id, body |-> body]
           current == /\ work[w].state = "open" /\ work[w].revision = body.revision
                      /\ IdentityOf(work[w].content) = body.identity
       IN \/ /\ \/ Replays(c) /\ Ends(c, "replayed")
                \/ Conflicts(c) /\ Ends(c, "conflict")
                \/ Fresh(c) /\ ~(same /\ current) /\ Ends(c, "refused")
             /\ UNCHANGED storeVars
          \/ /\ Fresh(c) /\ same /\ current
             /\ work' = [work EXCEPT ![w].state = "closed", ![w].plan = PlanOf(body)]
             /\ receipts' = [receipts EXCEPT ![call[c].id] = body]
             /\ reserved' = [reserved EXCEPT ![w] = None]
             /\ Ends(c, "ok")
    /\ UNCHANGED <<artifact, accepted, touched>>

-----------------------------------------------------------------------------
Step(c) ==
    \/ LookupCreate(c) \/ CommitCreate(c)
    \/ LookupUpdate(c) \/ LookUpdate(c) \/ RecheckUpdate(c) \/ AdmitUpdate(c)
    \/ AnalyzeUpdate(c) \/ CommitUpdate(c)
    \/ LookupSeal(c) \/ VerifySeal(c) \/ LookSeal(c) \/ ReserveSeal(c)
    \/ PublishSeal(c) \/ CompleteSeal(c)

Next ==
    \/ \E c \in Invokers : Begin(c) \/ Cancel(c) \/ Dies(c) \/ Step(c)
    \/ \E w \in Works : TouchArtifact(w) \/ \E t \in Times : Accept(w, t)

Spec == Init /\ [][Next]_vars

-----------------------------------------------------------------------------
(* Properties *)

\* Between its three steps a seal cannot be overtaken: as long as a Work is
\* reserved it is open at the reserved revision and content, with an acceptance
\* that names exactly these; and every artifact that nobody touched is that of
\* a reserved or of a closed Work (reserve_seal, update, complete_seal).
SealCannotBeOvertaken ==
    \A w \in Works :
        /\ reserved[w] # None =>
               /\ work[w].state = "open"
               /\ work[w].revision = reserved[w].body.revision
               /\ work[w].content = reserved[w].body.identity
               /\ Bound(reserved[w].body)
               /\ reserved[w].body.by \in accepted
        /\ artifact[w] # None /\ w \notin touched =>
               \/ reserved[w] # None /\ artifact[w] = PlanOf(reserved[w].body)
               \/ work[w].state = "closed" /\ artifact[w] = work[w].plan
        /\ work[w].state = "closed" /\ w \notin touched => artifact[w] = work[w].plan

\* Identical requests repeated any number of times, at once or one after the
\* other, make one transition: the revisions of a Work are exactly the updates
\* recorded for it, and a Work exists for each recorded create.
OneTransitionPerRequest ==
    /\ \A w \in Works : work[w].state # "none" =>
           Cardinality({r \in Requests : receipts[r] # None /\ receipts[r].op = "update"
                                         /\ receipts[r].work = w}) = work[w].revision - 1
    /\ Cardinality({r \in Requests : receipts[r] # None /\ receipts[r].op = "create"})
           = Cardinality({w \in Works \ Existing : work[w].state # "none"})

\* What an update answers is the truth about its request: it is not rejected as
\* out of date, nor refused as in conflict with a seal, when the very same
\* request is the one that was committed (the recheck of _update_preflight and
\* the receipt lookup inside the transaction), and a cancelled one has changed
\* nothing (the gate of begin_commit).
UpdateAnswersTruly ==
    [][\A c \in Invokers :
         call[c].at # "idle" /\ call'[c].at = "idle" /\ call[c].body.op = "update" =>
              /\ answer' = "rejected" => receipts[call[c].id] # call[c].body
              /\ answer' = "cancelled" => work' = work
              /\ answer' \in {"ok", "replayed"} =>
                     receipts'[call[c].id] = call[c].body]_vars

\* PlanWork keeps the promise of PlanRegister.
VersionOf(w) == IF work[w].state = "none" THEN None
                ELSE [revision |-> work[w].revision, content |-> work[w].content]

Register == INSTANCE PlanRegister WITH
    Versions <- Versions,
    NoVersion <- None,
    current <- [w \in Works |-> VersionOf(w)],
    accepted <- [w \in Works |-> {[revision |-> a.revision, content |-> a.identity] :
                                     a \in {b \in accepted : b.work = w}}],
    sealed <- [w \in Works |-> IF work[w].plan = None THEN None
                               ELSE [revision |-> work[w].plan.revision,
                                     content |-> work[w].plan.identity]]

KeepsRegister == Register!Spec

=============================================================================
