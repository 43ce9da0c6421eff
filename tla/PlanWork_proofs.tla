---------------------------- MODULE PlanWork_proofs ----------------------------
(***************************************************************************)
(* Theorems about PlanWork for any number of invocations, requests, Works, *)
(* contents, acceptances and touched artifacts.                            *)
(***************************************************************************)
EXTENDS PlanWork, FiniteSetTheorems, TLAPS

-----------------------------------------------------------------------------
(* The inductive invariant, part by part. *)

\* An invocation under way has a request.
Busy == \A c \in Invokers : call[c].at # "idle" => call[c].id \in Requests /\ call[c].body \in Bodies

\* A seal request carries a confirmation the Human gave for its content.
Trusted(body) == body.op = "seal" => body.by \in accepted /\ body.by.identity = body.identity

\* The reservation a seal request makes.
ReservationOf(c) == [id |-> call[c].id, body |-> call[c].body]

\* A seal request beyond its checks names the Work and the revision that were
\* accepted. Once reserved, its Work keeps the reservation or is sealed by it,
\* and once published, its Plan is in its place.
CallsFit ==
    \A c \in Invokers : call[c].at # "idle" =>
        /\ Trusted(call[c].body)
        /\ call[c].at \in {"reserve", "publish", "complete"} =>
               call[c].body.op = "seal" /\ Bound(call[c].body)
        /\ call[c].at \in {"publish", "complete"} =>
               \/ reserved[WorkOf(c)] = ReservationOf(c)
               \/ work[WorkOf(c)].state = "closed" /\ work[WorkOf(c)].plan = PlanOf(call[c].body)
        /\ call[c].at = "complete" =>
               WorkOf(c) \in touched \/ artifact[WorkOf(c)] = PlanOf(call[c].body)

\* A reserved Work is open at the reserved version.
ReservationsFit ==
    \A w \in Works : reserved[w] # None =>
        LET body == reserved[w].body IN
        /\ body.op = "seal" /\ body.work = w /\ Bound(body) /\ Trusted(body)
        /\ work[w].state = "open" /\ work[w].revision = body.revision
        /\ work[w].content = body.identity

\* Only sealed Works have a Plan, and what nobody touched is that of a reserved
\* or a sealed Work.
ArtifactsFit ==
    \A w \in Works :
        /\ work[w].state # "closed" => work[w].plan = None
        /\ work[w].state = "closed" /\ w \notin touched => artifact[w] = work[w].plan
        /\ artifact[w] # None /\ w \notin touched =>
               \/ reserved[w] # None /\ artifact[w] = PlanOf(reserved[w].body)
               \/ work[w].state = "closed" /\ artifact[w] = work[w].plan

\* A Work that exists has a revision; nothing is accepted of a Work, or
\* recorded for it, before it exists, and no revision before it was saved.
PastFits ==
    /\ \A a \in accepted : work[a.work].state # "none" /\ a.revision <= work[a.work].revision
    /\ \A r \in Requests : receipts[r] # None /\ receipts[r].op = "update" =>
           work[receipts[r].work].state # "none"
    /\ \A w \in Works : work[w].state # "none" => work[w].revision >= 1

SealInv == TypeOK /\ Busy /\ CallsFit /\ ReservationsFit /\ ArtifactsFit /\ PastFits

-----------------------------------------------------------------------------
(* Data *)

\* The requests, by their operation.
LEMMA BodyKinds ==
    ASSUME NEW b \in Bodies
    PROVE  /\ b.op \in {"create", "update", "seal"}
           /\ b # None
           /\ b.op = "update" => /\ b.work \in Works /\ b.base \in Revisions
                                 /\ b.content \in Edits
           /\ b.op = "seal" => /\ b.work \in Works /\ b.revision \in Revisions
                               /\ b.identity \in Candidates /\ b.by \in Acceptances
                               /\ PlanOf(b) \in Plans /\ PlanOf(b) # None
BY NoneIsNothing DEF Bodies, Plans, PlanOf

\* A content that has the identity of a candidate is that candidate.
LEMMA Identities ==
    ASSUME NEW content \in Contents \cup {None}, NEW identity \in Candidates
    PROVE  IdentityOf(content) = identity => content = identity
BY WorkConstants DEF IdentityOf

\* The rows of Works, and the first of each.
WorkRecords == [state : {"none", "open", "closed"}, revision : 0..MaxRevision,
                content : Contents \cup {None}, plan : Plans \cup {None}]

LEMMA NewWorkType ==
    ASSUME NEW content \in Contents \cup {None}
    PROVE  /\ NoWork \in WorkRecords /\ NewWork \in WorkRecords
           /\ [NewWork EXCEPT !.content = content] \in WorkRecords
           /\ NewWork.state = "open" /\ NewWork.revision = 1 /\ NewWork.plan = None
           /\ [NewWork EXCEPT !.content = content].state = "open"
           /\ [NewWork EXCEPT !.content = content].revision = 1
           /\ [NewWork EXCEPT !.content = content].plan = None
<1>1. 0 \in 0..MaxRevision /\ 1 \in 0..MaxRevision
  BY WorkConstants
<1>2. NoWork \in WorkRecords
  BY <1>1 DEF WorkRecords, NoWork
<1>3. /\ NewWork \in WorkRecords
      /\ NewWork.state = "open" /\ NewWork.revision = 1 /\ NewWork.plan = None
  BY <1>1, <1>2 DEF WorkRecords, NewWork, NoWork
<1> QED BY <1>2, <1>3 DEF WorkRecords

\* A saved Work is one.
LEMMA SavedType ==
    ASSUME TypeOK, NEW w \in Works, work[w].revision < MaxRevision, NEW content \in Edits
    PROVE  Saved(work[w], content) \in WorkRecords
<1>1. content \in Contents \cup {"keep", "clear"}
  BY WorkConstants
<1>2. work[w] \in WorkRecords
  BY DEF TypeOK, WorkRecords
<1>3. work[w].revision + 1 \in 0..MaxRevision
  BY <1>2, WorkConstants DEF WorkRecords
<1> QED BY <1>1, <1>2, <1>3 DEF Saved, WorkRecords

\* The Works and the calls of the type invariant.
LEMMA Fields ==
    ASSUME TypeOK
    PROVE  /\ \A w \in Works : /\ work[w].state \in {"none", "open", "closed"}
                               /\ work[w].revision \in Nat
                               /\ work[w].content \in Contents \cup {None}
           /\ \A a \in accepted : a.work \in Works /\ a.revision \in Nat /\ a.identity \in Candidates
BY WorkConstants DEF TypeOK, Acceptances, Revisions

-----------------------------------------------------------------------------
(* Steps by what they do to a call *)

\* The calls' part of the type invariant, and that of what goes with them.
CallsTyped ==
    /\ call \in [Invokers -> [at : Places, id : Requests \cup {None}, body : Bodies \cup {None}]]
    /\ owner \in [Works -> Invokers \cup {None}]
    /\ cancelled \subseteq Invokers /\ answer \in Answers

\* The step only moves a call on, or ends it: nothing is stored.
Passes(c) ==
    /\ call[c].at # "idle"
    /\ UNCHANGED <<work, receipts, reserved, artifact, accepted, touched>>
    /\ CallsTyped'
    /\ \/ call' = call
       \/ call' = [call EXCEPT ![c] = Unused]
       \/ \E p \in Places \ {"idle", "publish", "complete"} :
             /\ call' = [call EXCEPT ![c].at = p]
             /\ p = "reserve" => call[c].body.op = "seal" /\ Bound(call[c].body)

\* A call that moves on or ends keeps its type.
LEMMA MovesType ==
    ASSUME TypeOK, NEW c \in Invokers, NEW place \in Places, MovesTo(c, place)
    PROVE  CallsTyped' /\ call' = [call EXCEPT ![c].at = place]
BY DEF TypeOK, CallsTyped, MovesTo, Answers

LEMMA EndsType ==
    ASSUME TypeOK, NEW c \in Invokers, NEW reply \in Answers, Ends(c, reply)
    PROVE  CallsTyped' /\ call' = [call EXCEPT ![c] = Unused]
BY DEF TypeOK, CallsTyped, Ends, Unused, Places

\* The looks, refusals, waits and cancellations store nothing.
LEMMA QuietSteps ==
    ASSUME TypeOK, NEW c \in Invokers,
           \/ Cancel(c) \/ Dies(c) \/ LookupCreate(c) \/ LookupUpdate(c) \/ LookUpdate(c)
           \/ RecheckUpdate(c) \/ AdmitUpdate(c) \/ AnalyzeUpdate(c) \/ LookupSeal(c)
           \/ VerifySeal(c) \/ LookSeal(c)
    PROVE  Passes(c)
<1> USE MovesType, EndsType DEF Passes, storeVars, At, Places, Answers
<1>1. CASE Cancel(c)        BY <1>1 DEF Cancel, CallsTyped, TypeOK
<1>2. CASE Dies(c)          BY <1>2 DEF Dies
<1>3. CASE LookupCreate(c)  BY <1>3 DEF LookupCreate
<1>4. CASE LookupUpdate(c)  BY <1>4 DEF LookupUpdate
<1>5. CASE LookUpdate(c)    BY <1>5 DEF LookUpdate
<1>6. CASE RecheckUpdate(c) BY <1>6 DEF RecheckUpdate
<1>7. CASE AdmitUpdate(c)
  <2>1. CASE Ends(c, "cancelled") BY <1>7, <2>1 DEF AdmitUpdate
  <2>2. CASE ~Ends(c, "cancelled")
    <3>1. /\ call' = [call EXCEPT ![c].at = "lookup"] /\ answer' = "none" /\ cancelled' = cancelled
          /\ owner' = [owner EXCEPT ![WorkOf(c)] = c]
      BY <1>7, <2>2 DEF AdmitUpdate
    <3>2. owner' \in [Works -> Invokers \cup {None}] BY <3>1 DEF TypeOK
    <3> DEFINE new == [call[c] EXCEPT !.at = "lookup"]
    <3>3. call' \in [Invokers -> [at : Places, id : Requests \cup {None}, body : Bodies \cup {None}]]
      <4>1. new \in [at : Places, id : Requests \cup {None}, body : Bodies \cup {None}]
        <5>1. call[c] \in [at : Places, id : Requests \cup {None}, body : Bodies \cup {None}]
          BY DEF TypeOK
        <5>2. "lookup" \in Places OBVIOUS
        <5> HIDE DEF Places, TypeOK
        <5> QED BY ONLY <5>1, <5>2
      <4>2. call' = [call EXCEPT ![c] = new] BY <3>1 DEF TypeOK
      <4> QED BY <4>1, <4>2 DEF TypeOK
    <3>4. CallsTyped' BY <3>1, <3>2, <3>3 DEF CallsTyped, TypeOK
    <3>5. \E p \in Places \ {"idle", "publish", "complete"} :
            /\ call' = [call EXCEPT ![c].at = p]
            /\ p = "reserve" => call[c].body.op = "seal" /\ Bound(call[c].body)
      <4>1. "lookup" \in Places \ {"idle", "publish", "complete"} /\ "lookup" # "reserve"
        OBVIOUS
      <4> QED BY <3>1, <4>1
    <3> QED BY <1>7, <3>4, <3>5 DEF AdmitUpdate
  <2> QED BY <2>1, <2>2
<1>8. CASE AnalyzeUpdate(c) BY <1>8 DEF AnalyzeUpdate
<1>9. CASE LookupSeal(c)    BY <1>9 DEF LookupSeal
<1>10. CASE VerifySeal(c)   BY <1>10 DEF VerifySeal
<1>11. CASE LookSeal(c)     BY <1>11 DEF LookSeal
<1> QED BY <1>1, <1>2, <1>3, <1>4, <1>5, <1>6, <1>7, <1>8, <1>9, <1>10, <1>11

\* The transaction of create answers, or makes a Work and its receipt.
Creates(c, w) ==
    /\ At(c, "create", "commit") /\ Fresh(c) /\ Ends(c, "ok")
    /\ work[w].state = "none"
    /\ work' = [work EXCEPT ![w] = NewWork]
    /\ receipts' = [receipts EXCEPT ![call[c].id] = call[c].body]
    /\ UNCHANGED <<reserved, artifact, accepted, touched>>

LEMMA CreateSteps ==
    ASSUME TypeOK, NEW c \in Invokers, CommitCreate(c)
    PROVE  Passes(c) \/ \E w \in Works : Creates(c, w)
BY EndsType DEF CommitCreate, Creates, Passes, At, Answers, storeVars

\* That of update answers, or saves the next revision and its receipt.
Saves(c) ==
    /\ At(c, "update", "commit") /\ Fresh(c) /\ ~Stale(c) /\ ~Stopped(c) /\ Ends(c, "ok")
    /\ reserved[WorkOf(c)] = None
    /\ work[WorkOf(c)].revision < MaxRevision
    /\ work' = [work EXCEPT ![WorkOf(c)] = Saved(@, call[c].body.content)]
    /\ receipts' = [receipts EXCEPT ![call[c].id] = call[c].body]
    /\ UNCHANGED <<reserved, artifact, accepted, touched>>

LEMMA UpdateSteps ==
    ASSUME TypeOK, NEW c \in Invokers, CommitUpdate(c)
    PROVE  Passes(c) \/ Saves(c)
BY EndsType DEF CommitUpdate, Saves, Passes, At, Answers, storeVars

\* That of reserve_seal answers, or leaves the Work with this reservation.
Reserves(c) ==
    /\ At(c, "seal", "reserve") /\ MovesTo(c, "publish")
    /\ \/ reserved[WorkOf(c)] = ReservationOf(c)
       \/ /\ reserved[WorkOf(c)] = None
          /\ work[WorkOf(c)].state = "open"
          /\ work[WorkOf(c)].revision = call[c].body.revision
          /\ IdentityOf(work[WorkOf(c)].content) = call[c].body.identity
    /\ reserved' = [reserved EXCEPT ![WorkOf(c)] = ReservationOf(c)]
    /\ UNCHANGED <<work, receipts, artifact, accepted, touched>>

LEMMA ReserveSteps ==
    ASSUME TypeOK, NEW c \in Invokers, ReserveSeal(c), WorkOf(c) \in Works
    PROVE  Passes(c) \/ Reserves(c)
BY EndsType DEF ReserveSeal, Reserves, Passes, At, Answers, storeVars, ReservationOf, TypeOK

\* The publication refuses, or leaves the Plan in its place.
Publishes(c) ==
    /\ At(c, "seal", "publish") /\ MovesTo(c, "complete")
    /\ artifact[WorkOf(c)] \in {None, PlanOf(call[c].body)}
    /\ artifact' = [artifact EXCEPT ![WorkOf(c)] = PlanOf(call[c].body)]
    /\ UNCHANGED <<work, receipts, reserved, accepted, touched>>

LEMMA PublishSteps ==
    ASSUME TypeOK, NEW c \in Invokers, PublishSeal(c)
    PROVE  Passes(c) \/ Publishes(c)
BY EndsType DEF PublishSeal, Publishes, Passes, At, Answers, storeVars

\* The transaction of complete_seal answers, or seals the reserved version.
Completes(c) ==
    /\ At(c, "seal", "complete") /\ Fresh(c) /\ Ends(c, "ok")
    /\ reserved[WorkOf(c)] = ReservationOf(c)
    /\ work[WorkOf(c)].state = "open" /\ work[WorkOf(c)].revision = call[c].body.revision
    /\ IdentityOf(work[WorkOf(c)].content) = call[c].body.identity
    /\ work' = [work EXCEPT ![WorkOf(c)].state = "closed", ![WorkOf(c)].plan = PlanOf(call[c].body)]
    /\ receipts' = [receipts EXCEPT ![call[c].id] = call[c].body]
    /\ reserved' = [reserved EXCEPT ![WorkOf(c)] = None]
    /\ UNCHANGED <<artifact, accepted, touched>>

LEMMA CompleteSteps ==
    ASSUME TypeOK, NEW c \in Invokers, CompleteSeal(c)
    PROVE  Passes(c) \/ Completes(c)
BY EndsType DEF CompleteSeal, Completes, Passes, At, Answers, storeVars, ReservationOf

\* A request that begins gets a fresh call.
Begins(c, r, body) ==
    /\ call[c].at = "idle"
    /\ call' = [call EXCEPT ![c] = [at |-> "lookup", id |-> r, body |-> body]]
    /\ Trusted(body)
    /\ UNCHANGED <<work, receipts, reserved, artifact, accepted, touched>>

LEMMA BeginSteps ==
    ASSUME TypeOK, NEW c \in Invokers, Begin(c)
    PROVE  /\ CallsTyped' /\ UNCHANGED <<work, receipts, reserved, artifact, accepted, touched>>
           /\ call' = call \/ \E r \in Requests, body \in Bodies : Begins(c, r, body)
<1>1. accepted \subseteq Acceptances
  BY DEF TypeOK
<1>2. call' = call \/ \E r \in Requests, body \in Bodies : Begins(c, r, body)
  BY <1>1 DEF Begin, Begins, Bodies, Trusted, storeVars
<1>3. CallsTyped'
  <2>1. owner' = owner /\ cancelled' = cancelled /\ answer' \in Answers
    BY DEF Begin, Answers
  <2>2. call' \in [Invokers -> [at : Places, id : Requests \cup {None}, body : Bodies \cup {None}]]
    BY <1>2 DEF Begins, TypeOK, Places
  <2> QED BY <2>1, <2>2 DEF CallsTyped, TypeOK
<1> QED BY <1>2, <1>3 DEF Begin, storeVars

\* What a step may do.
LEMMA Steps ==
    ASSUME TypeOK, Busy, Next
    PROVE  \/ \E c \in Invokers : Begin(c) \/ Passes(c) \/ Saves(c) \/ Reserves(c) \/ Publishes(c) \/ Completes(c)
           \/ \E c \in Invokers, w \in Works : Creates(c, w)
           \/ \E w \in Works : TouchArtifact(w) \/ \E t \in Times : Accept(w, t)
<1>1. ASSUME NEW c \in Invokers, ReserveSeal(c) PROVE WorkOf(c) \in Works
  BY <1>1, BodyKinds DEF ReserveSeal, At, Busy, WorkOf
<1> QED BY <1>1, QuietSteps, CreateSteps, UpdateSteps, ReserveSteps, PublishSteps, CompleteSteps DEF Next, Step

-----------------------------------------------------------------------------
(* The invariant *)

\* Initially.
LEMMA SealInit == Init => SealInv
<1> SUFFICES ASSUME Init PROVE SealInv
  OBVIOUS
<1>1. PICK saved \in [Existing -> Contents \cup {None}] :
        work = [w \in Works |-> IF w \in Existing THEN [NewWork EXCEPT !.content = saved[w]] ELSE NoWork]
  BY DEF Init
<1>2. \A w \in Works : /\ work[w] \in WorkRecords
                       /\ work[w].state # "closed" /\ work[w].plan = None
                       /\ work[w].state # "none" => work[w].revision = 1
  <2> SUFFICES ASSUME NEW w \in Works
               PROVE  /\ work[w] \in WorkRecords
                      /\ work[w].state # "closed" /\ work[w].plan = None
                      /\ work[w].state # "none" => work[w].revision = 1
    OBVIOUS
  <2>1. CASE w \in Existing
    <3>1. work[w] = [NewWork EXCEPT !.content = saved[w]] /\ saved[w] \in Contents \cup {None}
      BY <1>1, <2>1
    <3> QED BY <3>1, NewWorkType
  <2>2. CASE w \notin Existing
    <3>1. work[w] = NoWork
      BY <1>1, <2>2
    <3>2. NoWork.state = "none" /\ NoWork.plan = None
      BY DEF NoWork
    <3> QED BY <3>1, <3>2, NewWorkType
  <2> QED BY <2>1, <2>2
<1>3. TypeOK
  <2>1. work = [w \in Works |-> work[w]]
    BY <1>1
  <2>2. work \in [Works -> WorkRecords]
    BY <1>2, <2>1
  <2> QED BY <2>2 DEF Init, TypeOK, Unused, Places, Answers, WorkRecords
<1>4. \A c \in Invokers : call[c].at = "idle"
  BY DEF Init, Unused
<1>5. ReservationsFit /\ ArtifactsFit
  BY <1>2 DEF Init, ReservationsFit, ArtifactsFit
<1>6. PastFits
  <2>1. \A w \in Works : work[w].state # "none" => work[w].revision >= 1
    BY <1>2
  <2> QED BY <2>1 DEF Init, PastFits
<1> QED
  BY <1>3, <1>4, <1>5, <1>6 DEF SealInv, Busy, CallsFit

\* A step that stores nothing.
LEMMA PassesKeeps ==
    ASSUME SealInv, NEW c \in Invokers, Passes(c)
    PROVE  SealInv'
<1> USE DEF SealInv, Passes
<1>1. TypeOK' BY DEF TypeOK, CallsTyped
<1>2. \A d \in Invokers : call'[d].at # "idle" =>
        /\ call[d].at # "idle" /\ call'[d].id = call[d].id /\ call'[d].body = call[d].body
        /\ \/ call'[d].at = call[d].at
           \/ /\ call'[d].at \notin {"publish", "complete"}
              /\ call'[d].at = "reserve" => call[d].body.op = "seal" /\ Bound(call[d].body)
  BY DEF TypeOK, Unused
<1>3. Busy' BY <1>2 DEF Busy
<1>4. CallsFit' BY <1>2 DEF CallsFit, Trusted, WorkOf, ReservationOf
<1>5. ReservationsFit' /\ ArtifactsFit' /\ PastFits'
  BY DEF ReservationsFit, Trusted, ArtifactsFit, PastFits
<1> QED BY <1>1, <1>3, <1>4, <1>5

\* A request begins.
LEMMA BeginKeeps ==
    ASSUME SealInv, NEW c \in Invokers, Begin(c)
    PROVE  SealInv'
<1> USE DEF SealInv
<1>1. TypeOK' BY BeginSteps DEF TypeOK, CallsTyped
<1>2. UNCHANGED <<work, receipts, reserved, artifact, accepted, touched>>
  BY BeginSteps
<1>3. \A d \in Invokers : \/ call'[d] = call[d]
                       \/ /\ call'[d].at = "lookup" /\ call'[d].id \in Requests
                          /\ call'[d].body \in Bodies /\ Trusted(call'[d].body)
  BY BeginSteps DEF Begins, TypeOK
<1>4. Busy' BY <1>3 DEF Busy
<1>5. CallsFit' BY <1>2, <1>3 DEF CallsFit, Trusted, WorkOf, ReservationOf
<1>6. ReservationsFit' /\ ArtifactsFit' /\ PastFits'
  BY <1>2 DEF ReservationsFit, Trusted, ArtifactsFit, PastFits
<1> QED BY <1>1, <1>4, <1>5, <1>6

\* The Human accepts the saved candidate.
LEMMA AcceptKeeps ==
    ASSUME SealInv, NEW w \in Works, NEW t \in Times, Accept(w, t)
    PROVE  SealInv'
<1> DEFINE a == [work |-> w, revision |-> work[w].revision, identity |-> work[w].content, at |-> t]
<1> USE DEF SealInv, Accept, storeVars
<1>1. a \in Acceptances
  <2>1. work[w].content \in Candidates
    BY WorkConstants DEF IdentityOf
  <2>2. work[w].revision \in Revisions
    BY WorkConstants DEF TypeOK, PastFits, Revisions
  <2> QED BY <2>1, <2>2 DEF Acceptances
<1>2. accepted' = accepted \cup {a}
  OBVIOUS
<1>3. TypeOK' BY <1>1, <1>2 DEF TypeOK, Answers
<1>4. Busy' BY DEF Busy
<1>5. CallsFit' BY <1>2 DEF CallsFit, Trusted, WorkOf, ReservationOf
<1>6. ReservationsFit' BY <1>2 DEF ReservationsFit, Trusted
<1>7. ArtifactsFit' BY DEF ArtifactsFit
<1>8. PastFits' BY <1>2, Fields DEF PastFits
<1> QED BY <1>3, <1>4, <1>5, <1>6, <1>7, <1>8

\* Somebody touches an artifact.
LEMMA TouchKeeps ==
    ASSUME SealInv, NEW w \in Works, TouchArtifact(w)
    PROVE  SealInv'
<1> USE DEF SealInv, TouchArtifact, storeVars
<1>1. TypeOK' BY DEF TypeOK, Answers
<1>2. Busy' BY DEF Busy
<1>3. \A v \in Works : v \in touched' \/ (v \notin touched /\ artifact'[v] = artifact[v])
  BY DEF TypeOK
<1>4. CallsFit'
  BY <1>3, BodyKinds DEF CallsFit, Busy, Trusted, WorkOf, ReservationOf
<1>5. ArtifactsFit' BY <1>3 DEF ArtifactsFit
<1>6. ReservationsFit' /\ PastFits' BY DEF ReservationsFit, Trusted, PastFits
<1> QED BY <1>1, <1>2, <1>4, <1>5, <1>6

\* The calls after one of them has ended.
LEMMA EndedCalls ==
    ASSUME SealInv, NEW c \in Invokers, call' = [call EXCEPT ![c] = Unused]
    PROVE  Busy' /\ \A d \in Invokers : call'[d].at # "idle" => d # c /\ call'[d] = call[d]
BY DEF SealInv, TypeOK, Busy, Unused

\* What CallsFit says of one call in the next state.
FitsNext(d) ==
    /\ call'[d].body.op = "seal" =>
           call'[d].body.by \in accepted' /\ call'[d].body.by.identity = call'[d].body.identity
    /\ call'[d].at \in {"reserve", "publish", "complete"} =>
           call'[d].body.op = "seal" /\ Bound(call'[d].body)
    /\ call'[d].at \in {"publish", "complete"} =>
           \/ reserved'[call'[d].body.work] = [id |-> call'[d].id, body |-> call'[d].body]
           \/ /\ work'[call'[d].body.work].state = "closed"
              /\ work'[call'[d].body.work].plan = PlanOf(call'[d].body)
    /\ call'[d].at = "complete" =>
           \/ call'[d].body.work \in touched'
           \/ artifact'[call'[d].body.work] = PlanOf(call'[d].body)

LEMMA NextFits == (\A d \in Invokers : call'[d].at # "idle" => FitsNext(d)) => CallsFit'
BY DEF FitsNext, CallsFit, Trusted, WorkOf, ReservationOf

\* A receipt is recorded.
LEMMA ReceiptType ==
    ASSUME SealInv, NEW c \in Invokers, call[c].at # "idle",
           receipts' = [receipts EXCEPT ![call[c].id] = call[c].body]
    PROVE  receipts' \in [Requests -> Bodies \cup {None}]
BY DEF SealInv, TypeOK, Busy

\* create makes a Work.
LEMMA CreatesKeeps ==
    ASSUME SealInv, NEW c \in Invokers, NEW w \in Works, Creates(c, w)
    PROVE  SealInv'
<1> USE DEF SealInv, Creates
<1>1. CallsTyped' /\ call' = [call EXCEPT ![c] = Unused]
  BY EndsType DEF Answers
<1>2. call[c].at # "idle" /\ call[c].id \in Requests /\ call[c].body.op = "create"
  BY DEF At, Busy
<1>3. work' \in [Works -> WorkRecords]
  BY NewWorkType DEF TypeOK, WorkRecords
<1>4. TypeOK' BY <1>1, <1>2, <1>3, ReceiptType DEF TypeOK, CallsTyped, WorkRecords
<1>5. /\ \A v \in Works \ {w} : work'[v] = work[v]
      /\ work'[w].state = "open" /\ work'[w].revision = 1 /\ work'[w].plan = None
  BY NewWorkType DEF TypeOK
<1>6. CallsFit'
  <2> SUFFICES ASSUME NEW d \in Invokers, call'[d].at # "idle"
               PROVE  FitsNext(d)
    BY NextFits
  <2>1. call[d].at # "idle" /\ call'[d] = call[d]
    BY <1>1, EndedCalls
  <2>2. call[d].at \in {"publish", "complete"} => call[d].body.work \in Works
    BY <2>1, BodyKinds DEF CallsFit, Busy
  <2> QED BY <1>5, <2>1, <2>2 DEF CallsFit, Trusted, WorkOf, ReservationOf, FitsNext, TypeOK
<1>7. ReservationsFit' BY <1>5 DEF ReservationsFit, Trusted
<1>8. ArtifactsFit' BY <1>5 DEF ArtifactsFit, ReservationsFit
<1>9. PastFits'
  <2>1. \A r \in Requests : receipts'[r] # None /\ receipts'[r].op = "update" => receipts'[r] = receipts[r]
    BY <1>2 DEF TypeOK
  <2>2. \A r \in Requests : receipts[r] # None /\ receipts[r].op = "update" => receipts[r].work \in Works
    BY BodyKinds DEF TypeOK
  <2> QED BY <1>5, <2>1, <2>2, Fields DEF PastFits
<1> QED BY <1>1, <1>4, <1>6, <1>7, <1>8, <1>9, EndedCalls

\* update saves a revision.
LEMMA SavesKeeps ==
    ASSUME SealInv, NEW c \in Invokers, Saves(c)
    PROVE  SealInv'
<1> DEFINE w == WorkOf(c)
<1> USE DEF SealInv, Saves
<1>1. CallsTyped' /\ call' = [call EXCEPT ![c] = Unused]
  BY EndsType DEF Answers
<1>2. /\ call[c].at # "idle" /\ call[c].id \in Requests
      /\ call[c].body \in Bodies /\ call[c].body.op = "update"
  BY DEF At, Busy
<1>3. w \in Works /\ call[c].body.content \in Edits
  BY <1>2, BodyKinds DEF WorkOf
<1>4. work[w].state = "open" /\ reserved[w] = None
  BY <1>3 DEF Stale, WorkOf
<1>5. TypeOK'
  <2>1. work' \in [Works -> WorkRecords]
    BY <1>3, SavedType DEF TypeOK, WorkRecords
  <2> QED BY <1>1, <1>2, <2>1, ReceiptType DEF TypeOK, CallsTyped, WorkRecords
<1>6. /\ \A v \in Works \ {w} : work'[v] = work[v]
      /\ work'[w].state = "open" /\ work'[w].revision = work[w].revision + 1
      /\ work'[w].plan = work[w].plan
  BY <1>3, <1>4, SMTT(30) DEF TypeOK, Saved
<1>7. CallsFit'
  <2> SUFFICES ASSUME NEW d \in Invokers, call'[d].at # "idle"
               PROVE  FitsNext(d)
    BY NextFits
  <2>1. call[d].at # "idle" /\ call'[d] = call[d]
    BY <1>1, EndedCalls
  <2>2. call[d].at \in {"publish", "complete"} => call[d].body.work \in Works
    BY <2>1, BodyKinds DEF CallsFit, Busy
  <2> QED BY <1>4, <1>6, <2>1, <2>2 DEF CallsFit, Trusted, WorkOf, ReservationOf, FitsNext
<1>8. ReservationsFit' BY <1>4, <1>6 DEF ReservationsFit, Trusted
<1>9. ArtifactsFit' BY <1>4, <1>6 DEF ArtifactsFit
<1>10. PastFits'
  <2>1. \A r \in Requests : receipts'[r] = receipts[r] \/ receipts'[r] = call[c].body
    BY <1>2 DEF TypeOK
  <2>2. \A r \in Requests : receipts[r] # None /\ receipts[r].op = "update" => receipts[r].work \in Works
    BY BodyKinds DEF TypeOK
  <2>3. call[c].body.work = w
    BY DEF WorkOf
  <2> QED BY <1>3, <1>6, <2>1, <2>2, <2>3, Fields DEF PastFits
<1> QED BY <1>1, <1>5, <1>7, <1>8, <1>9, <1>10, EndedCalls

\* A seal moves on with its Work reserved, published, or both.
LEMMA SealMoves ==
    ASSUME SealInv, NEW c \in Invokers, NEW p \in {"publish", "complete"},
           At(c, "seal", "reserve") \/ At(c, "seal", "publish"), MovesTo(c, p)
    PROVE  /\ CallsTyped' /\ Busy' /\ WorkOf(c) \in Works
           /\ call[c].id \in Requests /\ call[c].body \in Bodies /\ call[c].body.op = "seal"
           /\ Bound(call[c].body) /\ Trusted(call[c].body)
           /\ \A d \in Invokers : /\ call'[d].id = call[d].id /\ call'[d].body = call[d].body
                               /\ call'[d].at = IF d = c THEN p ELSE call[d].at
<1>1. CallsTyped' /\ call' = [call EXCEPT ![c].at = p]
  BY MovesType DEF SealInv, Places
<1>2. /\ call[c].at \in {"reserve", "publish"} /\ call[c].id \in Requests
      /\ call[c].body \in Bodies /\ call[c].body.op = "seal"
  BY DEF At, SealInv, Busy
<1>3. \A d \in Invokers : /\ call'[d].id = call[d].id /\ call'[d].body = call[d].body
                       /\ call'[d].at = IF d = c THEN p ELSE call[d].at
  BY <1>1 DEF SealInv, TypeOK
<1>4. Busy' BY <1>2, <1>3 DEF SealInv, Busy
<1>5. WorkOf(c) \in Works BY <1>2, BodyKinds DEF WorkOf
<1>6. Bound(call[c].body) /\ Trusted(call[c].body) BY <1>2 DEF SealInv, CallsFit
<1> QED BY <1>1, <1>2, <1>3, <1>4, <1>5, <1>6

\* reserve_seal leaves the Work reserved.
LEMMA ReservesKeeps ==
    ASSUME SealInv, NEW c \in Invokers, Reserves(c)
    PROVE  SealInv'
<1> DEFINE w == WorkOf(c)
<1> USE DEF SealInv, Reserves
<1>1. /\ CallsTyped' /\ Busy' /\ w \in Works
      /\ call[c].id \in Requests /\ call[c].body \in Bodies /\ call[c].body.op = "seal"
      /\ Bound(call[c].body) /\ Trusted(call[c].body)
      /\ \A d \in Invokers : /\ call'[d].id = call[d].id /\ call'[d].body = call[d].body
                          /\ call'[d].at = IF d = c THEN "publish" ELSE call[d].at
  BY SealMoves
<1>2. \A v \in Works : reserved'[v] = IF v = w THEN ReservationOf(c) ELSE reserved[v]
  BY <1>1 DEF TypeOK
<1>3. TypeOK'
  <2>1. ReservationOf(c) \in Reservations
    BY <1>1 DEF ReservationOf, Reservations
  <2> QED BY <1>1, <2>1 DEF TypeOK, CallsTyped
<1>4. \A v \in Works : reserved[v] # None => reserved'[v] = reserved[v]
  BY <1>2
<1>5. CallsFit'
  <2> SUFFICES ASSUME NEW d \in Invokers, call'[d].at # "idle"
               PROVE  FitsNext(d)
    BY NextFits
  <2>1. CASE d = c
    BY <1>1, <1>2, <2>1, SMTT(30) DEF Trusted, WorkOf, ReservationOf, FitsNext
  <2>2. CASE d # c
    <3>1. call[d].at # "idle" /\ call'[d].at = call[d].at
      BY <1>1, <2>2
    <3>2. call[d].at \in {"publish", "complete"} => WorkOf(d) \in Works
      BY <3>1, BodyKinds DEF CallsFit, Busy, WorkOf
    <3>3. call[d].at \in {"publish", "complete"} => ReservationOf(d) \in Reservations
      BY <3>1 DEF Busy, ReservationOf, Reservations
    <3> QED BY <1>1, <1>2, <1>4, <3>1, <3>2, <3>3, NoneIsNothing
            DEF CallsFit, Trusted, WorkOf, ReservationOf, FitsNext
  <2> QED BY <2>1, <2>2
<1>6. ReservationsFit'
  <2>1. \A v \in Works \ {w} : reserved'[v] = reserved[v]
    BY <1>2
  <2>2. work[w].state = "open" /\ work[w].revision = call[c].body.revision
          /\ work[w].content = call[c].body.identity
    <3>1. CASE reserved[w] = ReservationOf(c)
      <4>1. reserved[w] # None /\ reserved[w].body = call[c].body
        BY <1>1, <3>1, NoneIsNothing DEF ReservationOf, Reservations
      <4> QED BY <1>1, <4>1 DEF ReservationsFit
    <3>2. CASE reserved[w] # ReservationOf(c)
      BY <1>1, <3>2, Identities, Fields, BodyKinds
    <3> QED BY <3>1, <3>2
  <2>3. reserved'[w].body = call[c].body
    BY <1>1, <1>2 DEF ReservationOf
  <2> QED BY <1>1, <2>1, <2>2, <2>3 DEF ReservationsFit, Trusted, WorkOf
<1>7. ArtifactsFit'
  <2>1. \A v \in Works : reserved[v] # None => reserved'[v] # None /\ reserved'[v].body = reserved[v].body
    BY <1>1, <1>2, NoneIsNothing DEF ReservationOf, Reservations
  <2> QED BY <2>1 DEF ArtifactsFit
<1>8. PastFits' BY DEF PastFits
<1> QED BY <1>1, <1>3, <1>5, <1>6, <1>7, <1>8

\* publish leaves the reserved Plan in its place.
LEMMA PublishesKeeps ==
    ASSUME SealInv, NEW c \in Invokers, Publishes(c)
    PROVE  SealInv'
<1> DEFINE w == WorkOf(c)
<1> USE DEF SealInv, Publishes
<1>1. /\ CallsTyped' /\ Busy' /\ w \in Works
      /\ call[c].id \in Requests /\ call[c].body \in Bodies /\ call[c].body.op = "seal"
      /\ Bound(call[c].body) /\ Trusted(call[c].body)
      /\ \A d \in Invokers : /\ call'[d].id = call[d].id /\ call'[d].body = call[d].body
                          /\ call'[d].at = IF d = c THEN "complete" ELSE call[d].at
  BY SealMoves
<1>2. \A v \in Works : artifact'[v] = IF v = w THEN PlanOf(call[c].body) ELSE artifact[v]
  BY <1>1 DEF TypeOK
<1>3. PlanOf(call[c].body) \in Plans /\ PlanOf(call[c].body) # None
  BY <1>1, BodyKinds
<1>4. TypeOK' BY <1>1, <1>3 DEF TypeOK, CallsTyped
<1>5. \/ reserved[w] = ReservationOf(c)
      \/ work[w].state = "closed" /\ work[w].plan = PlanOf(call[c].body)
  BY DEF At, CallsFit
<1>6. \A v \in Works : artifact[v] # None => artifact'[v] = artifact[v]
  BY <1>2
<1>7. CallsFit'
  <2>1. \A d \in Invokers : call[d].at = "complete" => WorkOf(d) \in Works /\ PlanOf(call[d].body) # None
    BY BodyKinds DEF CallsFit, Busy, WorkOf
  <2> QED BY <1>1, <1>2, <1>5, <1>6, <2>1 DEF CallsFit, At, Trusted, WorkOf, ReservationOf
<1>8. ReservationsFit' BY DEF ReservationsFit, Trusted
<1>9. ArtifactsFit'
  <2>1. reserved[w] = ReservationOf(c) => reserved[w] # None /\ reserved[w].body = call[c].body
    BY <1>1, NoneIsNothing DEF ReservationOf, Reservations
  <2>2. reserved' = reserved /\ work' = work /\ touched' = touched
    OBVIOUS
  <2>3. artifact'[w] = PlanOf(call[c].body)
    BY <1>1, <1>2
  <2>4. \A v \in Works \ {w} : artifact'[v] = artifact[v]
    BY <1>2
  <2>5. \/ reserved[w] # None /\ artifact'[w] = PlanOf(reserved[w].body)
        \/ work[w].state = "closed" /\ artifact'[w] = work[w].plan
    BY <1>5, <2>1, <2>3
  <2>6. work[w].state = "closed" => reserved[w] = None
    BY <1>1 DEF ReservationsFit
  <2>7. work[w].state = "closed" => artifact'[w] = work[w].plan
    BY <2>5, <2>6
  <2> QED BY <2>2, <2>4, <2>5, <2>7 DEF ArtifactsFit
<1>10. PastFits' BY DEF PastFits
<1> QED BY <1>1, <1>4, <1>7, <1>8, <1>9, <1>10

\* complete_seal closes the Work with the Plan that is in its place.
LEMMA CompletesKeeps ==
    ASSUME SealInv, NEW c \in Invokers, Completes(c)
    PROVE  SealInv'
<1> DEFINE w == WorkOf(c)
           plan == PlanOf(call[c].body)
<1> USE DEF SealInv, Completes
<1>1. CallsTyped' /\ call' = [call EXCEPT ![c] = Unused]
  BY EndsType DEF Answers
<1>2. /\ call[c].at = "complete" /\ call[c].id \in Requests
      /\ call[c].body \in Bodies /\ call[c].body.op = "seal"
  BY DEF At, Busy
<1>3. w \in Works /\ plan \in Plans /\ plan # None
  BY <1>2, BodyKinds DEF WorkOf
<1>4. /\ \A v \in Works \ {w} : work'[v] = work[v] /\ reserved'[v] = reserved[v]
      /\ work'[w].state = "closed" /\ work'[w].plan = plan
      /\ work'[w].revision = work[w].revision /\ reserved'[w] = None
  BY <1>3 DEF TypeOK
<1>5. TypeOK'
  <2>1. work' \in [Works -> WorkRecords]
    <3> DEFINE new == [work[w] EXCEPT !.state = "closed", !.plan = plan]
    <3>1. new \in WorkRecords
      BY <1>3 DEF TypeOK, WorkRecords
    <3>2. work' = [work EXCEPT ![w] = new]
      BY <1>3 DEF TypeOK
    <3> QED BY <3>1, <3>2 DEF TypeOK, WorkRecords
  <2> QED BY <1>1, <1>2, <2>1, ReceiptType DEF TypeOK, CallsTyped, WorkRecords
<1>6. w \in touched \/ artifact[w] = plan
  BY <1>2 DEF CallsFit
<1>7. CallsFit'
  <2> SUFFICES ASSUME NEW d \in Invokers, call'[d].at # "idle"
               PROVE  FitsNext(d)
    BY NextFits
  <2>1. call[d].at # "idle" /\ call'[d] = call[d]
    BY <1>1, EndedCalls
  <2>2. call[d].at \in {"publish", "complete"} => call[d].body.work \in Works
    BY <2>1, BodyKinds DEF CallsFit, Busy
  <2>3. reserved[w] = [id |-> call[d].id, body |-> call[d].body] => call[d].body = call[c].body
    BY DEF ReservationOf
  <2>4. call[d].at \in {"publish", "complete"} =>
          \/ reserved'[call[d].body.work] = [id |-> call[d].id, body |-> call[d].body]
          \/ /\ work'[call[d].body.work].state = "closed"
             /\ work'[call[d].body.work].plan = PlanOf(call[d].body)
    <3> SUFFICES ASSUME call[d].at \in {"publish", "complete"}
                 PROVE  \/ reserved'[call[d].body.work] = [id |-> call[d].id, body |-> call[d].body]
                        \/ /\ work'[call[d].body.work].state = "closed"
                           /\ work'[call[d].body.work].plan = PlanOf(call[d].body)
      OBVIOUS
    <3>1. \/ reserved[call[d].body.work] = [id |-> call[d].id, body |-> call[d].body]
          \/ /\ work[call[d].body.work].state = "closed"
             /\ work[call[d].body.work].plan = PlanOf(call[d].body)
      BY <2>1 DEF CallsFit, WorkOf, ReservationOf
    <3>2. CASE call[d].body.work = w
      BY <1>4, <2>3, <3>1, <3>2
    <3>3. CASE call[d].body.work # w
      BY <1>4, <2>2, <3>1, <3>3
    <3> QED BY <3>2, <3>3
  <2> QED BY <2>1, <2>4 DEF CallsFit, Trusted, WorkOf, FitsNext
<1>8. ReservationsFit'
  <2>1. \A v \in Works : reserved'[v] # None => v # w
    BY <1>4
  <2>2. \A v \in Works : reserved'[v] # None =>
          reserved'[v] = reserved[v] /\ work'[v] = work[v]
    BY <1>4, <2>1
  <2> SUFFICES ASSUME NEW v \in Works, reserved'[v] # None
               PROVE  /\ reserved'[v].body.op = "seal" /\ reserved'[v].body.work = v
                      /\ Bound(reserved'[v].body)
                      /\ reserved'[v].body.by \in accepted'
                      /\ reserved'[v].body.by.identity = reserved'[v].body.identity
                      /\ work'[v].state = "open" /\ work'[v].revision = reserved'[v].body.revision
                      /\ work'[v].content = reserved'[v].body.identity
    BY DEF ReservationsFit, Trusted
  <2>3. reserved'[v] = reserved[v] /\ work'[v] = work[v] /\ accepted' = accepted
    BY <2>2
  <2>4. LET body == reserved[v].body IN
        /\ body.op = "seal" /\ body.work = v /\ Bound(body) /\ Trusted(body)
        /\ work[v].state = "open" /\ work[v].revision = body.revision
        /\ work[v].content = body.identity
    BY <2>3 DEF ReservationsFit
  <2> QED BY <2>3, <2>4 DEF Trusted
<1>9. ArtifactsFit'
  <2> SUFFICES ASSUME NEW v \in Works
               PROVE  /\ work'[v].state # "closed" => work'[v].plan = None
                      /\ work'[v].state = "closed" /\ v \notin touched => artifact[v] = work'[v].plan
                      /\ artifact[v] # None /\ v \notin touched =>
                           \/ reserved'[v] # None /\ artifact[v] = PlanOf(reserved'[v].body)
                           \/ work'[v].state = "closed" /\ artifact[v] = work'[v].plan
    BY DEF ArtifactsFit
  <2>1. CASE v = w
    BY <1>4, <1>6, <2>1
  <2>2. CASE v # w
    <3>1. work'[v] = work[v] /\ reserved'[v] = reserved[v]
      BY <1>4, <2>2
    <3> QED BY <3>1 DEF ArtifactsFit
  <2> QED BY <2>1, <2>2
<1>10. PastFits'
  <2>1. \A r \in Requests : receipts'[r] # None /\ receipts'[r].op = "update" => receipts'[r] = receipts[r]
    BY <1>2 DEF TypeOK
  <2>2. \A r \in Requests : receipts[r] # None /\ receipts[r].op = "update" => receipts[r].work \in Works
    BY BodyKinds DEF TypeOK
  <2>3. \A v \in Works : /\ work'[v].revision = work[v].revision
                         /\ work[v].state # "none" => work'[v].state # "none"
                         /\ work'[v].state # "none" => work[v].state # "none"
    BY <1>3, <1>4
  <2>4. accepted' = accepted
    OBVIOUS
  <2> QED BY <2>1, <2>2, <2>3, <2>4, Fields, ZenonT(60) DEF PastFits
<1> QED BY <1>1, <1>5, <1>7, <1>8, <1>9, <1>10, EndedCalls

\* Every step preserves it.
LEMMA SealStep == SealInv /\ [Next]_vars => SealInv'
<1> SUFFICES ASSUME SealInv, [Next]_vars PROVE SealInv'
  OBVIOUS
<1>1. CASE Next
  BY <1>1, Steps, BeginKeeps, PassesKeeps, SavesKeeps, ReservesKeeps, PublishesKeeps, CompletesKeeps,
     CreatesKeeps, TouchKeeps, AcceptKeeps DEF SealInv
<1>2. CASE UNCHANGED vars
  BY <1>2 DEF vars, storeVars, SealInv, TypeOK, Busy, CallsFit, Trusted, WorkOf, ReservationOf,
              ReservationsFit, ArtifactsFit, PastFits
<1> QED BY <1>1, <1>2

\* The invariant holds of every state.
LEMMA SealAlways == Spec => []SealInv
BY SealInit, SealStep, PTL DEF Spec

-----------------------------------------------------------------------------
\* Every state is of its type (TypeOK of PlanWork).
THEOREM TypeCorrect == Spec => []TypeOK
<1>1. SealInv => TypeOK BY DEF SealInv
<1> QED BY <1>1, SealAlways, PTL

\* Between its three steps a seal cannot be overtaken (reserve_seal, publish,
\* complete_seal): a reserved Work stays at the accepted version, and artifacts
\* are those of reserved or sealed Works.
THEOREM SealIsNotOvertaken == Spec => []SealCannotBeOvertaken
<1>1. SealInv => SealCannotBeOvertaken
  BY DEF SealInv, SealCannotBeOvertaken, ReservationsFit, ArtifactsFit, Trusted
<1> QED BY <1>1, SealAlways, PTL


-----------------------------------------------------------------------------
(* What an update answers *)

\* A step on one call leaves the others where they are.
LEMMA OneCallMoves ==
    ASSUME TypeOK, Next, NEW c \in Invokers, call[c].at # "idle", call'[c].at = "idle"
    PROVE  Dies(c) \/ Step(c)
<1>1. ASSUME NEW d \in Invokers, Begin(d) PROVE FALSE
  BY <1>1 DEF Begin, TypeOK
<1>2. ASSUME NEW d \in Invokers, Cancel(d) PROVE FALSE
  BY <1>2 DEF Cancel
<1>3. ASSUME NEW w \in Works, TouchArtifact(w) \/ \E t \in Times : Accept(w, t) PROVE FALSE
  BY <1>3 DEF TouchArtifact, Accept
<1>4. ASSUME NEW d \in Invokers, d # c, Dies(d) \/ Step(d) PROVE call'[c] = call[c]
  <2> USE DEF MovesTo, Ends, TypeOK
  <2>1. CASE Dies(d) BY <1>4, <2>1 DEF Dies
  <2>2. CASE LookupCreate(d) \/ CommitCreate(d) BY <1>4, <2>2 DEF LookupCreate, CommitCreate
  <2>3. CASE LookupUpdate(d) \/ LookUpdate(d) \/ RecheckUpdate(d)
    BY <1>4, <2>3 DEF LookupUpdate, LookUpdate, RecheckUpdate
  <2>4. CASE AdmitUpdate(d) \/ AnalyzeUpdate(d) \/ CommitUpdate(d)
    BY <1>4, <2>4 DEF AdmitUpdate, AnalyzeUpdate, CommitUpdate
  <2>5. CASE LookupSeal(d) \/ VerifySeal(d) \/ LookSeal(d)
    BY <1>4, <2>5 DEF LookupSeal, VerifySeal, LookSeal
  <2>6. CASE ReserveSeal(d) \/ PublishSeal(d) \/ CompleteSeal(d)
    BY <1>4, <2>6 DEF ReserveSeal, PublishSeal, CompleteSeal
  <2> QED BY <1>4, <2>1, <2>2, <2>3, <2>4, <2>5, <2>6 DEF Step
<1> QED BY <1>1, <1>2, <1>3, <1>4 DEF Next

\* An update is never told it is out of date when it is the one that was
\* committed, a cancelled one has changed nothing, and one that is answered with
\* success has its receipt (_update_preflight, SQLitePlanStore.update).
THEOREM UpdatesAnswerTruly == Spec => UpdateAnswersTruly
<1> DEFINE True(c) ==
        call[c].at # "idle" /\ call'[c].at = "idle" /\ call[c].body.op = "update" =>
            /\ answer' = "rejected" => receipts[call[c].id] # call[c].body
            /\ answer' = "cancelled" => work' = work
            /\ answer' \in {"ok", "replayed"} => receipts'[call[c].id] = call[c].body
<1>1. ASSUME SealInv, Next, NEW c \in Invokers,
             call[c].at # "idle", call'[c].at = "idle", call[c].body.op = "update"
      PROVE  /\ answer' = "rejected" => receipts[call[c].id] # call[c].body
             /\ answer' = "cancelled" => work' = work
             /\ answer' \in {"ok", "replayed"} => receipts'[call[c].id] = call[c].body
  <2>1. call[c].id \in Requests /\ call[c].body # None
    BY <1>1, BodyKinds DEF SealInv, Busy
  <2>2. Dies(c) \/ Step(c)
    BY <1>1, OneCallMoves DEF SealInv
  <2> USE DEF MovesTo, Ends, At, storeVars, Fresh, Replays, Conflicts
  <2>3. CASE Dies(c) BY <2>3 DEF Dies
  <2>4. CASE LookupUpdate(c) BY <2>4 DEF LookupUpdate
  <2>5. CASE LookUpdate(c) BY <1>1, <2>5 DEF LookUpdate
  <2>6. CASE RecheckUpdate(c) BY <2>1, <2>6 DEF RecheckUpdate
  <2>7. CASE AdmitUpdate(c) BY <2>7 DEF AdmitUpdate
  <2>8. CASE AnalyzeUpdate(c) BY <2>8 DEF AnalyzeUpdate
  <2>9. CASE CommitUpdate(c)
    <3>1. receipts \in [Requests -> Bodies \cup {None}]
      BY <1>1 DEF SealInv, TypeOK
    <3> QED BY <2>1, <2>9, <3>1 DEF CommitUpdate
  <2> QED
    BY <1>1, <2>2, <2>3, <2>4, <2>5, <2>6, <2>7, <2>8, <2>9
    DEF Step, LookupCreate, CommitCreate, LookupSeal, VerifySeal, LookSeal, ReserveSeal, PublishSeal, CompleteSeal
<1>2. SealInv /\ [Next]_vars => [\A c \in Invokers : True(c)]_vars
  BY <1>1
<1> QED BY <1>2, SealAlways, PTL DEF Spec, UpdateAnswersTruly

-----------------------------------------------------------------------------
(* The register *)

Accepted(w) == {[revision |-> a.revision, content |-> a.identity] : a \in {b \in accepted : b.work = w}}
SealedOf(w) == IF work[w].plan = None THEN None
               ELSE [revision |-> work[w].plan.revision, content |-> work[w].plan.identity]

\* What the register holds is unchanged.
LEMMA RegisterStays ==
    ASSUME UNCHANGED <<work, accepted>>
    PROVE  UNCHANGED Register!vars
BY DEF Register!vars, VersionOf

\* A version is not nothing.
LEMMA VersionsExist ==
    ASSUME SealInv, NEW w \in Works, work[w].state # "none"
    PROVE  VersionOf(w) \in Versions /\ VersionOf(w) # None
<1>1. work[w].revision \in Revisions /\ work[w].content \in Contents \cup {None}
  BY WorkConstants DEF SealInv, TypeOK, PastFits, Revisions
<1> QED BY <1>1, NoneIsNothing DEF VersionOf, Versions

\* A new version is none that was accepted.
LEMMA RegisterSave ==
    ASSUME SealInv, SealInv', NEW w \in Works,
           \A v \in Works \ {w} : work'[v] = work[v],
           work[w].state # "closed", work'[w].state = "open", work'[w].plan = None,
           \/ work[w].state = "none"
           \/ work'[w].revision = work[w].revision + 1,
           accepted' = accepted
    PROVE  Register!Next
<1>1. work[w].plan = None
  BY DEF SealInv, ArtifactsFit
<1>2. VersionOf(w)' \in Versions
  <2>1. work'[w].revision \in Revisions /\ work'[w].content \in Contents \cup {None}
    BY WorkConstants DEF SealInv, TypeOK, PastFits, Revisions
  <2> QED BY <2>1 DEF VersionOf, Versions
<1>3. VersionOf(w)' = [revision |-> work'[w].revision, content |-> work'[w].content]
  BY DEF VersionOf
<1>4. VersionOf(w)' # VersionOf(w)
  <2>1. CASE work[w].state = "none"
    BY <1>2, <2>1, NoneIsNothing DEF VersionOf
  <2>2. CASE work[w].state # "none"
    <3>1. work'[w].revision # work[w].revision
      BY <2>2 DEF SealInv, TypeOK
    <3>2. VersionOf(w).revision = work[w].revision
      BY <2>2 DEF VersionOf
    <3>3. VersionOf(w)'.revision = work'[w].revision
      BY <1>3
    <3> QED BY <3>1, <3>2, <3>3
  <2> QED BY <2>1, <2>2
<1>5. VersionOf(w)' \notin Accepted(w)
  <2> SUFFICES ASSUME NEW a \in accepted, a.work = w,
                      VersionOf(w)' = [revision |-> a.revision, content |-> a.identity]
               PROVE  FALSE
    BY DEF Accepted
  <2>1. work[w].state # "none" /\ a.revision <= work[w].revision
    BY DEF SealInv, PastFits
  <2>2. a.revision \in Nat /\ work[w].revision \in Nat
    BY WorkConstants DEF SealInv, TypeOK, Acceptances, Revisions
  <2>3. a.revision = work'[w].revision
    <3>1. VersionOf(w)'.revision = a.revision OBVIOUS
    <3> QED BY <1>3, <3>1
  <2> QED BY <2>1, <2>2, <2>3
<1>6. \A v \in Works : VersionOf(v)' = IF v = w THEN VersionOf(w)' ELSE VersionOf(v)
  BY DEF VersionOf
<1>7. \A v \in Works : SealedOf(v)' = SealedOf(v)
  BY <1>1 DEF SealedOf
<1>8. Register!Save(w)
  BY <1>1, <1>2, <1>4, <1>5, <1>6, <1>7 DEF Register!Save, Accepted, SealedOf
<1> QED BY <1>8 DEF Register!Next

\* The Human's acceptance is the register's.
LEMMA RegisterAccept ==
    ASSUME SealInv, NEW w \in Works, NEW t \in Times, Accept(w, t)
    PROVE  Register!Next
<1> DEFINE a == [work |-> w, revision |-> work[w].revision, identity |-> work[w].content, at |-> t]
<1>1. accepted' = accepted \cup {a} /\ work' = work /\ work[w].state = "open"
  BY DEF Accept, storeVars
<1>2. VersionOf(w) = [revision |-> a.revision, content |-> a.identity] /\ a.work = w
  BY <1>1 DEF VersionOf
<1>3. VersionOf(w) # None
  BY <1>1, VersionsExist
<1>4. \A v \in Works : Accepted(v)' = IF v = w THEN Accepted(w) \cup {VersionOf(w)} ELSE Accepted(v)
  <2> SUFFICES ASSUME NEW v \in Works
               PROVE  Accepted(v)' = IF v = w THEN Accepted(w) \cup {VersionOf(w)} ELSE Accepted(v)
    OBVIOUS
  <2>1. {b \in accepted' : b.work = v}
          = IF v = w THEN {b \in accepted : b.work = w} \cup {a} ELSE {b \in accepted : b.work = v}
    BY <1>1, <1>2
  <2> QED BY <1>2, <2>1 DEF Accepted
<1>5. Register!Accept(w)
  BY <1>1, <1>3, <1>4 DEF Register!Accept, Accepted, VersionOf
<1> QED BY <1>5 DEF Register!Next

\* The seal is the register's: of the accepted version that the Work holds.
LEMMA RegisterSeal ==
    ASSUME SealInv, NEW c \in Invokers, NEW w \in Works, w = WorkOf(c), Completes(c)
    PROVE  Register!Next
<1> DEFINE body == call[c].body
<1>1. body \in Bodies /\ body.op = "seal" /\ w \in Works /\ body.work = w
  BY BodyKinds DEF Completes, At, SealInv, Busy, WorkOf
<1>2. PlanOf(body) # None /\ PlanOf(body).revision = body.revision /\ PlanOf(body).identity = body.identity
  BY <1>1, BodyKinds DEF PlanOf
<1>3. reserved[w] # None /\ reserved[w].body = body
  <2>1. call[c].id \in Requests
    BY DEF Completes, At, SealInv, Busy
  <2>2. reserved[w] \in Reservations /\ reserved[w] = ReservationOf(c)
    BY <1>1, <2>1 DEF Completes, ReservationOf, Reservations
  <2> QED BY <2>2, NoneIsNothing DEF ReservationOf
<1>4. /\ work[w].state = "open" /\ work[w].revision = body.revision /\ work[w].content = body.identity
      /\ body.by \in accepted /\ body.by.work = w
      /\ body.by.revision = body.revision /\ body.by.identity = body.identity
  BY <1>1, <1>3 DEF SealInv, ReservationsFit, Bound, Trusted
<1>5. /\ \A v \in Works \ {w} : work'[v] = work[v]
      /\ work'[w].state = "closed" /\ work'[w].plan = PlanOf(body)
      /\ work'[w].revision = work[w].revision /\ work'[w].content = work[w].content
      /\ accepted' = accepted
  BY <1>1 DEF Completes, SealInv, TypeOK
<1>6. VersionOf(w) = [revision |-> body.revision, content |-> body.identity]
  BY <1>4 DEF VersionOf
<1>7. VersionOf(w) \in Accepted(w)
  BY <1>4, <1>6 DEF Accepted
<1>8. \A v \in Works : VersionOf(v)' = VersionOf(v)
  BY <1>4, <1>5 DEF VersionOf
<1>9. work[w].plan = None
  BY <1>1, <1>4 DEF SealInv, ArtifactsFit
<1>10. \A v \in Works : SealedOf(v)' = IF v = w THEN VersionOf(w) ELSE SealedOf(v)
  BY <1>2, <1>5, <1>6 DEF SealedOf
<1>11. Register!Seal(w)
  BY <1>1, <1>5, <1>7, <1>8, <1>9, <1>10 DEF Register!Seal, Accepted, SealedOf
<1> QED BY <1>11 DEF Register!Next

\* Every step of the store is a step of the register or none.
LEMMA RegisterStep == SealInv /\ SealInv' /\ [Next]_vars => [Register!Next]_Register!vars
<1> SUFFICES ASSUME SealInv, SealInv', [Next]_vars PROVE [Register!Next]_Register!vars
  OBVIOUS
<1>1. ASSUME NEW c \in Invokers, Begin(c) \/ Passes(c) \/ Reserves(c) \/ Publishes(c)
      PROVE  UNCHANGED Register!vars
  BY <1>1, RegisterStays DEF Begin, Passes, Reserves, Publishes, storeVars
<1>2. ASSUME NEW w \in Works, TouchArtifact(w) PROVE UNCHANGED Register!vars
  BY <1>2, RegisterStays DEF TouchArtifact, storeVars
<1>3. ASSUME NEW c \in Invokers, NEW w \in Works, Creates(c, w) PROVE Register!Next
  <2>1. work' = [work EXCEPT ![w] = NewWork] /\ work[w].state = "none" /\ accepted' = accepted
    BY <1>3 DEF Creates
  <2>2. work'[w].state = "open" /\ work'[w].plan = None
    BY <2>1, NewWorkType DEF SealInv, TypeOK
  <2> QED BY <2>1, <2>2, RegisterSave DEF SealInv, TypeOK
<1>4. ASSUME NEW c \in Invokers, Saves(c) PROVE Register!Next
  <2> DEFINE w == WorkOf(c)
  <2>1. w \in Works
    BY <1>4, BodyKinds DEF Saves, At, SealInv, Busy, WorkOf
  <2>2. work[w].state = "open" /\ accepted' = accepted /\ work' = [work EXCEPT ![w] = Saved(@, call[c].body.content)]
    BY <1>4 DEF Saves, Stale
  <2>3. work[w].plan = None
    BY <2>1, <2>2 DEF SealInv, ArtifactsFit
  <2>4. /\ work'[w].state = "open" /\ work'[w].revision = work[w].revision + 1 /\ work'[w].plan = None
        /\ \A v \in Works \ {w} : work'[v] = work[v]
    BY <2>1, <2>2, <2>3 DEF SealInv, TypeOK, Saved
  <2> QED BY <2>1, <2>2, <2>4, RegisterSave
<1>5. ASSUME NEW c \in Invokers, Completes(c) PROVE Register!Next
  <2>1. WorkOf(c) \in Works
    BY <1>5, BodyKinds DEF Completes, At, SealInv, Busy, WorkOf
  <2> QED BY <1>5, <2>1, RegisterSeal
<1>6. CASE UNCHANGED vars
  BY <1>6, RegisterStays DEF vars, storeVars
<1> QED
  BY <1>1, <1>2, <1>3, <1>4, <1>5, <1>6, RegisterAccept, Steps DEF SealInv

\* A new store is an empty register.
LEMMA RegisterInit == Init => Register!Init
<1> SUFFICES ASSUME Init PROVE Register!Init
  OBVIOUS
<1>1. SealInv
  BY SealInit
<1>2. \A w \in Works : VersionOf(w) \in Versions \cup {None}
  <2>1. \A w \in Works : work[w].state = "none" => VersionOf(w) = None
    BY DEF VersionOf
  <2> QED BY <1>1, <2>1, VersionsExist
<1>3. \A w \in Works : work[w].plan = None
  <2>1. \A w \in Works : work[w].state # "closed"
    <3>1. PICK saved \in [Existing -> Contents \cup {None}] :
            work = [w \in Works |-> IF w \in Existing THEN [NewWork EXCEPT !.content = saved[w]] ELSE NoWork]
      BY DEF Init
    <3>2. NoWork.state = "none"
      BY DEF NoWork
    <3>3. \A w \in Existing : [NewWork EXCEPT !.content = saved[w]].state = "open"
      BY <3>1, NewWorkType
    <3> QED BY <3>1, <3>2, <3>3
  <2> QED BY <1>1, <2>1 DEF SealInv, ArtifactsFit
<1>4. accepted = {}
  BY DEF Init
<1> QED BY <1>2, <1>3, <1>4 DEF Register!Init

\* PlanWork keeps the promise of PlanRegister: a Work is sealed once, with the
\* version it holds, which the Human accepted as it is.
THEOREM WorkKeepsRegister == Spec => KeepsRegister
BY RegisterInit, RegisterStep, SealAlways, PTL DEF Spec, KeepsRegister, Register!Spec

-----------------------------------------------------------------------------
(* One transition for each request *)

UpdatesOf(w) ==
    {r \in Requests : receipts[r] # None /\ receipts[r].op = "update" /\ receipts[r].work = w}
Created == {r \in Requests : receipts[r] # None /\ receipts[r].op = "create"}
Made == {w \in Works \ Existing : work[w].state # "none"}

\* The counts of the property are of finite sets, and what existed still does.
CountInv ==
    /\ \A w \in Existing : work[w].state # "none"
    /\ \A w \in Works : work[w].state # "none" =>
           IsFiniteSet(UpdatesOf(w)) /\ Cardinality(UpdatesOf(w)) = work[w].revision - 1
    /\ IsFiniteSet(Created) /\ IsFiniteSet(Made) /\ Cardinality(Created) = Cardinality(Made)

\* Nothing is recorded for a Work that does not exist.
LEMMA NoUpdates ==
    ASSUME SealInv, NEW w \in Works, work[w].state = "none"
    PROVE  UpdatesOf(w) = {}
BY DEF SealInv, PastFits, UpdatesOf

\* Initially.
LEMMA CountInit == Init => CountInv
<1> SUFFICES ASSUME Init PROVE CountInv
  OBVIOUS
<1>1. PICK saved \in [Existing -> Contents \cup {None}] :
        work = [w \in Works |-> IF w \in Existing THEN [NewWork EXCEPT !.content = saved[w]] ELSE NoWork]
  BY DEF Init
<1>2. \A w \in Existing : work[w].state = "open" /\ work[w].revision = 1
  BY <1>1, NewWorkType, WorkConstants
<1>3. \A w \in Works \ Existing : work[w].state = "none"
  BY <1>1 DEF NoWork
<1>4. Created = {} /\ Made = {} /\ \A w \in Works : UpdatesOf(w) = {}
  BY <1>3 DEF Init, Created, Made, UpdatesOf
<1>5. IsFiniteSet({}) /\ Cardinality({}) = 0
  BY FS_EmptySet
<1>6. \A w \in Works : work[w].state # "none" => work[w].revision - 1 = 0
  BY <1>2, <1>3
<1> QED BY <1>2, <1>4, <1>5, <1>6 DEF CountInv

\* A new receipt adds one to what it counts for.
LEMMA OneMore ==
    ASSUME NEW S, IsFiniteSet(S), NEW x, x \notin S
    PROVE  IsFiniteSet(S \cup {x}) /\ Cardinality(S \cup {x}) = Cardinality(S) + 1 /\ Cardinality(S) \in Nat
BY FS_AddElement, FS_CardinalityType

\* Steps that record nothing count nothing.
LEMMA CountStays ==
    ASSUME CountInv, UNCHANGED <<work, receipts>>
    PROVE  CountInv'
BY DEF CountInv, UpdatesOf, Created, Made

\* A create makes one Work.
LEMMA CountCreates ==
    ASSUME SealInv, CountInv, NEW c \in Invokers, NEW w \in Works, Creates(c, w)
    PROVE  CountInv'
<1> DEFINE id == call[c].id
<1>1. id \in Requests /\ call[c].body \in Bodies /\ call[c].body.op = "create"
  BY DEF Creates, At, SealInv, Busy
<1>2. receipts[id] = None /\ \A r \in Requests : receipts'[r] = IF r = id THEN call[c].body ELSE receipts[r]
  BY <1>1 DEF Creates, Fresh, SealInv, TypeOK
<1>3. /\ work[w].state = "none" /\ work'[w].state = "open" /\ work'[w].revision = 1
      /\ \A v \in Works \ {w} : work'[v] = work[v]
  BY NewWorkType DEF Creates, SealInv, TypeOK
<1>4. \A v \in Works : UpdatesOf(v)' = UpdatesOf(v)
  BY <1>1, <1>2 DEF UpdatesOf
<1>5. Created' = Created \cup {id} /\ id \notin Created
  BY <1>1, <1>2, BodyKinds DEF Created
<1>6. w \notin Existing
  BY <1>3 DEF CountInv
<1>7. Made' = Made \cup {w} /\ w \notin Made
  BY <1>3, <1>6 DEF Made
<1>8. UpdatesOf(w) = {}
  BY <1>3, NoUpdates
<1>9. IsFiniteSet(Created') /\ IsFiniteSet(Made') /\ Cardinality(Created') = Cardinality(Made')
  BY <1>5, <1>7, OneMore DEF CountInv
<1>10. IsFiniteSet(UpdatesOf(w)') /\ Cardinality(UpdatesOf(w)') = 0
  BY <1>4, <1>8, FS_EmptySet
<1> QED BY <1>3, <1>4, <1>6, <1>9, <1>10, WorkConstants DEF CountInv

\* An update saves one revision.
LEMMA CountSaves ==
    ASSUME SealInv, CountInv, NEW c \in Invokers, NEW w \in Works, w = WorkOf(c), Saves(c)
    PROVE  CountInv'
<1> DEFINE id == call[c].id
<1>1. id \in Requests /\ call[c].body \in Bodies /\ call[c].body.op = "update" /\ call[c].body.work = w
  BY DEF Saves, At, SealInv, Busy, WorkOf
<1>2. w \in Works /\ call[c].body.content \in Edits /\ call[c].body # None
  BY <1>1, BodyKinds
<1>3. receipts[id] = None /\ \A r \in Requests : receipts'[r] = IF r = id THEN call[c].body ELSE receipts[r]
  BY <1>1 DEF Saves, Fresh, SealInv, TypeOK
<1>4. /\ work[w].state = "open" /\ work'[w].state = "open" /\ work'[w].revision = work[w].revision + 1
      /\ \A v \in Works \ {w} : work'[v] = work[v]
  BY <1>2 DEF Saves, Stale, Saved, SealInv, TypeOK
<1>5. UpdatesOf(w)' = UpdatesOf(w) \cup {id} /\ id \notin UpdatesOf(w)
  BY <1>1, <1>2, <1>3 DEF UpdatesOf
<1>6. \A v \in Works \ {w} : UpdatesOf(v)' = UpdatesOf(v)
  BY <1>1, <1>3 DEF UpdatesOf
<1>7. Created' = Created
  BY <1>1, <1>3 DEF Created
<1>8. Made' = Made
  BY <1>2, <1>4 DEF Made
<1>9. IsFiniteSet(UpdatesOf(w)') /\ Cardinality(UpdatesOf(w)') = work'[w].revision - 1
  <2>1. IsFiniteSet(UpdatesOf(w)) /\ Cardinality(UpdatesOf(w)) = work[w].revision - 1
    BY <1>2, <1>4 DEF CountInv
  <2>2. work[w].revision \in Nat
    BY <1>2 DEF SealInv, TypeOK
  <2> QED BY <1>4, <1>5, <2>1, <2>2, OneMore
<1> QED BY <1>2, <1>4, <1>6, <1>7, <1>8, <1>9, WorkConstants DEF CountInv

\* A seal counts for neither.
LEMMA CountCompletes ==
    ASSUME SealInv, CountInv, NEW c \in Invokers, Completes(c)
    PROVE  CountInv'
<1> DEFINE id == call[c].id
           w == WorkOf(c)
<1>1. id \in Requests /\ call[c].body \in Bodies /\ call[c].body.op = "seal" /\ w \in Works
  BY BodyKinds DEF Completes, At, SealInv, Busy, WorkOf
<1>2. receipts[id] = None /\ \A r \in Requests : receipts'[r] = IF r = id THEN call[c].body ELSE receipts[r]
  BY <1>1 DEF Completes, Fresh, SealInv, TypeOK
<1>3. \A v \in Works : /\ work'[v].revision = work[v].revision
                       /\ work'[v].state # "none" <=> work[v].state # "none"
  BY <1>1 DEF Completes, SealInv, TypeOK
<1>4. \A v \in Works : UpdatesOf(v)' = UpdatesOf(v)
  BY <1>1, <1>2 DEF UpdatesOf
<1>5. Created' = Created
  BY <1>1, <1>2 DEF Created
<1>6. Made' = Made
  BY <1>3 DEF Made
<1> QED BY <1>3, <1>4, <1>5, <1>6, WorkConstants DEF CountInv

\* Identical requests repeated any number of times make one transition: the
\* revisions of a Work are exactly the updates recorded for it, and a Work exists
\* for each recorded create (the receipts of SQLitePlanStore).
THEOREM RequestsActOnce == Spec => []OneTransitionPerRequest
<1>1. SealInv /\ CountInv /\ [Next]_vars => CountInv'
  <2> SUFFICES ASSUME SealInv, CountInv, [Next]_vars PROVE CountInv'
    OBVIOUS
  <2>1. ASSUME NEW c \in Invokers, Begin(c) \/ Passes(c) \/ Reserves(c) \/ Publishes(c) PROVE CountInv'
    BY <2>1, CountStays DEF Begin, Passes, Reserves, Publishes, storeVars
  <2>2. ASSUME NEW w \in Works, TouchArtifact(w) \/ \E t \in Times : Accept(w, t) PROVE CountInv'
    BY <2>2, CountStays DEF TouchArtifact, Accept, storeVars
  <2>3. CASE UNCHANGED vars
    BY <2>3, CountStays DEF vars, storeVars
  <2>4. ASSUME NEW c \in Invokers, Saves(c) PROVE CountInv'
    <3>1. WorkOf(c) \in Works
      BY <2>4, BodyKinds DEF Saves, At, SealInv, Busy, WorkOf
    <3> QED BY <2>4, <3>1, CountSaves
  <2> QED BY <2>1, <2>2, <2>3, <2>4, CountCreates, CountCompletes, Steps DEF SealInv
<1>2. CountInv => OneTransitionPerRequest
  BY DEF CountInv, OneTransitionPerRequest, UpdatesOf, Created, Made
<1> QED BY <1>1, <1>2, CountInit, SealAlways, PTL DEF Spec

=============================================================================
