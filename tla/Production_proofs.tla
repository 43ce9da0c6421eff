--------------------------- MODULE Production_proofs ---------------------------
(***************************************************************************)
(* Theorems about Production for any number of Runs, whatever they are     *)
(* configured to prepare, and any number of records, attempts, stops,      *)
(* lapses and faults. The passes take only steps of the Work store, so     *)
(* that what is proved of WorkLeases holds of the store they share.        *)
(***************************************************************************)
EXTENDS Production, FiniteSetTheorems, TLAPS

\* The same Work store, with its theorems.
W == INSTANCE WorkLeases_proofs WITH
    Kinds <- WorkKinds, Inputs <- WorkInputs, Workers <- Runs, RunOf <- [r \in Runs |-> r],
    MaxDetached <- 0, detached <- 0

-----------------------------------------------------------------------------
(* The Work store under its two names *)

LEMMA WorkConstants ==
    ASSUME ProductionConstants
    PROVE  W!LeaseConstants
BY DEF ProductionConstants, W!LeaseConstants, WorkInputs, WorkKinds

\* The standard module is reached in three ways.
LEMMA SameCounts ==
    \A S : Works!Cardinality(S) = W!Cardinality(S) /\ Works!Cardinality(S) = Cardinality(S)
BY DEF Works!Cardinality, W!Cardinality, Cardinality, Works!IsFiniteSet, W!IsFiniteSet, IsFiniteSet

LEMMA SameTables ==
    /\ Works!Store = W!Store
    /\ \A s : Works!Commits(s) <=> W!Commits(s)
    /\ \A s : Works!Recovered(s) = W!Recovered(s)
    /\ \A s, w, lease : Works!Holds(s, w, lease) <=> W!Holds(s, w, lease)
    /\ \A t : Works!PromoteReady(t) = W!PromoteReady(t)
    /\ \A t, r : Works!Claimable(t, r) = W!Claimable(t, r)
    /\ \A s, roots : Works!InvalidateTree(s, roots) = W!InvalidateTree(s, roots)
    /\ \A k, up : Works!Current(k, up) = W!Current(k, up)
    /\ \A row, status : Works!Freed(row, status) = W!Freed(row, status)
    /\ \A s, ids, outcome : Works!Closed(s, ids, outcome) = W!Closed(s, ids, outcome)
    /\ \A s, id : Works!CanRetry(s, id) <=> W!CanRetry(s, id)
    /\ \A t, ids : Works!BlockDependents(t, ids) = W!BlockDependents(t, ids)
    /\ \A t, ids : Works!PromoteDependents(t, ids) = W!PromoteDependents(t, ids)
<1>1. Works!Store = W!Store
  BY DEF Works!Store, W!Store
<1>2. \A s : Works!Commits(s) <=> W!Commits(s)
  BY DEF Works!Commits, W!Commits
<1>3. \A s : Works!Recovered(s) = W!Recovered(s)
  BY DEF Works!Recovered, W!Recovered, Works!BlockDependents, W!BlockDependents,
         Works!Downstream, W!Downstream, Works!Reached, W!Reached, Works!Dependents, W!Dependents,
         Works!Freed, W!Freed, Works!Closed, W!Closed, Works!CanRetry, W!CanRetry
<1>4. \A s, w, lease : Works!Holds(s, w, lease) <=> W!Holds(s, w, lease)
  BY DEF Works!Holds, W!Holds
<1>5. \A t : Works!PromoteReady(t) = W!PromoteReady(t)
  BY DEF Works!PromoteReady, W!PromoteReady, Works!UpStatuses, W!UpStatuses,
         Works!Unusable, W!Unusable
<1>6. \A t, r : Works!Claimable(t, r) = W!Claimable(t, r)
  BY DEF Works!Claimable, W!Claimable
<1>7. \A s, roots : Works!InvalidateTree(s, roots) = W!InvalidateTree(s, roots)
  BY DEF Works!InvalidateTree, W!InvalidateTree, Works!Reached, W!Reached,
         Works!Freed, W!Freed, Works!Closed, W!Closed
<1>8. \A k, up : Works!Current(k, up) = W!Current(k, up)
  BY DEF Works!Current, W!Current, Works!Ids, W!Ids
<1>9. \A row, status : Works!Freed(row, status) = W!Freed(row, status)
  BY DEF Works!Freed, W!Freed
<1>10. \A s, ids, outcome : Works!Closed(s, ids, outcome) = W!Closed(s, ids, outcome)
  BY DEF Works!Closed, W!Closed
<1>11. \A s, id : Works!CanRetry(s, id) <=> W!CanRetry(s, id)
  BY DEF Works!CanRetry, W!CanRetry
<1>12. \A t, ids : Works!BlockDependents(t, ids) = W!BlockDependents(t, ids)
  BY DEF Works!BlockDependents, W!BlockDependents, Works!Downstream, W!Downstream,
         Works!Reached, W!Reached, Works!Dependents, W!Dependents
<1>13. \A t, ids : Works!PromoteDependents(t, ids) = W!PromoteDependents(t, ids)
  BY DEF Works!PromoteDependents, W!PromoteDependents, Works!Dependents, W!Dependents,
         Works!UpStatuses, W!UpStatuses
<1> QED
  BY <1>1, <1>2, <1>3, <1>4, <1>5, <1>6, <1>7, <1>8, <1>9, <1>10, <1>11, <1>12, <1>13

LEMMA SameCalls ==
    /\ \A r, k, up, id : Works!Ensured(r, k, up, id) <=> W!Ensured(r, k, up, id)
    /\ \A w, id : Works!Claimed(w, id) <=> W!Claimed(w, id)
    /\ \A w, batch : Works!Succeeded(w, batch) <=> W!Succeeded(w, batch)
    /\ \A w, lease, again, later : Works!Failed(w, lease, again, later) <=> W!Failed(w, lease, again, later)
    /\ \A roots : Works!Invalidated(roots) <=> W!Invalidated(roots)
<1>1. \A r, k, up, id : Works!Ensured(r, k, up, id) <=> W!Ensured(r, k, up, id)
  BY SameTables DEF Works!Ensured, W!Ensured, Works!InitialStatus, W!InitialStatus,
     Works!UpStatuses, W!UpStatuses, Works!Unusable, W!Unusable
<1>2. \A w, id : Works!Claimed(w, id) <=> W!Claimed(w, id)
  BY SameTables DEF Works!Claimed, W!Claimed
<1>3. \A w, batch : Works!Succeeded(w, batch) <=> W!Succeeded(w, batch)
  BY SameTables DEF Works!Succeeded, W!Succeeded
<1>4. \A w, lease, again, later : Works!Failed(w, lease, again, later) <=> W!Failed(w, lease, again, later)
  BY SameTables DEF Works!Failed, W!Failed
<1>5. \A roots : Works!Invalidated(roots) <=> W!Invalidated(roots)
  BY SameTables DEF Works!Invalidated, W!Invalidated
<1> QED BY <1>1, <1>2, <1>3, <1>4, <1>5

LEMMA SameStore ==
    /\ Works!Init <=> W!Init
    /\ Works!Next <=> W!Next
    /\ Works!vars = W!vars
    /\ Works!TypeOK <=> W!TypeOK
    /\ Works!InputsHold <=> W!InputsHold
    /\ Works!Ids = W!Ids
<1>1. Works!Init <=> W!Init
  BY DEF Works!Init, W!Init
<1>2. Works!vars = W!vars
  BY DEF Works!vars, W!vars
<1>3. Works!TypeOK <=> W!TypeOK
  BY DEF Works!TypeOK, W!TypeOK, Works!Records, W!Records, Works!Statuses, W!Statuses,
     Works!Outcomes, W!Outcomes, Works!Leases, W!Leases, Works!Ids, W!Ids
<1>4. Works!InputsHold <=> W!InputsHold
  BY DEF Works!InputsHold, W!InputsHold, Works!Ids, W!Ids
<1>5. Works!Ids = W!Ids
  BY DEF Works!Ids, W!Ids
<1>6. \A w : /\ Works!Claim(w) <=> W!Claim(w)
             /\ Works!ClaimNothing(w) <=> W!ClaimNothing(w)
             /\ Works!Renew(w) <=> W!Renew(w)
             /\ Works!Succeed(w) <=> W!Succeed(w)
             /\ Works!Fail(w) <=> W!Fail(w)
             /\ Works!LoseLease(w) <=> W!LoseLease(w)
             /\ Works!Crash(w) <=> W!Crash(w)
  <2>1. \A w : Works!Claim(w) <=> W!Claim(w)
    BY SameCalls DEF Works!Claim, W!Claim
  <2>2. \A w : Works!ClaimNothing(w) <=> W!ClaimNothing(w)
    BY SameTables DEF Works!ClaimNothing, W!ClaimNothing
  <2>3. \A w : Works!Renew(w) <=> W!Renew(w)
    BY SameTables DEF Works!Renew, W!Renew
  <2>4. \A w : Works!Succeed(w) <=> W!Succeed(w)
    BY SameCalls DEF Works!Succeed, W!Succeed
  <2>5. \A w : Works!Fail(w) <=> W!Fail(w)
    BY SameCalls DEF Works!Fail, W!Fail
  <2>6. \A w : Works!LoseLease(w) <=> W!LoseLease(w)
    BY SameTables DEF Works!LoseLease, W!LoseLease
  <2>7. \A w : Works!Crash(w) <=> W!Crash(w)
    BY DEF Works!Crash, W!Crash
  <2> QED BY <2>1, <2>2, <2>3, <2>4, <2>5, <2>6, <2>7
<1>7. /\ Works!RecoverExpired <=> W!RecoverExpired
      /\ Works!Invalidate <=> W!Invalidate
      /\ Works!LeaseExpires <=> W!LeaseExpires
      /\ Works!DelayPasses <=> W!DelayPasses
  <2>1. Works!RecoverExpired <=> W!RecoverExpired
    BY SameTables DEF Works!RecoverExpired, W!RecoverExpired
  <2>2. Works!Invalidate <=> W!Invalidate
    BY <1>5, SameCalls DEF Works!Invalidate, W!Invalidate
  <2>3. Works!LeaseExpires <=> W!LeaseExpires
    BY <1>5 DEF Works!LeaseExpires, W!LeaseExpires
  <2>4. Works!DelayPasses <=> W!DelayPasses
    BY <1>5 DEF Works!DelayPasses, W!DelayPasses
  <2> QED BY <2>1, <2>2, <2>3, <2>4
<1>8. \A r : /\ Works!Detach(r) <=> W!Detach(r)
             /\ Works!Rebuild(r) <=> W!Rebuild(r)
             /\ Works!EnsureWork(r) <=> W!EnsureWork(r)
  <2>1. \A r : Works!Detach(r) <=> W!Detach(r)
    BY DEF Works!Detach, W!Detach
  <2>2. \A r : Works!Rebuild(r) <=> W!Rebuild(r)
    BY SameCalls DEF Works!Rebuild, W!Rebuild
  <2>3. \A r : Works!EnsureWork(r) <=> W!EnsureWork(r)
    <3> SUFFICES ASSUME NEW r PROVE Works!EnsureWork(r) <=> W!EnsureWork(r)
      OBVIOUS
    <3>1. \A k, up, id : Works!Ensured(r, k, up, id) <=> W!Ensured(r, k, up, id)
      BY SameCalls
    <3> QED BY <3>1, SameCounts DEF Works!EnsureWork, W!EnsureWork
  <2> QED BY <2>1, <2>2, <2>3
<1>9. Works!Next <=> W!Next
  BY <1>6, <1>7, <1>8 DEF Works!Next, W!Next
<1> QED BY <1>1, <1>2, <1>3, <1>4, <1>5, <1>9

-----------------------------------------------------------------------------
(* The invariant *)

StoreStep == [Works!Next]_(Works!vars)

\* The tables of the Work store are sound.
Tables == W!Inv /\ W!OneCurrent

Places == 1..(Len(Order) + 1)
Targets == (1..MaxWork) \cup {None}
Takings == [WorkKinds -> Sightings \cup {None}]

\* What a pass relies on, of the records, the Run's requests and its leases:
\* what it has taken are requests of the Run, each of the kind it is taken for;
\* it is in a call about a request of the kind it is at; and when it computes,
\* it goes by a lease of that record.
Sound(table, mine, leases, st, sp, tg, tk) ==
    /\ \A k \in WorkKinds : tk[k] # None => tk[k].id \in mine /\ table[tk[k].id].kind = k
    /\ sp # "demand" => st \in 1..Len(Order) /\ tg \in mine /\ table[tg].kind = Order[st]
    /\ sp = "held" => \E lease \in leases : lease.id = tg

PassSound(r) == Sound(rows, attached[r], held[r], stage[r], step[r], target[r], taken[r])

PassTypes ==
    /\ config \in Configs
    /\ stage \in [Runs -> Places]
    /\ step \in [Runs -> Steps]
    /\ target \in [Runs -> Targets]
    /\ taken \in [Runs -> Takings]
    /\ verdict \in [Runs -> Verdicts]

Counted == stops \in 0..MaxStops /\ lapses \in 0..MaxLapses /\ faults \in 0..MaxFaults

Inv ==
    /\ Tables
    /\ PassTypes
    /\ Counted
    /\ \A r \in Runs : PassSound(r)

-----------------------------------------------------------------------------
(* What is known of the store *)

\* The records as the passes see them
LEMMA TablesAre ==
    ASSUME ProductionConstants, Tables
    PROVE  /\ Len(rows) \in Nat /\ Len(rows) <= MaxWork /\ Works!Ids = 1..Len(rows)
           /\ \A d \in 1..Len(rows) :
                /\ rows[d].status \in Works!Statuses
                /\ {rows[u].kind : u \in rows[d].up} \in WorkInputs[rows[d].kind]
           /\ attached \in [Runs -> SUBSET (1..Len(rows))]
           /\ \A r \in Runs : \A lease \in held[r] : lease.id \in 1..Len(rows)
           /\ held \in [Runs -> SUBSET Works!Leases]
           /\ Works!TypeOK /\ Works!InputsHold
<1>1. W!LeaseConstants
  BY WorkConstants
<1>2. /\ Len(rows) \in Nat /\ Works!Ids = 1..Len(rows)
      /\ \A r \in Runs : \A lease \in held[r] : lease.id \in 1..Len(rows)
  BY <1>1, W!StoreGood, SameStore DEF Tables
<1>3. attached \in [Runs -> SUBSET (1..Len(rows))]
  BY <1>1, W!StoreGood DEF Tables, W!AttachedOver
<1>4. Works!TypeOK /\ Works!InputsHold
  BY <1>1, W!InvTypes, W!InvInputs, SameStore DEF Tables
<1>5. \A d \in 1..Len(rows) : {rows[u].kind : u \in rows[d].up} \in WorkInputs[rows[d].kind]
  BY <1>2, SameStore DEF Tables, W!OneCurrent
<1>6. /\ Len(rows) <= MaxWork /\ held \in [Runs -> SUBSET Works!Leases]
      /\ rows \in Seq(Works!Records)
  BY <1>4 DEF Works!TypeOK
<1>7. \A d \in 1..Len(rows) : rows[d].status \in Works!Statuses
  <2>1. \A d \in 1..Len(rows) : rows[d] \in Works!Records
    BY <1>6
  <2> QED BY <2>1 DEF Works!Records
<1> QED BY <1>2, <1>3, <1>4, <1>5, <1>6, <1>7

\* Its own steps keep the tables, and every record in its place.
LEMMA StoreKept ==
    ASSUME ProductionConstants, Tables, StoreStep
    PROVE  /\ Tables'
           /\ \A id \in 1..Len(rows) : id \in 1..Len(rows') /\ rows'[id].kind = rows[id].kind
           /\ Len(rows') \in Nat /\ Len(rows') <= MaxWork
           /\ attached' \in [Runs -> SUBSET (1..Len(rows'))]
           /\ \A d \in 1..Len(rows') : rows'[d].status \in Works!Statuses
<1>1. W!LeaseConstants
  BY WorkConstants
<1>2. W!Inv /\ W!OneCurrent /\ [W!Next]_(W!vars)
  BY SameStore DEF Tables, StoreStep, Works!vars, W!vars
<1>3. W!Inv' /\ W!OneCurrent'
  BY <1>1, <1>2, W!InvStep, W!OneCurrentStep
<1>4. \A id \in W!Ids : id \in W!Ids' /\ rows'[id].kind = rows[id].kind
  BY <1>1, <1>2, W!KindsStay
<1>5. W!Ids = 1..Len(rows)
  BY <1>1, <1>2, W!StoreGood
<1>6. W!Ids' = 1..Len(rows')
  BY <1>3 DEF W!Inv, W!Good, W!Ids
<1>7. Len(rows') \in 0..MaxWork /\ attached' \in [Runs -> SUBSET (1..Len(rows'))]
  BY <1>3 DEF W!Inv, W!Good
<1>8. \A d \in 1..Len(rows') : rows'[d].status \in Works!Statuses
  BY <1>3 DEF W!Inv, W!Good, W!Records, W!Statuses, Works!Statuses
<1> QED BY <1>3, <1>4, <1>5, <1>6, <1>7, <1>8 DEF Tables, ProductionConstants

-----------------------------------------------------------------------------
(* What becomes of a pass *)

\* No other Run loses a request or a lease.
Spares(r) ==
    \A s \in Runs : attached[s] \subseteq attached'[s] /\ (s # r => held'[s] = held[s])

\* A pass on its way: the Work store has taken a step of its own, the other
\* Runs are spared, and the pass is sound where it now stands.
PassStep(r) ==
    /\ StoreStep
    /\ Spares(r)
    /\ \E st \in Places, sp \in Steps, tg \in Targets, tk \in Takings, vd \in Verdicts :
         /\ stage' = [stage EXCEPT ![r] = st]
         /\ step' = [step EXCEPT ![r] = sp]
         /\ target' = [target EXCEPT ![r] = tg]
         /\ taken' = [taken EXCEPT ![r] = tk]
         /\ verdict' = [verdict EXCEPT ![r] = vd]
         /\ Sound(rows', attached'[r], held'[r], st, sp, tg, tk)
    /\ UNCHANGED config
    /\ Counted'

\* Where nothing is lost and no record changes its kind, a pass stays sound.
LEMMA SoundStays ==
    ASSUME NEW T, NEW M, NEW A, NEW B, NEW H, NEW st, NEW sp, NEW tg, NEW tk,
           Sound(T, A, H, st, sp, tg, tk), A \subseteq B,
           \A id \in A : M[id].kind = T[id].kind
    PROVE  Sound(M, B, H, st, sp, tg, tk)
BY DEF Sound

LEMMA PassStepKeeps ==
    ASSUME ProductionConstants, Inv, NEW r \in Runs, PassStep(r)
    PROVE  Inv'
<1>1. PICK st \in Places, sp \in Steps, tg \in Targets, tk \in Takings, vd \in Verdicts :
         /\ stage' = [stage EXCEPT ![r] = st]
         /\ step' = [step EXCEPT ![r] = sp]
         /\ target' = [target EXCEPT ![r] = tg]
         /\ taken' = [taken EXCEPT ![r] = tk]
         /\ verdict' = [verdict EXCEPT ![r] = vd]
         /\ Sound(rows', attached'[r], held'[r], st, sp, tg, tk)
  BY DEF PassStep
<1>2. Tables' /\ \A id \in 1..Len(rows) : rows'[id].kind = rows[id].kind
  BY StoreKept DEF Inv, PassStep
<1>3. PassTypes'
  BY <1>1 DEF Inv, PassTypes, PassStep
<1>4. ASSUME NEW s \in Runs PROVE PassSound(s)'
  <2>1. CASE s = r
    <3>1. /\ stage'[r] = st /\ step'[r] = sp /\ target'[r] = tg /\ taken'[r] = tk
      BY <1>1 DEF Inv, PassTypes
    <3> QED BY <1>1, <2>1, <3>1 DEF PassSound
  <2>2. CASE s # r
    <3>1. /\ stage'[s] = stage[s] /\ step'[s] = step[s] /\ target'[s] = target[s]
          /\ taken'[s] = taken[s]
      BY <1>1, <2>2 DEF Inv, PassTypes
    <3>2. attached[s] \subseteq attached'[s] /\ held'[s] = held[s]
      BY <2>2 DEF PassStep, Spares
    <3>3. Sound(rows, attached[s], held[s], stage[s], step[s], target[s], taken[s])
      BY DEF Inv, PassSound
    <3>4. \A id \in attached[s] : rows'[id].kind = rows[id].kind
      BY <1>2, TablesAre DEF Inv
    <3>5. Sound(rows', attached'[s], held[s], stage[s], step[s], target[s], taken[s])
      BY <3>2, <3>3, <3>4, SoundStays
    <3> QED BY <3>1, <3>2, <3>5 DEF PassSound
  <2> QED BY <2>1, <2>2
<1> QED BY <1>2, <1>3, <1>4 DEF Inv, PassStep

\* The place after any other is one.
LEMMA AfterIsPlace ==
    ASSUME ProductionConstants, NEW r, NEW i \in Nat
    PROVE  After(r, i) \in Places
<1> DEFINE T == {j \in (i + 1)..Len(Order) : Order[j] \in config[r]} \cup {Len(Order) + 1}
<1>1. T \in SUBSET Places /\ T # {} /\ Places \in SUBSET Nat
  BY DEF Order, Places
<1>2. \E m \in T : \A j \in T : m <= j
  BY <1>1, WorkConstants, W!LeastNumber
<1>3. Min(T) \in T
  <2> HIDE DEF T
  <2> QED BY <1>2 DEF Min
<1> QED BY <1>1, <1>3 DEF After

LEMMA TakenStays ==
    ASSUME ProductionConstants, Inv, NEW r \in Runs, StoreStep, Spares(r)
    PROVE  \A k \in WorkKinds : taken[r][k] # None =>
             taken[r][k].id \in attached'[r] /\ rows'[taken[r][k].id].kind = k
<1>1. \A id \in attached[r] : id \in attached'[r] /\ rows'[id].kind = rows[id].kind
  BY StoreKept, TablesAre DEF Inv, Spares
<1>2. \A k \in WorkKinds : taken[r][k] # None =>
        taken[r][k].id \in attached[r] /\ rows[taken[r][k].id].kind = k
  BY DEF Inv, PassSound, Sound
<1> QED BY <1>1, <1>2

LEMMA Collected ==
    ASSUME ProductionConstants, Inv, NEW r \in Runs, StoreStep, Spares(r), UNCHANGED config, Counted',
           NEW k \in WorkKinds, NEW id \in attached'[r], rows'[id].kind = k,
           NEW status \in Works!Statuses, Collect(r, k, id, status)
    PROVE  Inv'
<1> DEFINE seen == [id |-> id, status |-> status]
           tk == [taken[r] EXCEPT ![k] = seen]
<1>1. id \in 1..MaxWork
  <2>1. /\ attached' \in [Runs -> SUBSET (1..Len(rows'))] /\ Len(rows') \in Nat
        /\ Len(rows') <= MaxWork /\ MaxWork \in Nat
    BY StoreKept DEF Inv, ProductionConstants
  <2>2. id \in 1..Len(rows')
    BY <2>1
  <2> QED BY <2>1, <2>2
<1>2. seen \in Sightings /\ seen.id = id
  BY <1>1 DEF Sightings
<1> HIDE DEF seen
<1>3. /\ stage \in [Runs -> Places] /\ step \in [Runs -> Steps] /\ target \in [Runs -> Targets]
      /\ taken \in [Runs -> Takings] /\ verdict \in [Runs -> Verdicts]
  BY DEF Inv, PassTypes
<1>4. taken[r] \in [WorkKinds -> Sightings \cup {None}]
  BY <1>3 DEF Takings
<1>5. tk \in Takings /\ tk[k] = seen /\ \A j \in WorkKinds \ {k} : tk[j] = taken[r][j]
  BY <1>2, <1>4 DEF Takings
<1>6. taken' = [taken EXCEPT ![r] = tk]
  BY <1>3 DEF Collect, seen
<1> HIDE DEF tk
<1>7. After(r, stage[r]) \in Places
  BY <1>3, AfterIsPlace DEF Places, Order
<1>8. Sound(rows', attached'[r], held'[r], After(r, stage[r]), "demand", None, tk)
  <2>1. \A j \in WorkKinds : tk[j] # None => tk[j].id \in attached'[r] /\ rows'[tk[j].id].kind = j
    BY <1>2, <1>5, TakenStays
  <2> QED BY <2>1 DEF Sound
<1>9. /\ stage' = [stage EXCEPT ![r] = After(r, stage[r])]
      /\ step' = [step EXCEPT ![r] = "demand"]
      /\ target' = [target EXCEPT ![r] = None]
      /\ verdict' = [verdict EXCEPT ![r] = verdict[r]]
  BY <1>3 DEF Collect
<1>10. "demand" \in Steps /\ None \in Targets /\ verdict[r] \in Verdicts
  BY <1>3 DEF Steps, Targets
<1>11. PassStep(r)
  BY <1>5, <1>6, <1>7, <1>8, <1>9, <1>10 DEF PassStep
<1> QED BY <1>11, PassStepKeeps

LEMMA Proceeded ==
    ASSUME ProductionConstants, Inv, NEW r \in Runs, StoreStep, Spares(r), UNCHANGED config, Counted',
           NEW to \in Steps, NEW id \in attached'[r], Proceed(r, to, id),
           stage[r] \in 1..Len(Order), rows'[id].kind = Order[stage[r]],
           to = "held" => \E lease \in held'[r] : lease.id = id
    PROVE  Inv'
<1>1. id \in Targets
  <2>1. /\ attached' \in [Runs -> SUBSET (1..Len(rows'))] /\ Len(rows') \in Nat
        /\ Len(rows') <= MaxWork /\ MaxWork \in Nat
    BY StoreKept DEF Inv, ProductionConstants
  <2>2. id \in 1..Len(rows')
    BY <2>1
  <2> QED BY <2>1, <2>2 DEF Targets
<1>2. /\ stage \in [Runs -> Places] /\ step \in [Runs -> Steps] /\ target \in [Runs -> Targets]
      /\ taken \in [Runs -> Takings] /\ verdict \in [Runs -> Verdicts]
  BY DEF Inv, PassTypes
<1>3. Sound(rows', attached'[r], held'[r], stage[r], to, id, taken[r])
  BY TakenStays DEF Sound
<1>4. /\ stage' = [stage EXCEPT ![r] = stage[r]]
      /\ step' = [step EXCEPT ![r] = to]
      /\ target' = [target EXCEPT ![r] = id]
      /\ taken' = [taken EXCEPT ![r] = taken[r]]
      /\ verdict' = [verdict EXCEPT ![r] = verdict[r]]
  BY <1>2 DEF Proceed
<1>5. PassStep(r)
  BY <1>1, <1>2, <1>3, <1>4 DEF PassStep
<1> QED BY <1>5, PassStepKeeps

\* Outside a call there is nothing to rely on but what has been taken.
LEMMA Left ==
    ASSUME ProductionConstants, Inv, NEW r \in Runs, StoreStep, Spares(r), UNCHANGED config, Counted',
           NEW st \in Places, NEW tg \in Targets, NEW tk \in {taken[r], Nothing}, NEW vd \in Verdicts,
           /\ stage' = [stage EXCEPT ![r] = st]
           /\ step' = [step EXCEPT ![r] = "demand"]
           /\ target' = [target EXCEPT ![r] = tg]
           /\ taken' = [taken EXCEPT ![r] = tk]
           /\ verdict' = [verdict EXCEPT ![r] = vd]
    PROVE  Inv'
<1>1. tk \in Takings /\ "demand" \in Steps
  BY DEF Inv, PassTypes, Takings, Nothing, Steps
<1>2. \A k \in WorkKinds : tk[k] # None => tk[k].id \in attached'[r] /\ rows'[tk[k].id].kind = k
  BY TakenStays DEF Nothing
<1>3. Sound(rows', attached'[r], held'[r], st, "demand", tg, tk)
  BY <1>2 DEF Sound
<1>4. PassStep(r)
  BY <1>1, <1>3 DEF PassStep
<1> QED BY <1>4, PassStepKeeps

LEMMA EndedStep ==
    ASSUME ProductionConstants, Inv, NEW r \in Runs, StoreStep, Spares(r), UNCHANGED config, Counted',
           NEW how \in Verdicts, Ends(r, how)
    PROVE  Inv'
<1>1. /\ stage \in [Runs -> Places] /\ taken \in [Runs -> Takings]
      /\ None \in Targets
  BY DEF Inv, PassTypes, Targets
<1>2. /\ stage' = [stage EXCEPT ![r] = stage[r]] /\ taken' = [taken EXCEPT ![r] = taken[r]]
  BY <1>1 DEF Ends
<1>3. stage[r] \in Places
  BY <1>1
<1> QED BY <1>1, <1>2, <1>3, Left DEF Ends

LEMMA Raised ==
    ASSUME ProductionConstants, Inv, NEW r \in Runs, StoreStep, Spares(r), UNCHANGED config, Counted',
           Raise(r)
    PROVE  Inv'
BY EndedStep DEF Raise, Verdicts

LEMMA Restarted ==
    ASSUME ProductionConstants, Inv, NEW r \in Runs, StoreStep, Spares(r), Restart(r)
    PROVE  Inv'
<1>1. /\ verdict \in [Runs -> Verdicts] /\ None \in Targets
  BY DEF Inv, PassTypes, Targets
<1>2. verdict' = [verdict EXCEPT ![r] = verdict[r]] /\ verdict[r] \in Verdicts
  BY <1>1 DEF Restart
<1>3. After(r, 0) \in Places
  BY AfterIsPlace
<1>4. Counted' /\ UNCHANGED config
  BY DEF Restart, Inv, Counted, ProductionConstants
<1> QED BY <1>1, <1>2, <1>3, <1>4, Left DEF Restart


-----------------------------------------------------------------------------
(* The steps of a producer's call *)

LEMMA AtKind ==
    ASSUME Inv, NEW r \in Runs, NEW k, At(r, k)
    PROVE  stage[r] \in 1..Len(Order) /\ Order[stage[r]] = k /\ k \in WorkKinds
BY DEF Inv, PassTypes, Places, At, Produced, Order, WorkKinds

\* In a call, the record it is about is one of the Run's and of the right kind.
LEMMA InCall ==
    ASSUME ProductionConstants, Inv, NEW r \in Runs, NEW k, At(r, k), step[r] # "demand", StoreStep,
           Spares(r)
    PROVE  /\ target[r] \in attached[r] /\ target[r] \in 1..Len(rows) /\ rows[target[r]].kind = k
           /\ target[r] \in attached'[r] /\ rows'[target[r]].kind = k
           /\ rows'[target[r]].status \in Works!Statuses
<1>1. target[r] \in attached[r] /\ rows[target[r]].kind = k
  BY AtKind DEF Inv, PassSound, Sound
<1>2. target[r] \in 1..Len(rows)
  BY <1>1, TablesAre DEF Inv
<1>3. target[r] \in attached'[r]
  BY <1>1 DEF Spares
<1> QED BY <1>1, <1>2, <1>3, StoreKept DEF Inv

\* The call ends with the record it was about.
LEMMA Answered ==
    ASSUME ProductionConstants, Inv, NEW r \in Runs, NEW k, At(r, k), step[r] # "demand", StoreStep,
           Spares(r), UNCHANGED config, Counted',
           NEW status \in Works!Statuses, Collect(r, k, target[r], status)
    PROVE  Inv'
BY AtKind, InCall, Collected

LEMMA LeaseIs ==
    ASSUME Inv, NEW r \in Runs, step[r] = "held"
    PROVE  Lease(r) \in held[r] /\ Lease(r).id = target[r]
<1>1. \E lease \in held[r] : lease.id = target[r]
  BY DEF Inv, PassSound, Sound
<1> QED BY <1>1 DEF Lease

\* A step that the counters of the passes do not count.
LEMMA NotCounted ==
    ASSUME Inv, UNCHANGED counts
    PROVE  Counted'
BY DEF Inv, Counted, counts

LEMMA KindsCounted ==
    ASSUME NEW up, IsFiniteSet(up), \A u, v \in up : rows[u].kind = rows[v].kind => u = v
    PROVE  Cardinality({rows[u].kind : u \in up}) = Cardinality(up)
<1> DEFINE kinds == {rows[u].kind : u \in up}
           f == [u \in up |-> rows[u].kind]
<1>1. f \in Surjection(up, kinds)
  BY DEF Surjection
<1>2. f \in Injection(up, kinds)
  BY DEF Injection, IsInjective
<1> HIDE DEF f, kinds
<1>3. Cardinality(kinds) = Cardinality(up)
  BY <1>1, <1>2, FS_Surjection
<1> QED BY <1>3 DEF kinds

\* What is demanded is made from records of the Run, one of each kind.
LEMMA DemandStep ==
    ASSUME ProductionConstants, Inv, NEW r \in Runs, NEW k, At(r, k),
           NEW up \in SUBSET attached[r], \A u, v \in up : rows[u].kind = rows[v].kind => u = v,
           Demand(r, k, up)
    PROVE  StoreStep /\ Inv'
<1>1. PICK id \in 1..MaxWork :
         /\ Works!Ensured(r, k, up, id)
         /\ IF rows'[id].status \in {"ready", "retryable"}
            THEN Proceed(r, "claim", id)
            ELSE Collect(r, k, id, rows'[id].status)
  BY DEF Demand
<1>2. /\ Len(rows) \in Nat /\ attached \in [Runs -> SUBSET (1..Len(rows))] /\ Works!Ids = 1..Len(rows)
  BY TablesAre DEF Inv
<1>3. /\ attached' = [attached EXCEPT ![r] = @ \cup {id}]
      /\ {rows[u].kind : u \in up} \in WorkInputs[k]
      /\ UNCHANGED <<held, invalidations>>
      /\ \/ id \in Works!Current(k, up) /\ UNCHANGED <<rows, attempts>>
         \/ id = Len(rows) + 1
  BY <1>1 DEF Works!Ensured
<1>4. id \in 1..(Len(rows) + 1)
  BY <1>2, <1>3 DEF Works!Current
<1>5. k \in WorkKinds /\ stage[r] \in 1..Len(Order) /\ Order[stage[r]] = k
  BY AtKind
<1>6. StoreStep
  <2>1. CASE id \in attached[r]
    <3>1. UNCHANGED <<rows, attempts>>
      BY <1>2, <1>3, <2>1
    <3>2. UNCHANGED attached
      BY <1>2, <1>3, <2>1
    <3> QED BY <1>3, <3>1, <3>2 DEF StoreStep, Works!vars
  <2>2. CASE id \notin attached[r]
    <3>1. IsFiniteSet(up)
      <4>1. up \in SUBSET (1..Len(rows)) /\ IsFiniteSet(1..Len(rows))
        BY <1>2, FS_Interval
      <4> QED BY <4>1, FS_Subset
    <3>2. Cardinality({rows[u].kind : u \in up}) = Cardinality(up)
      BY <3>1, KindsCounted
    <3>3. Works!Cardinality({rows[u].kind : u \in up}) = Works!Cardinality(up)
      BY <3>2, SameCounts
    <3>4. Works!EnsureWork(r)
      BY <1>1, <1>3, <1>4, <1>5, <2>2, <3>3 DEF Works!EnsureWork
    <3> QED BY <3>4 DEF StoreStep, Works!Next
  <2> QED BY <2>1, <2>2
<1>7. Spares(r) /\ id \in attached'[r]
  BY <1>2, <1>3 DEF Spares
<1>8. rows'[id].kind = k
  <2>1. CASE id \in Works!Current(k, up) /\ UNCHANGED rows
    BY <2>1 DEF Works!Current
  <2>2. CASE id = Len(rows) + 1
    <3>1. id \notin Works!Current(k, up)
      BY <1>2, <2>2 DEF Works!Current
    <3>2. PICK status : rows' = Append(rows, [kind |-> k, up |-> up, status |-> status,
                                              lease |-> None, expired |-> FALSE, delayed |-> FALSE])
      BY <1>1, <3>1 DEF Works!Ensured
    <3>3. rows \in Seq(Works!Records)
      BY TablesAre DEF Inv, Works!TypeOK
    <3> QED BY <2>2, <3>2, <3>3
  <2> QED BY <1>3, <2>1, <2>2
<1>9. rows'[id].status \in Works!Statuses
  BY <1>6, <1>7, StoreKept DEF Inv
<1>10. Counted' /\ UNCHANGED config
  BY NotCounted DEF Demand
<1>11. CASE Proceed(r, "claim", id)
  BY <1>5, <1>6, <1>7, <1>8, <1>10, <1>11, Proceeded DEF Steps
<1>12. CASE Collect(r, k, id, rows'[id].status)
  BY <1>5, <1>6, <1>7, <1>8, <1>9, <1>10, <1>12, Collected
<1> QED BY <1>1, <1>6, <1>11, <1>12

\* A claim that finds no lease to be had has at most recovered those expired.
LEMMA ClaimStep ==
    ASSUME ProductionConstants, Inv, NEW r \in Runs, NEW k, At(r, k), Claim(r)
    PROVE  StoreStep /\ Inv'
<1>1. Counted' /\ UNCHANGED config /\ step[r] = "claim"
  BY NotCounted DEF Claim
<1>2. stage[r] \in 1..Len(Order) /\ Order[stage[r]] = k
  BY AtKind
<1>3. CASE Works!Claimed(r, target[r]) /\ Proceed(r, "held", target[r])
  <2>1. Works!Claim(r)
    BY <1>3 DEF Works!Claim, Works!Claimed, Works!Claimable
  <2>2. StoreStep
    BY <2>1 DEF StoreStep, Works!Next
  <2>3. /\ UNCHANGED attached
        /\ \E n : held' = [held EXCEPT ![r] = @ \cup {[id |-> target[r], attempt |-> n]}]
    BY <1>3 DEF Works!Claimed
  <2>4. held \in [Runs -> SUBSET Works!Leases]
    BY TablesAre DEF Inv
  <2>5. Spares(r) /\ \E lease \in held'[r] : lease.id = target[r]
    BY <2>3, <2>4 DEF Spares
  <2>6. target[r] \in attached'[r] /\ rows'[target[r]].kind = k
    BY <1>1, <2>2, <2>5, InCall
  <2>7. "held" \in Steps
    BY DEF Steps
  <2>8. Inv'
    BY <1>1, <1>2, <1>3, <2>2, <2>5, <2>6, <2>7, Proceeded, Zenon
  <2> QED BY <2>2, <2>8, SMTT(30)
<1>4. CASE /\ Works!Commits([rows |-> Works!PromoteReady(Works!Recovered(Works!Store).rows),
                             attempts |-> Works!Recovered(Works!Store).attempts])
           /\ Proceed(r, "reread", target[r])
           /\ UNCHANGED <<attached, held, invalidations>>
  <2>1. Works!PromoteReady(Works!Recovered(Works!Store).rows) = Works!Recovered(Works!Store).rows
    BY WorkConstants, SameTables, W!NothingToPromote DEF Inv, Tables
  <2>2. Works!Commits(Works!Recovered(Works!Store))
    BY <1>4, <2>1 DEF Works!Commits
  <2>3. ASSUME Works!Recovered(Works!Store) = Works!Store PROVE StoreStep
    BY <1>4, <2>2, <2>3 DEF StoreStep, Works!vars, Works!Commits, Works!Store
  <2>4. ASSUME Works!Recovered(Works!Store) # Works!Store PROVE StoreStep
    BY <1>4, <2>2, <2>4 DEF StoreStep, Works!Next, Works!RecoverExpired
  <2>5. StoreStep /\ Spares(r)
    BY <1>4, <2>3, <2>4 DEF Spares
  <2>6. target[r] \in attached'[r] /\ rows'[target[r]].kind = k
    BY <1>1, <2>5, InCall
  <2> QED BY <1>1, <1>2, <1>4, <2>5, <2>6, Proceeded DEF Steps
<1> QED BY <1>3, <1>4 DEF Claim

LEMMA RereadStep ==
    ASSUME ProductionConstants, Inv, NEW r \in Runs, NEW k, At(r, k), Reread(r, k)
    PROVE  StoreStep /\ Inv'
<1>1. Counted' /\ UNCHANGED config /\ step[r] = "reread" /\ UNCHANGED store
  BY NotCounted DEF Reread
<1>2. StoreStep /\ Spares(r)
  BY <1>1 DEF StoreStep, Works!vars, store, Spares
<1>3. rows[target[r]].status \in Works!Statuses
  BY <1>1, <1>2, InCall DEF store
<1> QED BY <1>1, <1>2, <1>3, Answered DEF Reread

\* A report on the lease of the call is one the Work store knows.
LEMMA ReportSteps ==
    ASSUME ProductionConstants, Inv, NEW r \in Runs, step[r] = "held"
    PROVE  /\ Works!Succeeded(r, {Lease(r)}) => StoreStep /\ Spares(r)
           /\ \A again \in BOOLEAN : Works!Failed(r, Lease(r), again, FALSE) => StoreStep /\ Spares(r)
<1>1. Lease(r) \in held[r]
  BY LeaseIs
<1>2. held \in [Runs -> SUBSET Works!Leases]
  BY TablesAre DEF Inv
<1>3. ASSUME Works!Succeeded(r, {Lease(r)}) PROVE StoreStep /\ Spares(r)
  <2>1. Works!Succeed(r)
    BY <1>1, <1>3 DEF Works!Succeed
  <2>2. UNCHANGED attached /\ \A s \in Runs \ {r} : held'[s] = held[s]
    BY <1>2, <1>3 DEF Works!Succeeded
  <2> QED BY <2>1, <2>2 DEF StoreStep, Works!Next, Spares
<1>4. ASSUME NEW again \in BOOLEAN, Works!Failed(r, Lease(r), again, FALSE) PROVE StoreStep /\ Spares(r)
  <2>1. Works!Fail(r)
    BY <1>1, <1>4 DEF Works!Fail
  <2>2. UNCHANGED attached /\ \A s \in Runs \ {r} : held'[s] = held[s]
    BY <1>2, <1>4 DEF Works!Failed
  <2> QED BY <2>1, <2>2 DEF StoreStep, Works!Next, Spares
<1> QED BY <1>3, <1>4

LEMMA FinishStep ==
    ASSUME ProductionConstants, Inv, NEW r \in Runs, NEW k, At(r, k), Finish(r, k)
    PROVE  StoreStep /\ Inv'
<1>1. Counted' /\ UNCHANGED config /\ step[r] = "held"
  BY NotCounted DEF Finish
<1>2. StoreStep /\ Spares(r)
  BY <1>1, ReportSteps DEF Finish
<1> QED BY <1>1, <1>2, Answered DEF Finish, Works!Statuses

LEMMA FaultStep ==
    ASSUME ProductionConstants, Inv, NEW r \in Runs, NEW k, At(r, k), NEW again \in BOOLEAN,
           Fault(r, k, again)
    PROVE  StoreStep /\ Inv'
<1>1. Counted' /\ UNCHANGED config /\ step[r] = "held"
  BY DEF Fault, Inv, Counted, ProductionConstants
<1>2. StoreStep /\ Spares(r)
  BY <1>1, ReportSteps DEF Fault
<1>3. rows'[target[r]].status \in Works!Statuses
  BY <1>1, <1>2, InCall
<1> QED BY <1>1, <1>2, <1>3, Answered DEF Fault

LEMMA GiveBackStep ==
    ASSUME ProductionConstants, Inv, NEW r \in Runs, GiveBack(r)
    PROVE  StoreStep /\ Inv'
<1>1. StoreStep /\ Spares(r)
  BY ReportSteps DEF GiveBack
<1> QED BY <1>1, Restarted DEF GiveBack

LEMMA LostStep ==
    ASSUME ProductionConstants, Inv, NEW r \in Runs, NEW k, At(r, k), NEW expected, Lost(r, expected)
    PROVE  StoreStep /\ Inv'
<1>1. /\ Counted' /\ UNCHANGED config /\ step[r] = "held"
      /\ UNCHANGED <<rows, attempts, attached, invalidations>>
      /\ held' = [held EXCEPT ![r] = @ \ {Lease(r)}]
  BY NotCounted DEF Lost
<1>2. Works!LoseLease(r)
  BY <1>1, LeaseIs DEF Lost, Owns, Works!LoseLease
<1>3. held \in [Runs -> SUBSET Works!Leases]
  BY TablesAre DEF Inv
<1>4. StoreStep /\ Spares(r)
  BY <1>1, <1>2, <1>3 DEF StoreStep, Works!Next, Spares
<1>5. CASE Raise(r)
  BY <1>1, <1>4, <1>5, Raised
<1>6. CASE Proceed(r, "reread", target[r])
  BY <1>1, <1>4, <1>6, AtKind, InCall, Proceeded DEF Steps
<1> QED BY <1>4, <1>5, <1>6 DEF Lost

\* What is invalidated is a record.
LEMMA InvalidatedStep ==
    ASSUME ProductionConstants, Inv, NEW r \in Runs, NEW root \in attached[r],
           Works!Invalidated({root}), UNCHANGED held
    PROVE  StoreStep /\ Spares(r)
<1>1. root \in Works!Ids
  BY TablesAre DEF Inv
<1>2. Works!Invalidate
  BY <1>1 DEF Works!Invalidate
<1>3. UNCHANGED attached
  BY DEF Works!Invalidated
<1> QED BY <1>2, <1>3 DEF StoreStep, Works!Next, Spares

LEMMA ChangedStep ==
    ASSUME ProductionConstants, Inv, NEW r \in Runs, NEW k, At(r, k), NEW root \in attached[r],
           Changed(r, k, root)
    PROVE  StoreStep /\ Inv'
<1>1. Counted' /\ UNCHANGED config /\ step[r] = "held"
  BY NotCounted DEF Changed
<1>2. StoreStep /\ Spares(r)
  BY InvalidatedStep DEF Changed
<1>3. rows'[target[r]].status \in Works!Statuses
  BY <1>1, <1>2, InCall
<1> QED BY <1>1, <1>2, <1>3, Answered DEF Changed

LEMMA BackendGoneStep ==
    ASSUME ProductionConstants, Inv, NEW r \in Runs, BackendGone(r)
    PROVE  StoreStep /\ Inv'
<1>1. target[r] \in attached[r]
  BY DEF BackendGone, Inv, PassSound, Sound
<1>2. StoreStep /\ Spares(r)
  BY <1>1, InvalidatedStep DEF BackendGone
<1> QED BY <1>2, Restarted DEF BackendGone

\* What is voided on the way out is a record of the Run.
LEMMA VoidedStep ==
    ASSUME ProductionConstants, Inv, NEW r \in Runs, Voided(r)
    PROVE  StoreStep /\ Spares(r)
<1>1. target[r] \in attached[r]
  BY DEF Voided, Inv, PassSound, Sound
<1> QED BY <1>1, InvalidatedStep DEF Voided

LEMMA LostSensitivityStep ==
    ASSUME ProductionConstants, Inv, NEW r \in Runs, At(r, "sensitivity"), LostSensitivity(r)
    PROVE  StoreStep /\ Inv'
<1>1. CASE Lost(r, TRUE)
  BY <1>1, LostStep
<1>2. CASE Voided(r) /\ Raise(r) /\ UNCHANGED <<config, counts>>
  <2>1. StoreStep /\ Spares(r)
    BY <1>2, VoidedStep
  <2>2. Counted'
    BY <1>2, NotCounted
  <2> QED BY <1>2, <2>1, <2>2, Raised
<1> QED BY <1>1, <1>2 DEF LostSensitivity

\* The lease of a pass that dies is held no longer.
LEMMA CrashStep ==
    ASSUME ProductionConstants, Inv, NEW r \in Runs,
           IF held[r] = {} THEN UNCHANGED store ELSE Works!Crash(r)
    PROVE  StoreStep /\ Spares(r)
<1>1. ASSUME UNCHANGED store PROVE StoreStep /\ Spares(r)
  BY <1>1 DEF StoreStep, Works!vars, store, Spares
<1>2. ASSUME Works!Crash(r) PROVE StoreStep /\ Spares(r)
  <2>1. held \in [Runs -> SUBSET Works!Leases]
    BY TablesAre DEF Inv
  <2>2. UNCHANGED attached /\ \A s \in Runs \ {r} : held'[s] = held[s]
    BY <1>2, <2>1 DEF Works!Crash
  <2> QED BY <1>2, <2>2 DEF StoreStep, Works!Next, Spares
<1> QED BY <1>1, <1>2

\* A producer that breaks leaves its record in a way the Work store knows.
LEMMA BreaksStep ==
    ASSUME ProductionConstants, Inv, NEW r \in Runs, Breaks(r)
    PROVE  StoreStep /\ Inv'
<1>1. Counted' /\ UNCHANGED config /\ Ends(r, "broken")
  BY DEF Breaks, Inv, Counted, ProductionConstants
<1>2. CASE IF held[r] = {} THEN UNCHANGED store ELSE Works!Crash(r)
  BY <1>2, CrashStep, <1>1, EndedStep DEF Verdicts
<1>3. ASSUME step[r] = "held", NEW again \in BOOLEAN, Works!Failed(r, Lease(r), again, FALSE)
      PROVE  StoreStep /\ Spares(r)
  BY <1>3, ReportSteps
<1>4. StoreStep /\ Spares(r)
  BY <1>2, <1>3, CrashStep, VoidedStep DEF Breaks, LeftBehind
<1> QED BY <1>1, <1>4, EndedStep DEF Verdicts

LEMMA CallStep ==
    ASSUME ProductionConstants, Inv, NEW r \in Runs, NEW k, At(r, k), NEW expected,
           Call(r, k, expected)
    PROVE  StoreStep /\ Inv'
BY ClaimStep, RereadStep, FinishStep, LostStep, FaultStep DEF Call

-----------------------------------------------------------------------------
(* The other steps of a pass *)

LEMMA PassOverStep ==
    ASSUME ProductionConstants, Inv, NEW r \in Runs, NEW k, PassOver(r, k)
    PROVE  StoreStep /\ Inv'
<1>1. Counted' /\ UNCHANGED config /\ UNCHANGED store
  BY NotCounted DEF PassOver
<1>2. StoreStep /\ Spares(r)
  BY <1>1 DEF StoreStep, Works!vars, store, Spares
<1>3. /\ stage \in [Runs -> Places] /\ step \in [Runs -> Steps] /\ target \in [Runs -> Targets]
      /\ taken \in [Runs -> Takings] /\ verdict \in [Runs -> Verdicts] /\ step[r] = "demand"
  BY DEF Inv, PassTypes, PassOver
<1>4. After(r, stage[r]) \in Places
  BY <1>3, AfterIsPlace DEF Places, Order
<1>5. /\ stage' = [stage EXCEPT ![r] = After(r, stage[r])]
      /\ step' = [step EXCEPT ![r] = "demand"]
      /\ target' = [target EXCEPT ![r] = target[r]]
      /\ taken' = [taken EXCEPT ![r] = taken[r]]
      /\ verdict' = [verdict EXCEPT ![r] = verdict[r]]
  BY <1>3 DEF PassOver
<1> QED BY <1>1, <1>2, <1>3, <1>4, <1>5, Left

LEMMA RefuseStep ==
    ASSUME ProductionConstants, Inv, NEW r \in Runs, Refuse(r)
    PROVE  StoreStep /\ Inv'
<1>1. Counted' /\ UNCHANGED config /\ UNCHANGED store
  BY NotCounted DEF Refuse
<1>2. StoreStep /\ Spares(r)
  BY <1>1 DEF StoreStep, Works!vars, store, Spares
<1> QED BY <1>1, <1>2, Raised DEF Refuse

\* The pass is sealed only between two calls.
LEMMA SealStep ==
    ASSUME ProductionConstants, Inv, NEW r \in Runs, Seal(r)
    PROVE  StoreStep /\ Inv'
<1>1. Counted' /\ UNCHANGED config /\ UNCHANGED store
  BY NotCounted DEF Seal
<1>2. StoreStep /\ Spares(r)
  BY <1>1 DEF StoreStep, Works!vars, store, Spares
<1>3. /\ stage \in [Runs -> Places] /\ step \in [Runs -> Steps] /\ target \in [Runs -> Targets]
      /\ taken \in [Runs -> Takings]
  BY DEF Inv, PassTypes
<1>4. step[r] = "demand"
  BY <1>3 DEF Inv, PassSound, Sound, Seal, Produced, Order
<1> DEFINE vd == IF Supported(r) THEN "sealed" ELSE "failed"
<1>5. vd \in Verdicts
  BY DEF Verdicts
<1>6. verdict' = [verdict EXCEPT ![r] = vd]
  BY DEF Seal
<1> HIDE DEF vd
<1>7. /\ stage' = [stage EXCEPT ![r] = stage[r]]
      /\ step' = [step EXCEPT ![r] = "demand"]
      /\ target' = [target EXCEPT ![r] = target[r]]
      /\ taken' = [taken EXCEPT ![r] = taken[r]]
  BY <1>3, <1>4 DEF Seal
<1> QED BY <1>1, <1>2, <1>3, <1>5, <1>6, <1>7, Left

LEMMA StopStep ==
    ASSUME ProductionConstants, Inv, NEW r \in Runs, Stop(r)
    PROVE  StoreStep /\ Inv'
<1>1. StoreStep /\ Spares(r)
  BY CrashStep DEF Stop
<1> QED BY <1>1, Restarted DEF Stop

\* A lease expires whatever the passes do.
LEMMA LeaseExpiresStep ==
    ASSUME ProductionConstants, Inv, LeaseExpires
    PROVE  StoreStep /\ Inv'
<1>1. UNCHANGED <<attached, held, config, stage, step, target, taken, verdict>> /\ Works!LeaseExpires
  BY DEF LeaseExpires, Works!LeaseExpires, pass
<1>2. StoreStep
  BY <1>1 DEF StoreStep, Works!Next
<1>3. Tables' /\ \A id \in 1..Len(rows) : rows'[id].kind = rows[id].kind
  BY <1>2, StoreKept DEF Inv
<1>4. PassTypes' /\ Counted'
  BY <1>1 DEF Inv, PassTypes, Counted, LeaseExpires, ProductionConstants
<1>5. ASSUME NEW s \in Runs PROVE PassSound(s)'
  <2>1. Sound(rows, attached[s], held[s], stage[s], step[s], target[s], taken[s])
    BY DEF Inv, PassSound
  <2>2. \A id \in attached[s] : rows'[id].kind = rows[id].kind
    BY <1>3, TablesAre DEF Inv
  <2>3. Sound(rows', attached[s], held[s], stage[s], step[s], target[s], taken[s])
    BY <2>1, <2>2, SoundStays
  <2> QED BY <1>1, <2>3 DEF PassSound
<1> QED BY <1>2, <1>3, <1>4, <1>5 DEF Inv

-----------------------------------------------------------------------------
(* The producers *)

\* What has been taken can be built upon: requests of the Run, one of each kind.
LEMMA ChosenAre ==
    ASSUME Inv, NEW r \in Runs, NEW ks \in SUBSET WorkKinds
    PROVE  /\ Chosen(r, ks) \in SUBSET attached[r]
           /\ \A u, v \in Chosen(r, ks) : rows[u].kind = rows[v].kind => u = v
<1>1. \A k \in WorkKinds : Good(r, k) => taken[r][k].id \in attached[r] /\ rows[taken[r][k].id].kind = k
  BY DEF Inv, PassSound, Sound, Good
<1>2. \A u \in Chosen(r, ks) : \E k \in WorkKinds : Good(r, k) /\ u = taken[r][k].id
  BY DEF Chosen
<1> QED BY <1>1, <1>2

\* No two records of metadata stand at once.
LEMMA MetadataIsOne ==
    ASSUME ProductionConstants, Inv, NEW r \in Runs
    PROVE  /\ SucceededMetadata(r) \in SUBSET attached[r]
           /\ \A u, v \in SucceededMetadata(r) : u = v
<1>1. SucceededMetadata(r) \in SUBSET attached[r]
  BY DEF SucceededMetadata, MetadataOf
<1>2. /\ Works!Ids = 1..Len(rows) /\ attached[r] \in SUBSET (1..Len(rows))
      /\ \A d \in 1..Len(rows) : {rows[u].kind : u \in rows[d].up} \in WorkInputs[rows[d].kind]
  BY TablesAre DEF Inv
<1>3. WorkInputs["metadata"] = {{}}
  BY DEF WorkInputs, WorkKinds
<1>4. ASSUME NEW u \in SucceededMetadata(r)
      PROVE  u \in Works!Ids /\ Works!Current("metadata", {}) = {u}
  <2>1. u \in Works!Ids /\ rows[u].kind = "metadata" /\ rows[u].status # "invalidated"
    BY <1>1, <1>2 DEF SucceededMetadata, MetadataOf
  <2>2. {rows[d].kind : d \in rows[u].up} = {}
    BY <1>2, <1>3, <2>1
  <2>3. rows[u].up = {}
    BY <2>2
  <2>4. W!Current(rows[u].kind, rows[u].up) = {u}
    BY <2>1, SameStore DEF Inv, Tables, W!OneCurrent
  <2> QED BY <2>1, <2>3, <2>4, SameTables
<1>5. ASSUME NEW u \in SucceededMetadata(r), NEW v \in SucceededMetadata(r) PROVE u = v
  <2>1. {u} = {v}
    BY <1>4
  <2> QED BY <2>1
<1> QED BY <1>1, <1>5

LEMMA RequestStep ==
    ASSUME ProductionConstants, Inv, NEW r \in Runs, NEW k, At(r, k), NEW needs,
           NEW ups \in SUBSET WorkKinds, Request(r, k, needs, ups)
    PROVE  StoreStep /\ Inv'
BY ChosenAre, PassOverStep, DemandStep, RefuseStep DEF Request

LEMMA PlainDemandStep ==
    ASSUME ProductionConstants, Inv, NEW r \in Runs, NEW k, At(r, k), Demand(r, k, {})
    PROVE  StoreStep /\ Inv'
BY DemandStep

LEMMA MetadataDemandStep ==
    ASSUME ProductionConstants, Inv, NEW r \in Runs, NEW k, At(r, k), Demand(r, k, SucceededMetadata(r))
    PROVE  StoreStep /\ Inv'
BY DemandStep, MetadataIsOne

LEMMA TargetStep ==
    ASSUME ProductionConstants, Inv, NEW r \in Runs, NEW k, At(r, k), Changed(r, k, target[r])
    PROVE  StoreStep /\ Inv'
<1>1. target[r] \in attached[r]
  BY DEF Changed, Inv, PassSound, Sound
<1> QED BY <1>1, ChangedStep

LEMMA ProducerStep ==
    ASSUME ProductionConstants, Inv, NEW r \in Runs,
           \/ Metadata(r) \/ Bundle(r) \/ Rendition(r) \/ VideoProbe(r) \/ VideoFrames(r)
           \/ ContactSheet(r) \/ Gpx(r) \/ Embedding(r, "embedding")
           \/ Embedding(r, "frame_embedding") \/ KeyFrame(r) \/ Sensitivity(r)
           \/ Compression(r)
    PROVE  StoreStep /\ Inv'
<1>1. CASE Metadata(r)
  BY <1>1, PlainDemandStep, CallStep, TargetStep, GiveBackStep DEF Metadata, MetadataPhase
<1>2. CASE Bundle(r)
  BY <1>2, MetadataDemandStep, ClaimStep, RereadStep, FinishStep, LostStep DEF Bundle, BundlePhase
<1>3. CASE Rendition(r)
  BY <1>3, PlainDemandStep, CallStep, FaultStep, TargetStep DEF Rendition, RenditionPhase
<1>4. CASE VideoProbe(r)
  BY <1>4, PlainDemandStep, CallStep, TargetStep DEF VideoProbe, VideoPhase
<1>5. CASE VideoFrames(r)
  <2>1. {"probe"} \in SUBSET WorkKinds
    BY DEF WorkKinds
  <2>2. ASSUME VideoPhase(r, "frame") PROVE StoreStep /\ Inv'
    BY <1>5, <2>1, <2>2, RequestStep DEF VideoFrames, VideoPhase
  <2>3. ASSUME Good(r, "probe"), Changed(r, "frame", taken[r]["probe"].id) PROVE StoreStep /\ Inv'
    <3>1. taken[r]["probe"].id \in attached[r]
      BY <2>3 DEF Inv, PassSound, Sound, Good, WorkKinds
    <3> QED BY <1>5, <2>3, <3>1, ChangedStep DEF VideoFrames
  <2> QED BY <1>5, <2>2, <2>3, CallStep, GiveBackStep DEF VideoFrames
<1>6. CASE ContactSheet(r)
  <2>1. {"frame"} \in SUBSET WorkKinds
    BY DEF WorkKinds
  <2> QED BY <1>6, <2>1, RequestStep, CallStep DEF ContactSheet, VideoPhase
<1>7. CASE Gpx(r)
  <2>1. GpxPhase(r) => \/ Refuse(r) \/ PassOver(r, "gpx") \/ Demand(r, "gpx", SucceededMetadata(r))
    BY DEF GpxPhase
  <2> QED
    BY <1>7, <2>1, RefuseStep, PassOverStep, MetadataDemandStep, CallStep, TargetStep DEF Gpx
<1>8. ASSUME NEW k \in {"embedding", "frame_embedding"}, Embedding(r, k) PROVE StoreStep /\ Inv'
  <2>1. {"rendition"} \in SUBSET WorkKinds /\ {"frame"} \in SUBSET WorkKinds
    BY DEF WorkKinds
  <2>2. ASSUME EmbeddingPhase(r, k) PROVE StoreStep /\ Inv'
    BY <1>8, <2>1, <2>2, RequestStep DEF Embedding, EmbeddingPhase
  <2> QED BY <1>8, <2>2, CallStep, GiveBackStep DEF Embedding
<1>9. CASE KeyFrame(r)
  <2>1. {"frame", "frame_embedding"} \in SUBSET WorkKinds
    BY DEF WorkKinds
  <2>2. ASSUME EmbeddingPhase(r, "keyframe") PROVE StoreStep /\ Inv'
    BY <1>9, <2>1, <2>2, RequestStep DEF KeyFrame, EmbeddingPhase
  <2> QED BY <1>9, <2>2, ClaimStep, RereadStep, FinishStep, LostStep DEF KeyFrame
<1>10. CASE Sensitivity(r)
  <2>1. {"rendition"} \in SUBSET WorkKinds
    BY DEF WorkKinds
  <2> QED
    BY <1>10, <2>1, RequestStep, ClaimStep, RereadStep, FinishStep, FaultStep,
       LostSensitivityStep, BackendGoneStep
    DEF Sensitivity, SensitivityPhase
<1>11. CASE Compression(r)
  <2>1. CompressionInput(r) \in SUBSET WorkKinds
    BY DEF CompressionInput, WorkKinds
  <2> QED
    BY <1>11, <2>1, RequestStep, ClaimStep, RereadStep, FinishStep, LostStep
    DEF Compression, CompressionPhase
<1> QED BY <1>1, <1>2, <1>3, <1>4, <1>5, <1>6, <1>7, <1>8, <1>9, <1>10, <1>11

\* Every step is a step of the Work store, or none of its business.
LEMMA ProductionStep ==
    ASSUME ProductionConstants, Inv, [Next]_vars
    PROVE  StoreStep /\ Inv'
<1>1. CASE Next
  BY <1>1, ProducerStep, BreaksStep, SealStep, StopStep, LeaseExpiresStep DEF Next
<1>2. CASE UNCHANGED vars
  <2>1. StoreStep /\ UNCHANGED <<rows, attached, held, pass, config, counts>>
    BY <1>2 DEF vars, store, StoreStep, Works!vars
  <2>2. Tables'
    BY <2>1, StoreKept DEF Inv
  <2> QED BY <2>1, <2>2 DEF Inv, PassTypes, Counted, PassSound, pass, counts
<1> QED BY <1>1, <1>2

-----------------------------------------------------------------------------
(* The theorems *)

LEMMA InitSound ==
    ASSUME ProductionConstants, Init
    PROVE  Inv
<1>1. Tables
  <2>1. W!Inv
    BY WorkConstants, SameStore, W!InitInv DEF Init
  <2>2. W!OneCurrent
    BY DEF Init, Works!Init, W!OneCurrent, W!Ids
  <2> QED BY <2>1, <2>2 DEF Tables
<1>2. PassTypes
  <2>1. \A r \in Runs : After(r, 0) \in Places
    BY AfterIsPlace
  <2> QED BY <2>1 DEF Init, PassTypes, Steps, Targets, Takings, Nothing, Verdicts
<1>3. Counted
  BY DEF Init, Counted, ProductionConstants
<1>4. \A r \in Runs : PassSound(r)
  BY DEF Init, PassSound, Sound, Nothing
<1> QED BY <1>1, <1>2, <1>3, <1>4 DEF Inv

LEMMA AlwaysSound ==
    ASSUME ProductionConstants
    PROVE  Spec => []Inv
<1>1. Init => Inv
  BY InitSound
<1>2. Inv /\ [Next]_vars => Inv'
  BY ProductionStep
<1> QED BY <1>1, <1>2, PTL DEF Spec

\* The variables have their types, for any number of Runs: what a pass has
\* taken, and the record it is in a call about, is always one of the records.
THEOREM TypeCorrect ==
    ProductionConstants => (Spec => []TypeOK)
<1> SUFFICES ASSUME ProductionConstants PROVE Spec => []TypeOK
  OBVIOUS
<1>1. Inv => TypeOK
  <2>1. Inv => Works!TypeOK
    BY TablesAre DEF Inv
  <2> QED BY <2>1 DEF Inv, PassTypes, Counted, TypeOK, Places, Targets, Takings
<1> QED BY <1>1, AlwaysSound, PTL

\* The passes are an implementation of the Work store: they demand, claim,
\* renew, report and invalidate only as it allows, with leases they have been
\* given (_orchestrator.py:141-420 over _work_sqlite.py).
THEOREM ImplementsWorks ==
    ProductionConstants => (Spec => Works!Spec)
<1> SUFFICES ASSUME ProductionConstants PROVE Spec => Works!Spec
  OBVIOUS
<1>1. Init => Works!Init
  BY DEF Init
<1>2. Inv /\ [Next]_vars => [Works!Next]_(Works!vars)
  BY ProductionStep DEF StoreStep
<1> QED BY <1>1, <1>2, AlwaysSound, PTL DEF Spec, Works!Spec

THEOREM WorkProtocolKept ==
    ProductionConstants => (Spec => KeepsWorkProtocol)
<1> SUFFICES ASSUME ProductionConstants PROVE Spec => KeepsWorkProtocol
  OBVIOUS
<1>1. Inv /\ [Next]_vars => [Works!Next]_(Works!vars)
  BY ProductionStep DEF StoreStep
<1> QED BY <1>1, AlwaysSound, PTL DEF Spec, KeepsWorkProtocol

-----------------------------------------------------------------------------
(* What is sealed *)

\* What fails a Run, and what leaves its verdict as it was.
Unsealed ==
    \/ UNCHANGED verdict
    \/ \E r \in Runs, how \in {"failed", "broken"} : verdict' = [verdict EXCEPT ![r] = how]

\* No step of a producer's call seals a Result.
LEMMA CallsSealNothing ==
    ASSUME NEW r \in Runs, NEW k
    PROVE  /\ \A up : Demand(r, k, up) => Unsealed
           /\ \A expected : Call(r, k, expected) => Unsealed
           /\ \A again : Fault(r, k, again) => Unsealed
           /\ \A root : Changed(r, k, root) => Unsealed
           /\ Claim(r) \/ Reread(r, k) \/ Finish(r, k) => Unsealed
           /\ \A expected : Lost(r, expected) => Unsealed
           /\ PassOver(r, k) \/ Refuse(r) \/ GiveBack(r) \/ BackendGone(r) \/ Stop(r) => Unsealed
           /\ LostSensitivity(r) \/ Breaks(r) => Unsealed
<1>1. /\ \A id, status : Collect(r, k, id, status) => Unsealed
      /\ \A to, id : Proceed(r, to, id) => Unsealed
      /\ \A how \in {"failed", "broken"} : Ends(r, how) => Unsealed
      /\ Raise(r) => Unsealed
      /\ Restart(r) => Unsealed
  BY DEF Collect, Proceed, Ends, Raise, Restart, Unsealed
<1>2. \A up : Demand(r, k, up) => Unsealed
  BY <1>1 DEF Demand
<1>3. Claim(r) => Unsealed
  BY <1>1 DEF Claim
<1>4. Reread(r, k) => Unsealed
  BY <1>1 DEF Reread
<1>5. Finish(r, k) => Unsealed
  BY <1>1 DEF Finish
<1>6. \A expected : Lost(r, expected) => Unsealed
  BY <1>1 DEF Lost
<1>7. \A again : Fault(r, k, again) => Unsealed
  BY <1>1 DEF Fault
<1>8. \A root : Changed(r, k, root) => Unsealed
  BY <1>1 DEF Changed
<1>9. PassOver(r, k) \/ Refuse(r) => Unsealed
  BY <1>1 DEF PassOver, Refuse, Unsealed
<1>10. GiveBack(r) \/ BackendGone(r) \/ Stop(r) => Unsealed
  BY <1>1 DEF GiveBack, BackendGone, Stop
<1>11. \A expected : Call(r, k, expected) => Unsealed
  BY <1>3, <1>4, <1>5, <1>6, <1>7 DEF Call
<1>12. LostSensitivity(r) => Unsealed
  BY <1>1, <1>6 DEF LostSensitivity
<1>13. Breaks(r) => Unsealed
  BY <1>1 DEF Breaks
<1> QED
  BY <1>2, <1>3, <1>4, <1>5, <1>6, <1>7, <1>8, <1>9, <1>10, <1>11, <1>12, <1>13

\* What the steps of the producers come to
PartOfAPass(r) ==
    \E k : \/ (\E up : Demand(r, k, up)) \/ PassOver(r, k) \/ Refuse(r)
           \/ Claim(r) \/ Reread(r, k) \/ Finish(r, k) \/ GiveBack(r) \/ BackendGone(r)
           \/ (\E expected : Lost(r, expected)) \/ (\E again : Fault(r, k, again))
           \/ (\E root : Changed(r, k, root)) \/ LostSensitivity(r)

LEMMA ProducersTakeParts ==
    ASSUME NEW r \in Runs,
           \/ Metadata(r) \/ Bundle(r) \/ Rendition(r) \/ VideoProbe(r) \/ VideoFrames(r)
           \/ ContactSheet(r) \/ Gpx(r) \/ Embedding(r, "embedding")
           \/ Embedding(r, "frame_embedding") \/ KeyFrame(r) \/ Sensitivity(r)
           \/ Compression(r)
    PROVE  PartOfAPass(r)
<1>1. /\ \A k, up : Demand(r, k, up) => PartOfAPass(r)
      /\ \A k, root : Changed(r, k, root) => PartOfAPass(r)
      /\ \A k : Claim(r) \/ Reread(r, k) \/ Finish(r, k) \/ PassOver(r, k) => PartOfAPass(r)
      /\ \A expected : Lost(r, expected) => PartOfAPass(r)
      /\ \A k, again : Fault(r, k, again) => PartOfAPass(r)
      /\ Refuse(r) \/ GiveBack(r) \/ BackendGone(r) \/ LostSensitivity(r) => PartOfAPass(r)
  BY DEF PartOfAPass
<1>2. \A k, expected : Call(r, k, expected) => PartOfAPass(r)
  BY <1>1 DEF Call
<1>3. \A k, needs, ups : Request(r, k, needs, ups) => PartOfAPass(r)
  BY <1>1 DEF Request
<1>4. GpxPhase(r) => PartOfAPass(r)
  BY <1>1 DEF GpxPhase
<1>5. \A k : VideoPhase(r, k) \/ EmbeddingPhase(r, k) => PartOfAPass(r)
  BY <1>1, <1>3 DEF VideoPhase, EmbeddingPhase
<1>6. Metadata(r) \/ Bundle(r) \/ Rendition(r) \/ VideoProbe(r) => PartOfAPass(r)
  BY <1>1, <1>2, <1>5
  DEF Metadata, Bundle, Rendition, VideoProbe, MetadataPhase, BundlePhase, RenditionPhase
<1>7. VideoFrames(r) \/ ContactSheet(r) \/ Gpx(r) => PartOfAPass(r)
  BY <1>1, <1>2, <1>4, <1>5 DEF VideoFrames, ContactSheet, Gpx
<1>8. KeyFrame(r) \/ (\E k : Embedding(r, k)) => PartOfAPass(r)
  BY <1>1, <1>2, <1>5 DEF KeyFrame, Embedding
<1>9. Sensitivity(r) \/ Compression(r) => PartOfAPass(r)
  BY <1>1, <1>2, <1>3 DEF Sensitivity, Compression, SensitivityPhase, CompressionPhase
<1> QED BY <1>6, <1>7, <1>8, <1>9

LEMMA PassesSealNothing ==
    ASSUME NEW r \in Runs, PartOfAPass(r)
    PROVE  Unsealed
BY CallsSealNothing DEF PartOfAPass

\* A Run becomes sealed only by a seal, and only when its Work supports it.
LEMMA OnlySealSeals ==
    ASSUME Inv, Next, NEW r \in Runs, verdict'[r] = "sealed", verdict[r] # "sealed"
    PROVE  Supported(r)
<1>1. verdict \in [Runs -> Verdicts]
  BY DEF Inv, PassTypes
<1>2. ~Unsealed
  BY <1>1 DEF Unsealed
<1>3. ~LeaseExpires
  BY DEF LeaseExpires, pass
<1>4. PICK s \in Runs : Seal(s)
  BY <1>2, <1>3, ProducersTakeParts, PassesSealNothing, CallsSealNothing DEF Next
<1> QED BY <1>1, <1>4 DEF Seal

\* What supports a Result is among the Run's requests.
LEMMA SupportingAre ==
    ASSUME Inv, NEW r \in Runs
    PROVE  Supporting(r) \subseteq attached[r]
<1>1. \A k \in WorkKinds : taken[r][k] # None => taken[r][k].id \in attached[r]
  BY DEF Inv, PassSound, Sound
<1> QED BY <1>1 DEF Supporting, Chosen, Good, MetadataOf, WorkKinds

\* What a new Result stands on has ended for good and was made from what is
\* still valid, whatever other Runs have invalidated since the pass collected
\* it (_validate_supporting_work and the seal, _result_sqlite.py:281,488).
THEOREM SealedIsConsistent ==
    ProductionConstants => (Spec => SealedConsistent)
<1> SUFFICES ASSUME ProductionConstants PROVE Spec => SealedConsistent
  OBVIOUS
<1>1. Inv /\ [Next]_vars => [SealedConsistentStep]_vars
  <2> SUFFICES ASSUME Inv, Next, NEW r \in Runs, verdict'[r] = "sealed", verdict[r] # "sealed",
                      NEW id \in Supporting(r)
               PROVE  /\ rows[id].status \in {"succeeded", "terminal"}
                      /\ \A u \in rows[id].up : rows[u].status = "succeeded"
    BY DEF SealedConsistentStep
  <2>1. rows[id].status \in {"succeeded", "terminal"}
    BY OnlySealSeals DEF Supported
  <2>2. id \in Works!Ids /\ Works!InputsHold
    BY TablesAre, SupportingAre DEF Inv
  <2> QED BY <2>1, <2>2 DEF Works!InputsHold
<1> QED BY <1>1, AlwaysSound, PTL DEF Spec, SealedConsistent

-----------------------------------------------------------------------------
(* What fails a Run *)

Ended == {"succeeded", "terminal", "retryable"}

Apart(r) == verdict[r] # "broken" /\ \A s \in Runs \ {r} : config[s] \cap config[r] = {}

\* So far no pass was cut off, no lease ran out and no source changed.
Quiet == stops = 0 /\ lapses = 0 /\ invalidations = 0

\* What there is of the kinds a Run prepares is what it has taken, and what it
\* is in a call about; it takes them as they ended, and takes none twice; while
\* it computes a record it has the lease of it; and it fails over a failure.
AllTaken(r) ==
    \A d \in 1..Len(rows) : rows[d].kind \in config[r] =>
        \/ \E k \in WorkKinds : taken[r][k] # None /\ taken[r][k].id = d
        \/ step[r] # "demand" /\ d = target[r]

AsEnded(r) ==
    \A k \in WorkKinds : taken[r][k] # None =>
        /\ taken[r][k].status \in Ended
        /\ rows[taken[r][k].id].status = taken[r][k].status

InHand(r) ==
    /\ step[r] \in {"demand", "claim", "held"}
    /\ step[r] = "claim" => rows[target[r]].status = "ready"
    /\ step[r] = "held" =>
         /\ rows[target[r]].status = "running" /\ rows[target[r]].lease = r
         /\ held[r] = {[id |-> target[r], attempt |-> Len(attempts[target[r]])]}
    /\ step[r] # "held" => held[r] = {}

NoneAhead(r) == \A i \in stage[r]..Len(Order) : taken[r][Order[i]] = None

FailsOverFailure(r) ==
    verdict[r] = "failed" => \E k \in WorkKinds : taken[r][k] # None /\ taken[r][k].status = "retryable"

Followed(r) == AllTaken(r) /\ AsEnded(r) /\ InHand(r) /\ NoneAhead(r) /\ FailsOverFailure(r)

\* Every Run keeps to the kinds it prepares, and no lease has run out.
OfItsKinds(r) ==
    /\ stage[r] \in 1..Len(Order) => Order[stage[r]] \in config[r]
    /\ \A d \in attached[r] : rows[d].kind \in config[r]

NoneExpired == \A d \in 1..Len(rows) : ~rows[d].expired

Calm ==
    /\ NoneExpired
    /\ \A r \in Runs : OfItsKinds(r) /\ (Apart(r) => Followed(r))

CalmInv == Quiet => Calm

\* A step of a pass on its own kinds: other Runs are where they were, and of
\* the records of other kinds only those that wait may change.
KeepsOff(r) ==
    \A s \in Runs \ {r} :
      /\ stage'[s] = stage[s] /\ step'[s] = step[s] /\ target'[s] = target[s]
      /\ taken'[s] = taken[s] /\ verdict'[s] = verdict[s]

OnItsOwn(r) ==
    /\ KeepsOff(r)
    /\ \A s \in Runs \ {r} : attached'[s] = attached[s] /\ held'[s] = held[s]
    /\ UNCHANGED <<config, stops, lapses, invalidations>>
    /\ NoneExpired' /\ OfItsKinds(r)'
    /\ \A d \in 1..Len(rows') : rows'[d].kind \notin config[r] =>
         /\ d \in 1..Len(rows)
         /\ rows[d].status \notin W!Resting => rows'[d] = rows[d] /\ attempts'[d] = attempts[d]

\* The Run itself is followed on, unless its producer breaks.
StaysFollowed(r) == verdict'[r] # "broken" /\ Apart(r) => Followed(r)'

\* Such a step keeps what is known of the other Runs.
LEMMA OthersFollowed ==
    ASSUME ProductionConstants, Inv, Calm, StoreStep, NEW r \in Runs, OnItsOwn(r),
           NEW s \in Runs \ {r}
    PROVE  OfItsKinds(s)' /\ (Apart(s)' => Followed(s)')
<1>1. /\ stage'[s] = stage[s] /\ step'[s] = step[s] /\ target'[s] = target[s]
      /\ taken'[s] = taken[s] /\ verdict'[s] = verdict[s]
      /\ attached'[s] = attached[s] /\ held'[s] = held[s] /\ config' = config
  BY DEF OnItsOwn, KeepsOff
<1>2. attached[s] \in SUBSET (1..Len(rows))
  BY TablesAre DEF Inv
<1>3. \A d \in 1..Len(rows) : d \in 1..Len(rows') /\ rows'[d].kind = rows[d].kind
  BY StoreKept DEF Inv
<1>4. \A d \in attached[s] : rows[d].kind \in config[s] /\ rows'[d].kind = rows[d].kind
  BY <1>2, <1>3 DEF Calm, OfItsKinds
<1>5. OfItsKinds(s)'
  <2>1. stage'[s] \in 1..Len(Order) => Order[stage'[s]] \in config'[s]
    BY <1>1 DEF Calm, OfItsKinds
  <2>2. \A d \in attached'[s] : rows'[d].kind \in config'[s]
    BY <1>1, <1>4
  <2> QED BY <2>1, <2>2 DEF OfItsKinds
<1>6. ASSUME Apart(s)' PROVE Followed(s)'
  <2>1. Apart(s) /\ Followed(s) /\ config[r] \cap config[s] = {}
    BY <1>1, <1>6 DEF Apart, Calm
  <2>2. \A d \in 1..Len(rows') : rows'[d].kind \in config[s] =>
          /\ d \in 1..Len(rows) /\ rows[d].kind \in config[s]
          /\ rows[d].status \notin W!Resting => rows'[d] = rows[d] /\ attempts'[d] = attempts[d]
    BY <1>3, <2>1 DEF OnItsOwn
  <2>3. \A d \in attached[s] : rows[d].status \notin W!Resting =>
          rows'[d] = rows[d] /\ attempts'[d] = attempts[d]
    BY <1>2, <1>3, <1>4, <2>2
  <2>4. /\ \A k \in WorkKinds : taken[s][k] # None => taken[s][k].id \in attached[s]
        /\ step[s] # "demand" => target[s] \in attached[s]
    BY DEF Inv, PassSound, Sound
  <2>5. AllTaken(s)'
    BY <1>1, <2>1, <2>2 DEF Followed, AllTaken
  <2>6. AsEnded(s)'
    BY <1>1, <2>1, <2>3, <2>4 DEF Followed, AsEnded, Ended, W!Resting
  <2>7. InHand(s)'
    BY <1>1, <2>1, <2>3, <2>4 DEF Followed, InHand, W!Resting
  <2>8. NoneAhead(s)' /\ FailsOverFailure(s)'
    BY <1>1, <2>1 DEF Followed, NoneAhead, FailsOverFailure
  <2> QED BY <2>5, <2>6, <2>7, <2>8 DEF Followed
<1> QED BY <1>5, <1>6

LEMMA OwnStepKeeps ==
    ASSUME ProductionConstants, Inv, CalmInv, StoreStep, NEW r \in Runs, OnItsOwn(r),
           verdict[r] = "working", StaysFollowed(r)
    PROVE  CalmInv'
<1> SUFFICES ASSUME Quiet' PROVE Calm'
  BY DEF CalmInv
<1>1. Calm
  BY DEF CalmInv, Quiet, OnItsOwn
<1>2. Apart(r)' => Apart(r) /\ Followed(r)'
  BY DEF Apart, OnItsOwn, StaysFollowed
<1>3. OfItsKinds(r)' /\ NoneExpired'
  BY DEF OnItsOwn
<1>4. ASSUME NEW s \in Runs PROVE OfItsKinds(s)' /\ (Apart(s)' => Followed(s)')
  BY <1>1, <1>2, <1>3, OthersFollowed
<1> QED BY <1>3, <1>4 DEF Calm

\* Where a pass goes next: to a later kind it prepares, or to its end.
LEMMA AfterIsNext ==
    ASSUME ProductionConstants, NEW r, NEW i \in 1..Len(Order)
    PROVE  /\ After(r, i) \in Places /\ After(r, i) > i
           /\ After(r, i) \in 1..Len(Order) => Order[After(r, i)] \in config[r]
<1> DEFINE T == {j \in (i + 1)..Len(Order) : Order[j] \in config[r]} \cup {Len(Order) + 1}
<1>1. T \in SUBSET Places /\ T # {} /\ Places \in SUBSET Nat
  BY DEF Order, Places
<1>2. \E m \in T : \A j \in T : m <= j
  BY <1>1, WorkConstants, W!LeastNumber
<1>3. Min(T) \in T
  <2> HIDE DEF T
  <2> QED BY <1>2 DEF Min
<1>4. After(r, i) \in T
  BY <1>3 DEF After
<1> QED BY <1>1, <1>4 DEF Order

LEMMA FirstIsPrepared ==
    ASSUME ProductionConstants, NEW r
    PROVE  After(r, 0) \in 1..Len(Order) => Order[After(r, 0)] \in config[r]
<1> DEFINE T == {j \in (0 + 1)..Len(Order) : Order[j] \in config[r]} \cup {Len(Order) + 1}
<1>1. T \in SUBSET Places /\ T # {} /\ Places \in SUBSET Nat
  BY DEF Order, Places
<1>2. \E m \in T : \A j \in T : m <= j
  BY <1>1, WorkConstants, W!LeastNumber
<1>3. Min(T) \in T
  <2> HIDE DEF T
  <2> QED BY <1>2 DEF Min
<1>4. After(r, 0) \in T
  BY <1>3 DEF After
<1> QED BY <1>4 DEF Order

LEMMA OrderedOnce ==
    \A i, j \in 1..Len(Order) : Order[i] = Order[j] => i = j
BY DEF Order

\* A pass moves alone.
LEMMA Moves ==
    ASSUME Inv, NEW r \in Runs
    PROVE  /\ \A k \in WorkKinds : \A id, status : Collect(r, k, id, status) =>
                /\ KeepsOff(r)
                /\ stage'[r] = After(r, stage[r]) /\ step'[r] = "demand" /\ verdict'[r] = verdict[r]
                /\ taken'[r][k] = [id |-> id, status |-> status]
                /\ \A j \in WorkKinds : j # k => taken'[r][j] = taken[r][j]
           /\ \A to, id : Proceed(r, to, id) =>
                /\ KeepsOff(r) /\ UNCHANGED <<stage, taken, verdict>>
                /\ step'[r] = to /\ target'[r] = id
           /\ \A how \in Verdicts : Ends(r, how) =>
                /\ KeepsOff(r) /\ UNCHANGED <<stage, taken>> /\ verdict'[r] = how
           /\ Raise(r) =>
                /\ KeepsOff(r) /\ UNCHANGED <<stage, taken>>
<1>1. /\ stage \in [Runs -> Places] /\ step \in [Runs -> Steps] /\ target \in [Runs -> Targets]
      /\ taken \in [Runs -> Takings] /\ verdict \in [Runs -> Verdicts]
  BY DEF Inv, PassTypes
<1>2. taken[r] \in [WorkKinds -> Sightings \cup {None}]
  BY <1>1 DEF Takings
<1>3. ASSUME NEW k \in WorkKinds, NEW id, NEW status, Collect(r, k, id, status)
      PROVE  /\ KeepsOff(r)
             /\ stage'[r] = After(r, stage[r]) /\ step'[r] = "demand" /\ verdict'[r] = verdict[r]
             /\ taken'[r][k] = [id |-> id, status |-> status]
             /\ \A j \in WorkKinds : j # k => taken'[r][j] = taken[r][j]
  <2>1. KeepsOff(r)
    BY <1>1, <1>3 DEF Collect, KeepsOff
  <2>2. stage'[r] = After(r, stage[r]) /\ step'[r] = "demand" /\ verdict'[r] = verdict[r]
    BY <1>1, <1>3 DEF Collect
  <2>3. taken'[r] = [taken[r] EXCEPT ![k] = [id |-> id, status |-> status]]
    BY <1>1, <1>3 DEF Collect
  <2> QED BY <1>2, <2>1, <2>2, <2>3
<1>4. ASSUME NEW to, NEW id, Proceed(r, to, id)
      PROVE  /\ KeepsOff(r) /\ UNCHANGED <<stage, taken, verdict>>
             /\ step'[r] = to /\ target'[r] = id
  BY <1>1, <1>4 DEF Proceed, KeepsOff
<1>5. ASSUME NEW how \in Verdicts, Ends(r, how)
      PROVE  KeepsOff(r) /\ UNCHANGED <<stage, taken>> /\ verdict'[r] = how
  BY <1>1, <1>5 DEF Ends, KeepsOff
<1>6. Raise(r) => KeepsOff(r) /\ UNCHANGED <<stage, taken>>
  BY <1>5 DEF Raise, Verdicts
<1> QED BY <1>3, <1>4, <1>5, <1>6

\* Where no lease has expired a transaction starts from the tables as they are.
LEMMA NothingToRecover ==
    ASSUME ProductionConstants, Inv, NoneExpired
    PROVE  /\ Works!Recovered(Works!Store) = Works!Store /\ W!Recovered(W!Store) = W!Store
           /\ Works!PromoteReady(rows) = rows
<1>1. \A d \in W!Ids : ~rows[d].expired
  BY TablesAre, SameStore DEF NoneExpired, Inv
<1>2. W!Recovered(W!Store) = W!Store
  BY <1>1, WorkConstants, W!NothingExpired DEF Inv, Tables
<1>3. W!Store.rows = rows
  BY DEF W!Store
<1>4. W!PromoteReady(rows) = rows
  BY <1>2, <1>3, WorkConstants, W!NothingToPromote DEF Inv, Tables
<1> QED BY <1>2, <1>4, SameTables

\* A step that leaves the records as they are.
LEMMA StillOnItsOwn ==
    ASSUME ProductionConstants, Inv, Calm, NEW r \in Runs, KeepsOff(r),
           UNCHANGED <<rows, attempts, attached, invalidations, config, stops, lapses>>,
           \A s \in Runs \ {r} : held'[s] = held[s],
           stage'[r] = stage[r] \/ (stage[r] \in 1..Len(Order) /\ stage'[r] = After(r, stage[r]))
    PROVE  OnItsOwn(r)
<1>1. OfItsKinds(r) /\ NoneExpired
  BY DEF Calm
<1>2. NoneExpired'
  BY <1>1 DEF NoneExpired
<1>3. OfItsKinds(r)'
  <2>1. stage'[r] \in 1..Len(Order) => Order[stage'[r]] \in config[r]
    BY <1>1, AfterIsNext DEF OfItsKinds
  <2> QED BY <1>1, <2>1 DEF OfItsKinds
<1> QED BY <1>2, <1>3 DEF OnItsOwn

\* A step that has to do with one record of the Run.
LEMMA TouchOnItsOwn ==
    ASSUME ProductionConstants, Inv, Calm, NEW r \in Runs, KeepsOff(r), StoreStep,
           UNCHANGED <<attached, invalidations, config, stops, lapses>>,
           \A s \in Runs \ {r} : held'[s] = held[s],
           stage'[r] = stage[r] \/ (stage[r] \in 1..Len(Order) /\ stage'[r] = After(r, stage[r])),
           NEW id \in attached[r], W!OnlyTouches(id), ~rows'[id].expired
    PROVE  OnItsOwn(r)
<1>1. OfItsKinds(r) /\ NoneExpired
  BY DEF Calm
<1>2. /\ W!Ids = 1..Len(rows) /\ W!Ids' = 1..Len(rows') /\ attached[r] \in SUBSET (1..Len(rows))
      /\ \A d \in 1..Len(rows) : rows'[d].kind = rows[d].kind
  <2>1. W!Inv'
    BY StoreKept DEF Inv, Tables
  <2>2. W!Ids' = 1..Len(rows')
    BY <2>1 DEF W!Inv, W!Good, W!Ids
  <2> QED BY <2>2, TablesAre, SameStore, StoreKept DEF Inv
<1>3. NoneExpired'
  BY <1>1, <1>2 DEF NoneExpired, W!OnlyTouches
<1>4. OfItsKinds(r)'
  <2>1. stage'[r] \in 1..Len(Order) => Order[stage'[r]] \in config[r]
    BY <1>1, AfterIsNext DEF OfItsKinds
  <2>2. \A d \in attached[r] : rows'[d].kind \in config[r]
    BY <1>1, <1>2 DEF OfItsKinds
  <2> QED BY <2>1, <2>2 DEF OfItsKinds
<1>5. rows'[id].kind \in config[r]
  BY <1>4 DEF OfItsKinds
<1>6. \A d \in 1..Len(rows') : rows'[d].kind \notin config[r] =>
         /\ d \in 1..Len(rows)
         /\ rows[d].status \notin W!Resting => rows'[d] = rows[d] /\ attempts'[d] = attempts[d]
  BY <1>2, <1>5 DEF W!OnlyTouches
<1> QED BY <1>3, <1>4, <1>6 DEF OnItsOwn

\* What a step of a pass keeps of its own Run.
StaysCalm(r) == OnItsOwn(r) /\ StaysFollowed(r)

\* A Run that is followed knows each record of its kinds by one of its own.
LEMMA FollowedTakes ==
    ASSUME ProductionConstants, Inv, Calm, NEW r \in Runs, Apart(r)
    PROVE  /\ Followed(r)
           /\ step[r] = "demand" => \A d \in 1..Len(rows) : rows[d].kind \in config[r] =>
                taken[r][rows[d].kind] # None /\ taken[r][rows[d].kind].id = d
           /\ step[r] = "demand" => \A d \in attached[r] :
                taken[r][rows[d].kind] # None /\ taken[r][rows[d].kind].id = d
           /\ \A k \in WorkKinds : taken[r][k] # None =>
                /\ taken[r][k].id \in attached[r] /\ taken[r][k].id \in 1..Len(rows)
                /\ rows[taken[r][k].id].kind = k /\ rows[taken[r][k].id].status = taken[r][k].status
                /\ taken[r][k].status \in Ended
<1>1. Followed(r) /\ OfItsKinds(r)
  BY DEF Calm
<1>2. attached[r] \in SUBSET (1..Len(rows))
  BY TablesAre DEF Inv
<1>3. \A k \in WorkKinds : taken[r][k] # None =>
        taken[r][k].id \in attached[r] /\ rows[taken[r][k].id].kind = k
  BY DEF Inv, PassSound, Sound
<1>4. step[r] = "demand" => \A d \in 1..Len(rows) : rows[d].kind \in config[r] =>
        taken[r][rows[d].kind] # None /\ taken[r][rows[d].kind].id = d
  BY <1>1, <1>3 DEF Followed, AllTaken
<1>5. \A d \in attached[r] : d \in 1..Len(rows) /\ rows[d].kind \in config[r]
  BY <1>1, <1>2 DEF OfItsKinds
<1> QED BY <1>1, <1>2, <1>3, <1>4, <1>5 DEF Followed, AsEnded

\* What is demanded of a Run that is followed is new, and has its inputs.
LEMMA DemandCalm ==
    ASSUME ProductionConstants, Inv, Calm, StoreStep, NEW r \in Runs, NEW k, At(r, k), NEW up,
           Demand(r, k, up),
           Apart(r) => \A u \in up : rows[u].status = "succeeded"
    PROVE  StaysCalm(r)
<1>1. PICK id \in 1..MaxWork :
         /\ Works!Ensured(r, k, up, id)
         /\ IF rows'[id].status \in {"ready", "retryable"}
            THEN Proceed(r, "claim", id)
            ELSE Collect(r, k, id, rows'[id].status)
  BY DEF Demand
<1>2. k \in WorkKinds /\ stage[r] \in 1..Len(Order) /\ Order[stage[r]] = k
  BY AtKind
<1>3. /\ Len(rows) \in Nat /\ Works!Ids = 1..Len(rows) /\ attached \in [Runs -> SUBSET (1..Len(rows))]
      /\ rows \in Seq(Works!Records) /\ attempts \in Seq(Seq(Works!Outcomes))
      /\ Len(attempts) = Len(rows)
  BY TablesAre DEF Inv, Works!TypeOK
<1>4. /\ attached' = [attached EXCEPT ![r] = @ \cup {id}] /\ UNCHANGED <<held, invalidations>>
      /\ UNCHANGED <<config, stops, lapses>> /\ step[r] = "demand"
  BY <1>1 DEF Works!Ensured, Demand, counts
<1> DEFINE row == [kind |-> k, up |-> up, status |-> Works!InitialStatus(up),
                   lease |-> None, expired |-> FALSE, delayed |-> FALSE]
           Reused == id \in Works!Current(k, up) /\ UNCHANGED <<rows, attempts>>
           Made == id = Len(rows) + 1 /\ rows' = Append(rows, row) /\ attempts' = Append(attempts, <<>>)
<1>5. Reused \/ Made
  BY <1>1 DEF Works!Ensured
<1>6. /\ KeepsOff(r)
      /\ stage'[r] = stage[r] \/ stage'[r] = After(r, stage[r])
  BY <1>1, <1>2, Moves
<1>7. /\ \A d \in 1..Len(rows) : d \in 1..Len(rows') /\ rows'[d] = rows[d] /\ attempts'[d] = attempts[d]
      /\ \A d \in 1..Len(rows') : d \in 1..Len(rows) \/ (d = id /\ Made)
      /\ rows'[id].kind = k
      /\ Made => ~rows'[id].expired /\ rows'[id].status = Works!InitialStatus(up)
  <2>1. CASE Reused
    BY <1>3, <2>1 DEF Works!Current
  <2>2. CASE Made
    <3>1. Len(rows') = Len(rows) + 1 /\ rows'[id] = row
      BY <1>3, <2>2
    <3>2. \A d \in 1..Len(rows) : rows'[d] = rows[d] /\ attempts'[d] = attempts[d]
      BY <1>3, <2>2
    <3> QED BY <1>3, <2>2, <3>1, <3>2
  <2> QED BY <1>5, <2>1, <2>2
<1>8. OnItsOwn(r)
  <2>1. NoneExpired'
    BY <1>7 DEF Calm, NoneExpired
  <2>2. OfItsKinds(r)'
    <3>1. stage'[r] \in 1..Len(Order) => Order[stage'[r]] \in config[r]
      BY <1>2, <1>6, AfterIsNext DEF Calm, OfItsKinds
    <3>2. \A d \in attached'[r] : d = id \/ d \in attached[r]
      BY <1>3, <1>4
    <3>3. \A d \in attached'[r] : rows'[d].kind \in config[r]
      BY <1>2, <1>3, <1>7, <3>2 DEF Calm, OfItsKinds
    <3> QED BY <1>4, <3>1, <3>3 DEF OfItsKinds
  <2>3. \A s \in Runs \ {r} : attached'[s] = attached[s] /\ held'[s] = held[s]
    BY <1>3, <1>4
  <2>4. k \in config[r]
    BY <1>2 DEF Calm, OfItsKinds
  <2> QED BY <1>4, <1>6, <1>7, <2>1, <2>2, <2>3, <2>4 DEF OnItsOwn
<1>9. ASSUME Apart(r) PROVE Followed(r)'
  <2>1. /\ Followed(r) /\ taken[r][k] = None /\ held[r] = {} /\ verdict[r] = "working"
        /\ k \in config[r]
    <3>1. stage[r] \in stage[r]..Len(Order)
      BY <1>2 DEF Order
    <3> QED BY <1>2, <1>4, <1>9, <3>1 DEF Calm, OfItsKinds, Followed, NoneAhead, InHand, At
  <2>2. Made
    <3> SUFFICES ASSUME id \in Works!Current(k, up) PROVE FALSE
      BY <1>5
    <3>1. id \in 1..Len(rows) /\ rows[id].kind = k
      BY <1>3 DEF Works!Current
    <3> QED BY <1>4, <1>9, <2>1, <3>1, FollowedTakes
  <2>3. rows'[id].status = "ready"
    <3>1. Works!UpStatuses(rows, up) \subseteq {"succeeded"}
      BY <1>9 DEF Works!UpStatuses
    <3>2. Works!InitialStatus(up) = "ready"
      BY <3>1 DEF Works!InitialStatus, Works!Unusable
    <3> QED BY <1>7, <2>2, <3>2
  <2>4. /\ UNCHANGED <<stage, taken, verdict>> /\ step'[r] = "claim" /\ target'[r] = id
    BY <1>1, <2>3, Moves
  <2>5. AllTaken(r)'
    BY <1>4, <1>7, <2>1, <2>4 DEF Followed, AllTaken
  <2>6. AsEnded(r)'
    BY <1>7, <1>9, <2>4, FollowedTakes DEF AsEnded
  <2>7. InHand(r)'
    BY <1>4, <2>1, <2>3, <2>4 DEF InHand
  <2>8. NoneAhead(r)' /\ FailsOverFailure(r)'
    BY <2>1, <2>4 DEF Followed, NoneAhead, FailsOverFailure
  <2> QED BY <2>5, <2>6, <2>7, <2>8 DEF Followed
<1> QED BY <1>8, <1>9 DEF StaysCalm, StaysFollowed

\* A Run that is followed gets the lease it claims.
LEMMA ClaimCalm ==
    ASSUME ProductionConstants, Inv, Calm, StoreStep, NEW r \in Runs, NEW k, At(r, k), Claim(r)
    PROVE  StaysCalm(r)
<1>1. /\ UNCHANGED <<config, stops, lapses>> /\ step[r] = "claim"
      /\ target[r] \in attached[r] /\ target[r] \in 1..Len(rows)
  <2>1. target[r] \in attached[r]
    BY DEF Claim, Inv, PassSound, Sound
  <2> QED BY <2>1, TablesAre DEF Claim, counts, Inv
<1>2. /\ Works!Recovered(Works!Store) = Works!Store /\ W!Recovered(W!Store) = W!Store
      /\ Works!PromoteReady(rows) = rows /\ NoneExpired
      /\ Works!Store.rows = rows /\ Works!Store.attempts = attempts
  BY NothingToRecover DEF Calm, Works!Store
<1>3. held \in [Runs -> SUBSET Works!Leases]
  BY TablesAre DEF Inv
<1>4. CASE Works!Claimed(r, target[r]) /\ Proceed(r, "held", target[r])
  <2> DEFINE id == target[r]
             lease == [id |-> id, attempt |-> Len(attempts[id]) + 1]
  <2>1. /\ W!OnlyTouches(id) /\ rows'[id].status = "running" /\ rows'[id].lease = r
        /\ rows'[id].expired = rows[id].expired /\ Len(attempts'[id]) = Len(attempts[id]) + 1
        /\ held' = [held EXCEPT ![r] = @ \cup {lease}]
    BY <1>2, <1>4, WorkConstants, SameCalls, W!ClaimTouches DEF Inv, Tables
  <2>2. UNCHANGED <<attached, invalidations>>
    BY <1>4 DEF Works!Claimed
  <2>3. /\ KeepsOff(r) /\ UNCHANGED <<stage, taken, verdict>> /\ step'[r] = "held" /\ target'[r] = id
    BY <1>4, Moves
  <2>4. held'[r] = held[r] \cup {lease} /\ \A s \in Runs \ {r} : held'[s] = held[s]
    BY <1>3, <2>1
  <2>5. OnItsOwn(r)
    <3>1. ~rows'[id].expired
      BY <1>1, <1>2, <2>1 DEF NoneExpired
    <3> QED BY <1>1, <2>1, <2>2, <2>3, <2>4, <3>1, TouchOnItsOwn
  <2>6. ASSUME Apart(r) PROVE Followed(r)'
    <3>1. Followed(r) /\ held[r] = {} /\ rows[id].status = "ready"
      BY <1>1, <2>6 DEF Calm, Followed, InHand
    <3>2. W!Ids = 1..Len(rows) /\ W!Ids' = 1..Len(rows')
      BY StoreKept, TablesAre, SameStore DEF Inv, Tables, W!Inv, W!Good, W!Ids
    <3>3. \A d \in 1..Len(rows') : d \in 1..Len(rows) /\ rows'[d].kind = rows[d].kind
      BY <2>1, <3>2, StoreKept DEF W!OnlyTouches, Inv
    <3>4. AllTaken(r)'
      BY <1>1, <2>3, <3>1, <3>3 DEF OnItsOwn, Followed, AllTaken
    <3>5. AsEnded(r)'
      BY <2>1, <2>3, <2>6, <3>1, <3>2, FollowedTakes DEF AsEnded, W!OnlyTouches, Ended, W!Resting
    <3>6. InHand(r)'
      BY <2>1, <2>3, <2>4, <3>1 DEF InHand
    <3>7. NoneAhead(r)' /\ FailsOverFailure(r)'
      BY <2>3, <3>1 DEF Followed, NoneAhead, FailsOverFailure
    <3> QED BY <3>4, <3>5, <3>6, <3>7 DEF Followed
  <2> QED BY <2>5, <2>6 DEF StaysCalm, StaysFollowed
<1>5. CASE /\ target[r] \notin Works!Claimable(rows, r)
           /\ Works!Commits([rows |-> rows, attempts |-> attempts])
           /\ Proceed(r, "reread", target[r])
           /\ UNCHANGED <<attached, held, invalidations>>
  <2>1. UNCHANGED <<rows, attempts>> /\ KeepsOff(r) /\ stage' = stage
    BY <1>5, Moves DEF Works!Commits
  <2>2. OnItsOwn(r)
    BY <1>1, <1>5, <2>1, StillOnItsOwn
  <2>3. ~Apart(r)
    <3> SUFFICES ASSUME rows[target[r]].status = "ready" PROVE FALSE
      BY <1>1 DEF Calm, Followed, InHand
    <3> QED BY <1>1, <1>5 DEF Works!Claimable
  <2> QED BY <2>2, <2>3 DEF StaysCalm, StaysFollowed
<1> QED BY <1>2, <1>4, <1>5 DEF Claim

\* The end of a call of a Run that is followed: what it held is reported.
LEMMA ReportCalm ==
    ASSUME ProductionConstants, Inv, Calm, StoreStep, NEW r \in Runs, NEW k, At(r, k), step[r] = "held",
           UNCHANGED <<attached, invalidations, config, stops, lapses>>,
           W!OnlyTouches(target[r]), NEW status \in Ended, rows'[target[r]].status = status,
           ~rows'[target[r]].expired, held' = [held EXCEPT ![r] = @ \ {Lease(r)}],
           Collect(r, k, target[r], status)
    PROVE  StaysCalm(r)
<1> DEFINE id == target[r]
<1>1. id \in attached[r] /\ id \in 1..Len(rows) /\ rows[id].kind = k
  <2>1. id \in attached[r] /\ rows[id].kind = Order[stage[r]]
    BY DEF Inv, PassSound, Sound
  <2> QED BY <2>1, AtKind, TablesAre DEF Inv
<1>2. k \in WorkKinds /\ stage[r] \in 1..Len(Order) /\ Order[stage[r]] = k
  BY AtKind
<1>3. /\ KeepsOff(r)
      /\ stage'[r] = After(r, stage[r]) /\ step'[r] = "demand" /\ verdict'[r] = verdict[r]
      /\ taken'[r][k] = [id |-> id, status |-> status]
      /\ \A j \in WorkKinds : j # k => taken'[r][j] = taken[r][j]
  BY <1>2, Moves
<1>4. held'[r] = held[r] \ {Lease(r)} /\ \A s \in Runs \ {r} : held'[s] = held[s]
  <2>1. held \in [Runs -> SUBSET Works!Leases]
    BY TablesAre DEF Inv
  <2> QED BY <2>1
<1>5. OnItsOwn(r)
  BY <1>1, <1>2, <1>3, <1>4, TouchOnItsOwn
<1>6. ASSUME Apart(r) PROVE Followed(r)'
  <2>1. Followed(r) /\ taken[r][k] = None /\ rows[id].status = "running" /\ verdict[r] = "working"
    <3>1. stage[r] \in stage[r]..Len(Order)
      BY <1>2 DEF Order
    <3> QED BY <1>2, <1>6, <3>1 DEF Calm, Followed, NoneAhead, InHand, At
  <2>2. \A d \in 1..Len(rows') : d \in 1..Len(rows) /\ rows'[d].kind = rows[d].kind
    <3>1. W!Ids = 1..Len(rows) /\ W!Ids' = 1..Len(rows')
      BY StoreKept, TablesAre, SameStore DEF Inv, Tables, W!Inv, W!Good, W!Ids
    <3> QED BY <3>1, StoreKept DEF W!OnlyTouches, Inv
  <2>3. [id |-> id, status |-> status] # None
    <3>1. id \in 1..MaxWork /\ status \in Works!Statuses
      <4>1. Len(rows) \in Nat /\ Len(rows) <= MaxWork /\ MaxWork \in Nat
        BY TablesAre DEF Inv, ProductionConstants
      <4> QED BY <1>1, <4>1 DEF Ended, Works!Statuses
    <3>2. [id |-> id, status |-> status] \in Sightings
      BY <3>1 DEF Sightings
    <3> QED BY <3>2 DEF ProductionConstants
  <2>4. AllTaken(r)'
    <3> SUFFICES ASSUME NEW d \in 1..Len(rows'), rows'[d].kind \in config'[r]
                 PROVE  \E j \in WorkKinds : taken'[r][j] # None /\ taken'[r][j].id = d
      BY DEF AllTaken
    <3>1. d \in 1..Len(rows) /\ rows[d].kind \in config[r]
      BY <2>2
    <3>2. CASE d = id
      BY <1>2, <1>3, <2>3, <3>2
    <3>3. ASSUME NEW j \in WorkKinds, taken[r][j] # None, taken[r][j].id = d
          PROVE  taken'[r][j] # None /\ taken'[r][j].id = d
      BY <1>3, <2>1, <3>3
    <3> QED BY <2>1, <3>1, <3>2, <3>3 DEF Followed, AllTaken
  <2>5. AsEnded(r)'
    <3> SUFFICES ASSUME NEW j \in WorkKinds, taken'[r][j] # None
                 PROVE  /\ taken'[r][j].status \in Ended
                        /\ rows'[taken'[r][j].id].status = taken'[r][j].status
      BY DEF AsEnded
    <3>1. CASE j = k
      BY <1>3, <3>1
    <3>2. CASE j # k
      <4>1. taken'[r][j] = taken[r][j]
        BY <1>3, <3>2
      <4>2. /\ taken[r][j].id \in 1..Len(rows) /\ rows[taken[r][j].id].status = taken[r][j].status
            /\ taken[r][j].status \in Ended
        BY <1>6, <4>1, FollowedTakes
      <4>3. taken[r][j].id # id /\ rows[taken[r][j].id].status \notin W!Resting
        BY <2>1, <4>2 DEF Ended, W!Resting
      <4>4. taken[r][j].id \in W!Ids
        BY <4>2, TablesAre, SameStore DEF Inv
      <4> QED BY <4>1, <4>2, <4>3, <4>4 DEF W!OnlyTouches
    <3> QED BY <3>1, <3>2
  <2>6. InHand(r)'
    <3>1. held'[r] = {}
      <4>1. held[r] = {[id |-> id, attempt |-> Len(attempts[id])]}
        BY <2>1 DEF Followed, InHand
      <4> QED BY <1>4, <4>1, LeaseIs
    <3> QED BY <1>3, <3>1 DEF InHand
  <2>7. NoneAhead(r)'
    <3> SUFFICES ASSUME NEW i \in stage'[r]..Len(Order) PROVE taken'[r][Order[i]] = None
      BY DEF NoneAhead
    <3>1. stage'[r] > stage[r] /\ stage'[r] \in Places
      BY <1>2, <1>3, AfterIsNext
    <3>2. i \in 1..Len(Order) /\ i \in stage[r]..Len(Order) /\ i # stage[r]
      BY <1>2, <3>1 DEF Order, Places
    <3>3. Order[i] # k /\ Order[i] \in WorkKinds
      <4>1. Order[i] # k
        BY <1>2, <3>2, OrderedOnce
      <4> QED BY <3>2, <4>1 DEF Order, WorkKinds
    <3>4. taken[r][Order[i]] = None
      BY <2>1, <3>2 DEF Followed, NoneAhead
    <3> QED BY <1>3, <3>3, <3>4
  <2>8. FailsOverFailure(r)'
    BY <1>3, <2>1 DEF FailsOverFailure
  <2> QED BY <2>4, <2>5, <2>6, <2>7, <2>8 DEF Followed
<1> QED BY <1>5, <1>6 DEF StaysCalm, StaysFollowed

LEMMA FinishCalm ==
    ASSUME ProductionConstants, Inv, Calm, StoreStep, NEW r \in Runs, NEW k, At(r, k), Finish(r, k)
    PROVE  StaysCalm(r)
<1>1. /\ UNCHANGED <<config, stops, lapses>> /\ step[r] = "held"
      /\ Collect(r, k, target[r], "succeeded")
  BY DEF Finish, counts
<1>2. Lease(r) \in held[r] /\ Lease(r).id = target[r]
  BY <1>1, LeaseIs
<1>3. W!Recovered(W!Store) = W!Store
  BY NothingToRecover DEF Calm
<1>4. W!Succeeded(r, {Lease(r)})
  BY SameCalls DEF Finish
<1>5. /\ W!OnlyTouches(target[r])
      /\ rows'[target[r]].status = "succeeded" /\ ~rows'[target[r]].expired
      /\ held' = [held EXCEPT ![r] = @ \ {Lease(r)}]
  BY <1>2, <1>3, <1>4, WorkConstants, W!SucceedTouches DEF Inv, Tables
<1>6. UNCHANGED <<attached, invalidations>>
  BY <1>4 DEF W!Succeeded
<1>7. "succeeded" \in Ended
  BY DEF Ended
<1> QED BY <1>1, <1>5, <1>6, <1>7, ReportCalm

LEMMA FaultCalm ==
    ASSUME ProductionConstants, Inv, Calm, StoreStep, NEW r \in Runs, NEW k, At(r, k),
           NEW again \in BOOLEAN, Fault(r, k, again)
    PROVE  StaysCalm(r)
<1>1. /\ UNCHANGED <<config, stops, lapses>> /\ step[r] = "held"
      /\ Collect(r, k, target[r], rows'[target[r]].status)
  BY DEF Fault
<1>2. Lease(r) \in held[r] /\ Lease(r).id = target[r]
  BY <1>1, LeaseIs
<1>3. W!Recovered(W!Store) = W!Store
  BY NothingToRecover DEF Calm
<1>4. W!Failed(r, Lease(r), again, FALSE)
  BY SameCalls DEF Fault
<1>5. /\ W!OnlyTouches(target[r])
      /\ rows'[target[r]].status \in {"retryable", "terminal"} /\ ~rows'[target[r]].expired
      /\ held' = [held EXCEPT ![r] = @ \ {Lease(r)}]
  <2>1. W!Inv /\ W!LeaseConstants
    BY WorkConstants DEF Inv, Tables
  <2> QED BY <1>2, <1>3, <1>4, <2>1, W!FailTouches, ZenonT(60)
<1>6. UNCHANGED <<attached, invalidations>>
  BY <1>4 DEF W!Failed
<1>7. rows'[target[r]].status \in Ended
  BY <1>5 DEF Ended
<1> QED BY <1>1, <1>5, <1>6, <1>7, ReportCalm

\* A Run that is followed does not lose its lease, nor find it given away.
LEMMA LostCalm ==
    ASSUME ProductionConstants, Inv, Calm, NEW r \in Runs, NEW expected, Lost(r, expected)
    PROVE  StaysCalm(r)
<1>1. /\ UNCHANGED <<rows, attempts, attached, invalidations, config, stops, lapses>>
      /\ step[r] = "held" /\ ~Owns(r) /\ held' = [held EXCEPT ![r] = @ \ {Lease(r)}]
  BY DEF Lost, counts
<1>2. KeepsOff(r) /\ stage' = stage
  BY Moves DEF Lost
<1>3. \A s \in Runs \ {r} : held'[s] = held[s]
  <2>1. held \in [Runs -> SUBSET Works!Leases]
    BY TablesAre DEF Inv
  <2> QED BY <1>1, <2>1
<1>4. OnItsOwn(r)
  BY <1>1, <1>2, <1>3, StillOnItsOwn
<1>5. ~Apart(r)
  <2> SUFFICES ASSUME Followed(r) PROVE FALSE
    BY DEF Calm
  <2>1. /\ rows[target[r]].status = "running" /\ rows[target[r]].lease = r
        /\ held[r] = {[id |-> target[r], attempt |-> Len(attempts[target[r]])]}
    BY <1>1 DEF Followed, InHand
  <2>2. Lease(r).id = target[r] /\ Lease(r).attempt = Len(attempts[target[r]])
    BY <1>1, <2>1, LeaseIs
  <2>3. Works!Recovered(Works!Store) = [rows |-> rows, attempts |-> attempts]
    BY NothingToRecover DEF Calm, Works!Store
  <2> QED BY <1>1, <2>1, <2>2, <2>3 DEF Owns, Works!Holds
<1> QED BY <1>4, <1>5 DEF StaysCalm, StaysFollowed

LEMMA RereadCalm ==
    ASSUME ProductionConstants, Inv, Calm, NEW r \in Runs, NEW k, At(r, k), Reread(r, k)
    PROVE  StaysCalm(r)
<1>1. /\ UNCHANGED <<rows, attempts, attached, held, invalidations, config, stops, lapses>>
      /\ step[r] = "reread"
  BY DEF Reread, store, counts
<1>2. KeepsOff(r) /\ stage[r] \in 1..Len(Order) /\ stage'[r] = After(r, stage[r])
  <2>1. stage[r] \in 1..Len(Order) /\ k \in WorkKinds
    BY AtKind
  <2>2. Collect(r, k, target[r], rows[target[r]].status)
    BY DEF Reread
  <2>3. \A id, status : Collect(r, k, id, status) =>
           KeepsOff(r) /\ stage'[r] = After(r, stage[r])
    BY <2>1, Moves
  <2> QED BY <2>1, <2>2, <2>3
<1>3. OnItsOwn(r)
  BY <1>1, <1>2, StillOnItsOwn
<1>4. ~Apart(r)
  BY <1>1 DEF Calm, Followed, InHand
<1> QED BY <1>3, <1>4 DEF StaysCalm, StaysFollowed

LEMMA PassOverCalm ==
    ASSUME ProductionConstants, Inv, Calm, NEW r \in Runs, NEW k, At(r, k), PassOver(r, k)
    PROVE  StaysCalm(r)
<1>1. /\ UNCHANGED <<rows, attempts, attached, held, invalidations, config, stops, lapses>>
      /\ UNCHANGED <<step, target, taken, verdict>>
  BY DEF PassOver, store, counts
<1>2. /\ KeepsOff(r) /\ stage[r] \in 1..Len(Order) /\ stage'[r] = After(r, stage[r])
  BY <1>1, AtKind DEF PassOver, KeepsOff, Inv, PassTypes
<1>3. OnItsOwn(r)
  BY <1>1, <1>2, StillOnItsOwn
<1>4. ASSUME Apart(r) PROVE Followed(r)'
  <2>1. Followed(r)
    BY <1>4 DEF Calm
  <2>2. \A i \in stage'[r]..Len(Order) : i \in stage[r]..Len(Order)
    BY <1>2, AfterIsNext DEF Order, Places
  <2>3. AllTaken(r)' /\ AsEnded(r)' /\ InHand(r)' /\ FailsOverFailure(r)'
    BY <1>1, <2>1 DEF Followed, AllTaken, AsEnded, InHand, FailsOverFailure
  <2>4. NoneAhead(r)'
    BY <1>1, <2>1, <2>2 DEF Followed, NoneAhead
  <2> QED BY <2>3, <2>4 DEF Followed
<1> QED BY <1>3, <1>4 DEF StaysCalm, StaysFollowed

\* A Run that is followed is refused nothing.
LEMMA RefuseCalm ==
    ASSUME ProductionConstants, Inv, Calm, NEW r \in Runs, Refuse(r), ~Apart(r)
    PROVE  StaysCalm(r)
<1>1. UNCHANGED <<rows, attempts, attached, held, invalidations, config, stops, lapses>>
  BY DEF Refuse, store, counts
<1>2. KeepsOff(r) /\ stage' = stage
  BY Moves DEF Refuse
<1> QED BY <1>1, <1>2, StillOnItsOwn DEF StaysCalm, StaysFollowed

\* What it has taken stays good, and it has one record of metadata.
LEMMA StillGoodCalm ==
    ASSUME ProductionConstants, Inv, Calm, NEW r \in Runs, Apart(r), NEW ups \in SUBSET WorkKinds
    PROVE  StillGood(r, ups)
<1> SUFFICES ASSUME NEW k \in ups, Good(r, k) PROVE rows[taken[r][k].id].status = "succeeded"
  BY DEF StillGood, Chosen
<1> QED BY FollowedTakes DEF Good

LEMMA OneMetadataCalm ==
    ASSUME ProductionConstants, Inv, Calm, NEW r \in Runs, Apart(r), step[r] = "demand"
    PROVE  Cardinality(MetadataOf(r)) \in 0..1
<1>1. \A d \in MetadataOf(r) : d = taken[r]["metadata"].id
  BY FollowedTakes DEF MetadataOf
<1>2. MetadataOf(r) \subseteq {taken[r]["metadata"].id}
  BY <1>1
<1>3. /\ IsFiniteSet({taken[r]["metadata"].id})
      /\ Cardinality({taken[r]["metadata"].id}) = 1
  BY FS_Singleton
<1>4. /\ IsFiniteSet(MetadataOf(r))
      /\ Cardinality(MetadataOf(r)) <= Cardinality({taken[r]["metadata"].id})
  BY <1>2, <1>3, FS_Subset
<1>5. Cardinality(MetadataOf(r)) \in Nat
  BY <1>4, FS_CardinalityType
<1> QED BY <1>3, <1>4, <1>5

\* A Result that is not supported stands on a failure that can be tried again.
LEMMA SealCalm ==
    ASSUME ProductionConstants, Inv, Calm, NEW r \in Runs, Seal(r)
    PROVE  StaysCalm(r)
<1>1. /\ UNCHANGED <<rows, attempts, attached, held, invalidations, config, stops, lapses>>
      /\ UNCHANGED <<stage, step, target, taken>>
      /\ verdict' = [verdict EXCEPT ![r] = IF Supported(r) THEN "sealed" ELSE "failed"]
  BY DEF Seal, store, counts
<1>2. /\ KeepsOff(r)
      /\ verdict'[r] = "failed" => ~Supported(r)
  <2>1. verdict \in [Runs -> Verdicts]
    BY DEF Inv, PassTypes
  <2> QED BY <1>1, <2>1 DEF KeepsOff
<1>3. OnItsOwn(r)
  BY <1>1, <1>2, StillOnItsOwn
<1>4. step[r] = "demand"
  BY DEF Inv, PassTypes, PassSound, Sound, Seal, Produced, Order
<1>5. ASSUME Apart(r), ~Supported(r)
      PROVE  \E k \in WorkKinds : taken[r][k] # None /\ taken[r][k].status = "retryable"
  <2>1. StillGood(r, {"compression"}) /\ Cardinality(MetadataOf(r)) \in 0..1
    BY <1>4, <1>5, StillGoodCalm, OneMetadataCalm DEF WorkKinds
  <2>2. PICK d \in Supporting(r) : rows[d].status \notin {"succeeded", "terminal"}
    BY <1>5, <2>1 DEF Supported, StillGood
  <2>3. d \in attached[r] /\ rows[d].kind \in WorkKinds
    <3>1. d \in attached[r] /\ d \in 1..Len(rows) /\ rows \in Seq(Works!Records)
      BY SupportingAre, TablesAre DEF Inv, Works!TypeOK
    <3>2. rows[d] \in Works!Records
      BY <3>1
    <3> QED BY <3>1, <3>2 DEF Works!Records
  <2>4. PICK k \in WorkKinds : taken[r][k] # None /\ taken[r][k].id = d
    BY <1>4, <1>5, <2>3, FollowedTakes
  <2> QED BY <1>5, <2>2, <2>4, FollowedTakes DEF Ended
<1>6. ASSUME Apart(r) PROVE Followed(r)'
  <2>1. Followed(r)
    BY <1>6 DEF Calm
  <2>2. AllTaken(r)' /\ AsEnded(r)' /\ InHand(r)' /\ NoneAhead(r)'
    BY <1>1, <2>1 DEF Followed, AllTaken, AsEnded, InHand, NoneAhead
  <2>3. FailsOverFailure(r)'
    BY <1>1, <1>2, <1>5, <1>6 DEF FailsOverFailure
  <2> QED BY <2>2, <2>3 DEF Followed
<1> QED BY <1>3, <1>6 DEF StaysCalm, StaysFollowed

\* What the counters count ends the quiet.
LEMMA Disturbs ==
    ASSUME ProductionConstants, Inv, NEW r \in Runs
    PROVE  /\ \A k, root : Changed(r, k, root) => ~Quiet'
           /\ GiveBack(r) \/ BackendGone(r) \/ Voided(r) \/ Stop(r) \/ LeaseExpires => ~Quiet'
<1>1. stops \in Nat /\ lapses \in Nat /\ invalidations \in Nat
  BY TablesAre DEF Inv, Counted, Works!TypeOK
<1>2. \A roots : Works!Invalidated(roots) => ~Quiet'
  BY <1>1 DEF Works!Invalidated, Quiet
<1>3. Restart(r) => ~Quiet'
  BY <1>1 DEF Restart, Quiet
<1>4. LeaseExpires => ~Quiet'
  BY <1>1 DEF LeaseExpires, Quiet
<1> QED BY <1>2, <1>3, <1>4 DEF Changed, GiveBack, BackendGone, Voided, Stop

\* A producer that breaks takes only its own Run out of what is followed.
LEMMA BreaksCalm ==
    ASSUME ProductionConstants, Inv, Calm, StoreStep, NEW r \in Runs, Breaks(r), Quiet'
    PROVE  StaysCalm(r)
<1>1. /\ Ends(r, "broken") /\ "broken" \in Verdicts /\ UNCHANGED <<config, stops, lapses>>
  BY DEF Breaks, Verdicts
<1>2. KeepsOff(r) /\ stage' = stage /\ verdict'[r] = "broken"
  BY <1>1, Moves
<1>3. held \in [Runs -> SUBSET Works!Leases]
  BY TablesAre DEF Inv
<1>4. CASE IF held[r] = {} THEN UNCHANGED store ELSE Works!Crash(r)
  <2>1. UNCHANGED <<rows, attempts, attached, invalidations>>
    BY <1>4 DEF store, Works!Crash
  <2>2. \A s \in Runs \ {r} : held'[s] = held[s]
    BY <1>3, <1>4 DEF store, Works!Crash
  <2>3. OnItsOwn(r)
    BY <1>1, <1>2, <2>1, <2>2, StillOnItsOwn
  <2> QED BY <1>2, <2>3 DEF StaysCalm, StaysFollowed
<1>5. ASSUME step[r] = "held", NEW again \in BOOLEAN, Works!Failed(r, Lease(r), again, FALSE)
      PROVE  StaysCalm(r)
  <2>1. Lease(r) \in held[r] /\ Lease(r).id = target[r] /\ target[r] \in attached[r]
    BY <1>5, LeaseIs DEF Inv, PassSound, Sound
  <2>2. W!Recovered(W!Store) = W!Store
    BY NothingToRecover DEF Calm
  <2>3. W!Failed(r, Lease(r), again, FALSE)
    BY <1>5, SameCalls
  <2>4. /\ W!OnlyTouches(target[r]) /\ ~rows'[target[r]].expired
        /\ held' = [held EXCEPT ![r] = @ \ {Lease(r)}]
    <3>1. W!Inv /\ W!LeaseConstants
      BY WorkConstants DEF Inv, Tables
    <3> QED BY <2>1, <2>2, <2>3, <3>1, W!FailTouches, ZenonT(30)
  <2>5. UNCHANGED <<attached, invalidations>>
    BY <2>3 DEF W!Failed
  <2>6. \A s \in Runs \ {r} : held'[s] = held[s]
    BY <1>3, <2>4
  <2>7. OnItsOwn(r)
    BY <1>1, <1>2, <2>1, <2>4, <2>5, <2>6, TouchOnItsOwn
  <2> QED BY <1>2, <2>7 DEF StaysCalm, StaysFollowed
<1>6. ~Voided(r)
  BY Disturbs
<1> QED BY <1>4, <1>5, <1>6 DEF Breaks, LeftBehind

LEMMA LostSensitivityCalm ==
    ASSUME ProductionConstants, Inv, Calm, NEW r \in Runs, LostSensitivity(r)
    PROVE  ~Quiet' \/ StaysCalm(r)
BY LostCalm, Disturbs DEF LostSensitivity

-----------------------------------------------------------------------------
(* The producers of a Run that is followed *)

LEMMA RequestCalm ==
    ASSUME ProductionConstants, Inv, Calm, StoreStep, NEW r \in Runs, NEW k, At(r, k), NEW needs,
           NEW ups \in SUBSET WorkKinds, Request(r, k, needs, ups)
    PROVE  StaysCalm(r)
<1>1. CASE PassOver(r, k)
  BY <1>1, PassOverCalm
<1>2. CASE StillGood(r, ups) /\ Demand(r, k, Chosen(r, ups))
  BY <1>2, DemandCalm DEF StillGood
<1>3. CASE ~StillGood(r, ups) /\ Refuse(r)
  BY <1>3, RefuseCalm, StillGoodCalm
<1> QED BY <1>1, <1>2, <1>3 DEF Request

LEMMA PlainDemandCalm ==
    ASSUME ProductionConstants, Inv, Calm, StoreStep, NEW r \in Runs, NEW k, At(r, k), Demand(r, k, {})
    PROVE  StaysCalm(r)
BY DemandCalm

LEMMA MetadataDemandCalm ==
    ASSUME ProductionConstants, Inv, Calm, StoreStep, NEW r \in Runs, NEW k, At(r, k),
           Demand(r, k, SucceededMetadata(r))
    PROVE  StaysCalm(r)
BY DemandCalm DEF SucceededMetadata

LEMMA CallCalm ==
    ASSUME ProductionConstants, Inv, Calm, StoreStep, NEW r \in Runs, NEW k, At(r, k), NEW expected,
           Call(r, k, expected)
    PROVE  StaysCalm(r)
BY ClaimCalm, RereadCalm, FinishCalm, LostCalm, FaultCalm DEF Call

LEMMA GpxPhaseCalm ==
    ASSUME ProductionConstants, Inv, Calm, StoreStep, NEW r \in Runs, At(r, "gpx"), GpxPhase(r)
    PROVE  StaysCalm(r)
<1>1. CASE Cardinality(MetadataOf(r)) > 1 /\ Refuse(r)
  <2>1. ~Apart(r)
    BY <1>1, OneMetadataCalm DEF Refuse
  <2> QED BY <1>1, <2>1, RefuseCalm
<1>2. CASE PassOver(r, "gpx")
  BY <1>2, PassOverCalm
<1>3. CASE Demand(r, "gpx", SucceededMetadata(r))
  BY <1>3, MetadataDemandCalm
<1> QED BY <1>1, <1>2, <1>3 DEF GpxPhase

LEMMA ProducerCalm ==
    ASSUME ProductionConstants, Inv, Calm, StoreStep, NEW r \in Runs,
           \/ Metadata(r) \/ Bundle(r) \/ Rendition(r) \/ VideoProbe(r) \/ VideoFrames(r)
           \/ ContactSheet(r) \/ Gpx(r) \/ Embedding(r, "embedding")
           \/ Embedding(r, "frame_embedding") \/ KeyFrame(r) \/ Sensitivity(r)
           \/ Compression(r)
    PROVE  ~Quiet' \/ StaysCalm(r)
<1>1. {"probe"} \in SUBSET WorkKinds /\ {"frame"} \in SUBSET WorkKinds
      /\ {"rendition"} \in SUBSET WorkKinds /\ {"frame", "frame_embedding"} \in SUBSET WorkKinds
  BY DEF WorkKinds
<1>2. CASE Metadata(r)
  BY <1>2, PlainDemandCalm, CallCalm, Disturbs DEF Metadata, MetadataPhase
<1>3. CASE Bundle(r)
  BY <1>3, MetadataDemandCalm, ClaimCalm, RereadCalm, FinishCalm, LostCalm DEF Bundle, BundlePhase
<1>4. CASE Rendition(r)
  BY <1>4, PlainDemandCalm, CallCalm, FaultCalm, Disturbs DEF Rendition, RenditionPhase
<1>5. CASE VideoProbe(r)
  BY <1>5, PlainDemandCalm, CallCalm, Disturbs DEF VideoProbe, VideoPhase
<1>6. CASE VideoFrames(r)
  <2>1. ASSUME VideoPhase(r, "frame") PROVE StaysCalm(r)
    BY <1>1, <1>6, <2>1, RequestCalm DEF VideoFrames, VideoPhase
  <2> QED BY <1>6, <2>1, CallCalm, Disturbs DEF VideoFrames
<1>7. CASE ContactSheet(r)
  BY <1>1, <1>7, RequestCalm, CallCalm DEF ContactSheet, VideoPhase
<1>8. CASE Gpx(r)
  BY <1>8, GpxPhaseCalm, CallCalm, Disturbs DEF Gpx
<1>9. ASSUME NEW k \in {"embedding", "frame_embedding"}, Embedding(r, k)
      PROVE  ~Quiet' \/ StaysCalm(r)
  <2>1. ASSUME EmbeddingPhase(r, k) PROVE StaysCalm(r)
    BY <1>1, <1>9, <2>1, RequestCalm DEF Embedding, EmbeddingPhase
  <2> QED BY <1>9, <2>1, CallCalm, Disturbs DEF Embedding
<1>10. CASE KeyFrame(r)
  <2>1. ASSUME EmbeddingPhase(r, "keyframe") PROVE StaysCalm(r)
    BY <1>1, <1>10, <2>1, RequestCalm DEF KeyFrame, EmbeddingPhase
  <2> QED BY <1>10, <2>1, ClaimCalm, RereadCalm, FinishCalm, LostCalm DEF KeyFrame
<1>11. CASE Sensitivity(r)
  BY <1>1, <1>11, RequestCalm, ClaimCalm, RereadCalm, FinishCalm, FaultCalm,
     LostSensitivityCalm, Disturbs
  DEF Sensitivity, SensitivityPhase
<1>12. CASE Compression(r)
  <2>1. CompressionInput(r) \in SUBSET WorkKinds
    BY DEF CompressionInput, WorkKinds
  <2> QED
    BY <1>12, <2>1, RequestCalm, ClaimCalm, RereadCalm, FinishCalm, LostCalm
    DEF Compression, CompressionPhase
<1> QED BY <1>2, <1>3, <1>4, <1>5, <1>6, <1>7, <1>8, <1>9, <1>10, <1>11, <1>12

\* The quiet does not come back.
LEMMA QuietBefore ==
    ASSUME ProductionConstants, Inv, NEW r \in Runs, PartOfAPass(r) \/ Breaks(r) \/ Seal(r), Quiet'
    PROVE  Quiet
<1>1. ASSUME UNCHANGED <<stops, lapses, invalidations>> PROVE Quiet
  BY <1>1 DEF Quiet
<1>2. \A k, up : Demand(r, k, up) => UNCHANGED <<stops, lapses, invalidations>>
  BY DEF Demand, Works!Ensured, counts
<1>3. \A k : PassOver(r, k) \/ Refuse(r) \/ Seal(r) \/ Reread(r, k) =>
        UNCHANGED <<stops, lapses, invalidations>>
  BY DEF PassOver, Refuse, Seal, Reread, store, counts
<1>4. Claim(r) => UNCHANGED <<stops, lapses, invalidations>>
  BY DEF Claim, Works!Claimed, counts
<1>5. \A k, again, expected : Finish(r, k) \/ Fault(r, k, again) \/ Lost(r, expected) =>
        UNCHANGED <<stops, lapses, invalidations>>
  BY DEF Finish, Fault, Lost, Works!Succeeded, Works!Failed, counts
<1>6. LostSensitivity(r) => UNCHANGED <<stops, lapses, invalidations>>
  BY <1>5, Disturbs DEF LostSensitivity
<1>7. Breaks(r) => UNCHANGED <<stops, lapses, invalidations>>
  BY Disturbs DEF Breaks, LeftBehind, store, Works!Crash, Works!Failed
<1> QED BY <1>1, <1>2, <1>3, <1>4, <1>5, <1>6, <1>7, Disturbs DEF PartOfAPass

LEMMA CalmStep ==
    ASSUME ProductionConstants, Inv, CalmInv, [Next]_vars
    PROVE  CalmInv'
<1>1. StoreStep
  BY ProductionStep
<1>2. CASE UNCHANGED vars
  BY <1>2 DEF vars, store, pass, counts, CalmInv, Quiet, Calm, NoneExpired, OfItsKinds, Apart,
     Followed, AllTaken, AsEnded, InHand, NoneAhead, FailsOverFailure
<1>3. ASSUME Quiet', Calm, NEW r \in Runs, StaysCalm(r), verdict[r] = "working" PROVE CalmInv'
  BY <1>1, <1>3, OwnStepKeeps DEF StaysCalm, StaysFollowed
<1>4. CASE Next
  <2> SUFFICES ASSUME Quiet' PROVE CalmInv'
    BY DEF CalmInv
  <2>1. ASSUME NEW r \in Runs,
               \/ Metadata(r) \/ Bundle(r) \/ Rendition(r) \/ VideoProbe(r) \/ VideoFrames(r)
               \/ ContactSheet(r) \/ Gpx(r) \/ Embedding(r, "embedding")
               \/ Embedding(r, "frame_embedding") \/ KeyFrame(r) \/ Sensitivity(r)
               \/ Compression(r)
        PROVE  CalmInv'
    <3>1. Calm
      BY <2>1, ProducersTakeParts, QuietBefore DEF CalmInv
    <3>2. verdict[r] = "working"
      BY <2>1 DEF Metadata, Bundle, Rendition, VideoProbe, VideoFrames, ContactSheet, Gpx,
         Embedding, KeyFrame, Sensitivity, Compression, At
    <3> QED BY <1>1, <1>3, <2>1, <3>1, <3>2, ProducerCalm
  <2>2. ASSUME NEW r \in Runs, Seal(r) PROVE CalmInv'
    <3>1. Calm
      BY <2>2, QuietBefore DEF CalmInv
    <3> QED BY <1>3, <2>2, <3>1, SealCalm DEF Seal
  <2>6. ASSUME NEW r \in Runs, Breaks(r) PROVE CalmInv'
    <3>1. Calm
      BY <2>6, QuietBefore DEF CalmInv
    <3> QED BY <1>1, <1>3, <2>6, <3>1, BreaksCalm DEF Breaks
  <2>3. ASSUME NEW r \in Runs PROVE ~Stop(r)
    BY Disturbs
  <2>4. PICK r \in Runs : TRUE
    <3>1. CASE LeaseExpires
      BY <3>1, TablesAre DEF LeaseExpires, Quiet, Inv, Counted
    <3> QED BY <1>4, <3>1 DEF Next
  <2>5. ~LeaseExpires
    BY <2>4, Disturbs
  <2> QED BY <1>4, <2>1, <2>2, <2>3, <2>5, <2>6 DEF Next
<1> QED BY <1>2, <1>4

LEMMA AlwaysCalm ==
    ASSUME ProductionConstants
    PROVE  Spec => []CalmInv
<1>1. ASSUME Init PROVE CalmInv
  <2>1. rows = <<>> /\ \A r \in Runs : attached[r] = {} /\ held[r] = {}
    BY <1>1 DEF Init, Works!Init
  <2>2. NoneExpired
    BY <2>1 DEF NoneExpired
  <2>3. ASSUME NEW r \in Runs PROVE OfItsKinds(r)
    BY <1>1, <2>1, FirstIsPrepared DEF Init, OfItsKinds
  <2>4. ASSUME NEW r \in Runs PROVE Followed(r)
    <3>1. /\ \A k \in WorkKinds : taken[r][k] = None
          /\ step[r] = "demand" /\ verdict[r] = "working" /\ stage[r] \in Places
      BY <1>1, AfterIsPlace DEF Init, Nothing
    <3>2. \A i \in stage[r]..Len(Order) : Order[i] \in WorkKinds
      BY <3>1 DEF Order, WorkKinds, Places
    <3> QED BY <2>1, <3>1, <3>2
         DEF Followed, AllTaken, AsEnded, InHand, NoneAhead, FailsOverFailure
  <2> QED BY <2>2, <2>3, <2>4 DEF CalmInv, Calm
<1>2. Inv /\ CalmInv /\ [Next]_vars => CalmInv'
  BY CalmStep
<1> QED BY <1>1, <1>2, AlwaysSound, PTL DEF Spec

\* A Run that no other Run, stop, lapse or change disturbs, and whose producers
\* meet no exception they did not expect, fails only over a failure of its own
\* Work that can be tried again: Work that fails for good is reported and not
\* built upon, and no claim or report of the Run is refused
\* (_orchestrator.py:141-420, _validate_supporting_work).
THEOREM FailsOnlyDisturbed ==
    ProductionConstants => (Spec => []FailedWasDisturbed)
<1> SUFFICES ASSUME ProductionConstants PROVE Spec => []FailedWasDisturbed
  OBVIOUS
<1>1. Inv /\ CalmInv => FailedWasDisturbed
  <2> SUFFICES ASSUME Inv, CalmInv, NEW r \in Runs, verdict[r] = "failed", ~Disturbed(r)
               PROVE  FALSE
    BY DEF FailedWasDisturbed
  <2>1. stops \in Nat /\ lapses \in Nat /\ invalidations \in Nat
    BY TablesAre DEF Inv, Counted, Works!TypeOK
  <2>2. Quiet /\ Apart(r)
    BY <2>1 DEF Disturbed, Quiet, Apart
  <2>3. Calm /\ Followed(r)
    BY <2>2 DEF CalmInv, Calm
  <2>4. PICK k \in WorkKinds : taken[r][k] # None /\ taken[r][k].status = "retryable"
    BY <2>3 DEF Followed, FailsOverFailure
  <2>5. taken[r][k].id \in attached[r] /\ rows[taken[r][k].id].status = "retryable"
    BY <2>2, <2>3, <2>4, FollowedTakes
  <2> QED BY <2>5 DEF Disturbed
<1> QED BY <1>1, AlwaysSound, AlwaysCalm, PTL

=============================================================================
