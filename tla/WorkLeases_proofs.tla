--------------------------- MODULE WorkLeases_proofs ---------------------------
(***************************************************************************)
(* Theorems about WorkLeases for any number of Runs, workers, kinds of     *)
(* Work, records, attempts and invalidations.                              *)
(***************************************************************************)
EXTENDS WorkLeases, SequenceTheorems, WellFoundedInduction, TLAPS

-----------------------------------------------------------------------------
(* The walk over the dependencies *)

\* Records depend on older ones.
Ordered(table) == \A d \in 1..Len(table) : table[d].up \subseteq 1..(d - 1)

\* What leads a walk that has visited S to a record.
Leads(table, roots, live, d, S) == d \in live /\ (d \in roots \/ table[d].up \cap S # {})

\* A non-empty set of numbers has a least one.
LEMMA LeastNumber ==
    ASSUME NEW T \in SUBSET Nat, T # {}
    PROVE  \E m \in T : \A k \in T : m <= k
<1>1. PICK m \in T : \A k \in T : <<k, m>> \notin OpToRel(<, Nat)
  BY NatLessThanWellFounded, WFMin
<1>2. ASSUME NEW k \in T PROVE m <= k
  <2>1. k \in Nat /\ m \in Nat
    OBVIOUS
  <2>2. ~(k < m)
    BY <1>1, <2>1 DEF OpToRel
  <2> QED BY <2>1, <2>2
<1> QED BY <1>2

\* There is a set that holds exactly the records it leads to: the smallest of
\* those that hold at least these.
LEMMA WalkEnds ==
    ASSUME NEW table, NEW roots, NEW live
    PROVE  \E S \in SUBSET (1..Len(table)) :
             \A d \in 1..Len(table) : d \in S <=> Leads(table, roots, live, d, S)
<1> DEFINE All == 1..Len(table)
           Complete(C) == \A d \in All : Leads(table, roots, live, d, C) => d \in C
           S == {d \in All : \A C \in SUBSET All : Complete(C) => d \in C}
<1>1. Complete(S)
  <2> SUFFICES ASSUME NEW d \in All, Leads(table, roots, live, d, S), NEW C \in SUBSET All, Complete(C)
               PROVE  d \in C
    OBVIOUS
  <2>1. S \subseteq C
    OBVIOUS
  <2>2. Leads(table, roots, live, d, C)
    <3> HIDE DEF S
    <3> QED BY <2>1 DEF Leads
  <2> QED BY <2>2
<1>2. ASSUME NEW d \in S PROVE Leads(table, roots, live, d, S)
  <2> SUFFICES ASSUME ~Leads(table, roots, live, d, S) PROVE FALSE
    OBVIOUS
  <2>1. Complete(S \ {d})
    <3> SUFFICES ASSUME NEW e \in All, Leads(table, roots, live, e, S \ {d}) PROVE e \in S \ {d}
      OBVIOUS
    <3>1. Leads(table, roots, live, e, S)
      BY DEF Leads
    <3>2. e # d
      BY <3>1
    <3> QED BY <1>1, <3>1, <3>2
  <2>2. S \ {d} \in SUBSET All
    OBVIOUS
  <2> QED BY <2>1, <2>2
<1> HIDE DEF S
<1>3. S \in SUBSET All
  BY DEF S
<1> QED BY <1>1, <1>2, <1>3

\* What is reached is what it leads to itself.
LEMMA ReachedIs ==
    ASSUME NEW table, Len(table) \in Nat, Ordered(table), NEW roots, NEW live
    PROVE  /\ Reached(table, roots, live) \subseteq 1..Len(table)
           /\ \A d \in 1..Len(table) : d \in Reached(table, roots, live)
                <=> Leads(table, roots, live, d, Reached(table, roots, live))
<1> DEFINE n == Len(table)
           Body(g) == [d \in 0..n |->
                         IF d = 0 THEN {}
                         ELSE IF d \in live /\ (d \in roots \/ table[d].up \cap g[d - 1] # {})
                              THEN g[d - 1] \cup {d} ELSE g[d - 1]]
           upTo == CHOOSE g : g = Body(g)
<1>1. PICK S \in SUBSET (1..n) : \A d \in 1..n : d \in S <=> Leads(table, roots, live, d, S)
  BY WalkEnds
<1> DEFINE f == [k \in 0..n |-> S \cap (1..k)]
<1>2. f = Body(f)
  <2> SUFFICES ASSUME NEW d \in 0..n PROVE f[d] = Body(f)[d]
    OBVIOUS
  <2>1. CASE d = 0
    BY <2>1
  <2>2. CASE d # 0
    <3>1. d \in 1..n /\ d - 1 \in 0..n
      BY <2>2
    <3>2. f[d] = S \cap (1..d) /\ f[d - 1] = S \cap (1..(d - 1))
      BY <3>1
    <3>3. S \cap (1..d) = IF d \in S THEN (S \cap (1..(d - 1))) \cup {d} ELSE S \cap (1..(d - 1))
      BY <3>1
    <3>4. table[d].up \cap S = table[d].up \cap (S \cap (1..(d - 1)))
      BY <3>1 DEF Ordered
    <3>5. d \in S <=> d \in live /\ (d \in roots \/ table[d].up \cap f[d - 1] # {})
      BY <1>1, <3>1, <3>2, <3>4 DEF Leads
    <3>6. Body(f)[d] = IF d \in live /\ (d \in roots \/ table[d].up \cap f[d - 1] # {})
                       THEN f[d - 1] \cup {d} ELSE f[d - 1]
      BY <2>2
    <3> HIDE DEF f, Body
    <3> QED BY <3>2, <3>3, <3>5, <3>6
  <2> QED BY <2>1, <2>2
<1>3. upTo = Body(upTo)
  <2> HIDE DEF f, Body
  <2> QED BY <1>2
<1>4. \A k \in 0..n : upTo[k] = f[k]
  <2> SUFFICES ASSUME {k \in 0..n : upTo[k] # f[k]} # {} PROVE FALSE
    OBVIOUS
  <2>1. PICK m \in {k \in 0..n : upTo[k] # f[k]} :
          \A k \in {k \in 0..n : upTo[k] # f[k]} : m <= k
    <3> HIDE DEF f, upTo
    <3>1. {k \in 0..n : upTo[k] # f[k]} \in SUBSET Nat
      OBVIOUS
    <3> QED BY <3>1, LeastNumber
  <2>2. upTo[m] = Body(upTo)[m] /\ f[m] = Body(f)[m] /\ m \in 0..n /\ upTo[m] # f[m]
    <3> HIDE DEF f, upTo, Body
    <3> QED BY <1>2, <1>3
  <2>3. CASE m = 0
    BY <2>2, <2>3
  <2>4. CASE m # 0
    <3>1. m - 1 \in 0..n /\ ~(m <= m - 1)
      BY <2>4
    <3>2. upTo[m - 1] = f[m - 1]
      <4> HIDE DEF f, upTo, Body
      <4> QED BY <2>1, <3>1
    <3>3. Body(upTo)[m] = Body(f)[m]
      <4> HIDE DEF f, upTo
      <4> QED BY <2>4, <3>2
    <3> QED BY <2>2, <3>3
  <2> QED BY <2>3, <2>4
<1>5. Reached(table, roots, live) = upTo[n]
  BY DEF Reached
<1>6. upTo[n] = S
  <2>1. n \in 0..n
    BY ONLY Len(table) \in Nat DEF n
  <2>2. S \cap (1..n) = S
    BY ONLY S \in SUBSET (1..n)
  <2>3. f[n] = S
    BY ONLY <2>1, <2>2 DEF f
  <2> HIDE DEF f, upTo
  <2> QED BY <1>4, <2>1, <2>3
<1> HIDE DEF upTo
<1> QED BY <1>1, <1>5, <1>6

-----------------------------------------------------------------------------
(* The inductive invariant, of the two tables with n records *)

\* A function over the first n numbers is a sequence of length n.
LEMMA SequenceOf ==
    ASSUME NEW S, NEW n \in Nat, NEW f \in [1..n -> S]
    PROVE  f \in Seq(S) /\ Len(f) = n /\ DOMAIN f = 1..n
OBVIOUS

Lasts == {"running", "succeeded", "terminal"}

\* The attempts of a record account for its status.
Told(row, hist) ==
    /\ row \in Records
    /\ hist \in Seq(Outcomes)
    /\ Len(hist) <= MaxAttempts
    /\ \A k \in 1..Len(hist) : hist[k] \in Lasts => k = Len(hist)
    /\ row.status = "running" <=> (Len(hist) > 0 /\ hist[Len(hist)] = "running")
    /\ row.status \in {"pending", "ready", "blocked"} => Len(hist) = 0
    /\ row.status = "succeeded" => Len(hist) > 0 /\ hist[Len(hist)] = "succeeded"
    /\ row.status = "retryable" =>
         /\ Len(hist) > 0 /\ hist[Len(hist)] \in {"retryable", "expired"}
         /\ Len(hist) < MaxAttempts
    /\ row.status = "terminal" => Len(hist) > 0 /\ hist[Len(hist)] \in {"terminal", "expired"}
    /\ row.lease # None <=> row.status = "running"

Resting == {"pending", "blocked", "invalidated"}

\* The two properties, record by record.
Rests(table, d) ==
    table[d].status \notin Resting => \A u \in table[d].up : table[u].status = "succeeded"

Waits(table, d) ==
    table[d].status = "pending" =>
        /\ \E u \in table[d].up : table[u].status # "succeeded"
        /\ \A u \in table[d].up : table[u].status \notin Unusable

Good(n, table, hists) ==
    /\ n \in 0..MaxWork
    /\ table \in [1..n -> Records]
    /\ hists \in [1..n -> Seq(Outcomes)]
    /\ \A d \in 1..n : Told(table[d], hists[d])
    /\ \A d \in 1..n : table[d].up \subseteq 1..(d - 1)
    /\ \A d \in 1..n : Rests(table, d)
    /\ \A d \in 1..n : Waits(table, d)

Inv ==
    /\ Good(Len(rows), rows, attempts)
    /\ attached \in [Runs -> SUBSET (1..Len(rows))]
    /\ held \in [Workers -> SUBSET [id : 1..Len(rows), attempt : 1..MaxAttempts]]
    /\ invalidations \in 0..MaxInvalidations
    /\ detached \in 0..MaxDetached

-----------------------------------------------------------------------------
(* One record and its attempts *)

\* Only its status and its owner count.
LEMMA FlagsTold ==
    ASSUME NEW row, NEW hist, Told(row, hist), NEW new \in Records,
           new.status = row.status, new.lease = row.lease
    PROVE  Told(new, hist)
BY DEF Told

\* A record that waits, and is now due or blocked.
LEMMA WokenTold ==
    ASSUME NEW row, NEW hist, Told(row, hist), row.status \in {"pending", "ready"},
           NEW status \in {"ready", "blocked"}
    PROVE  Told([row EXCEPT !.status = status], hist)
<1> DEFINE new == [row EXCEPT !.status = status]
<1>1. new \in Records
  BY DEF Told, Records, Statuses
<1>2. new.status = status /\ new.lease = row.lease
  BY DEF Told, Records
<1>3. hist \in Seq(Outcomes) /\ Len(hist) = 0 /\ 0 <= MaxAttempts /\ row.lease = None
  BY DEF Told
<1>4. status \notin {"running", "succeeded", "retryable", "terminal"}
  OBVIOUS
<1> HIDE DEF new
<1>5. Told(new, hist)
  BY ONLY <1>1, <1>2, <1>3, <1>4 DEF Told
<1> QED BY <1>5 DEF new

LEMMA FreedIs ==
    ASSUME NEW row \in Records, NEW status \in Statuses
    PROVE  /\ Freed(row, status) \in Records
           /\ Freed(row, status).status = status
           /\ Freed(row, status).lease = None
           /\ Freed(row, status).up = row.up
           /\ Freed(row, status).kind = row.kind
<1>1. FALSE \in BOOLEAN /\ None \in Workers \cup {None}
  OBVIOUS
<1> QED BY <1>1 DEF Freed, Records

\* The entry of a record's attempts as its last one is closed.
Shut(hist, outcome) == [hist EXCEPT ![Len(hist)] = outcome]

\* The status a record is left with by each outcome of its attempt.
LEMMA EndedTold ==
    ASSUME NEW row, NEW hist, Told(row, hist), row.status = "running",
           NEW status \in {"succeeded", "retryable", "terminal", "invalidated"},
           NEW outcome \in {"succeeded", "retryable", "terminal", "expired", "invalidated"},
           outcome = "expired" => status \in {"retryable", "terminal"},
           outcome # "expired" => outcome = status,
           status = "retryable" => Len(hist) < MaxAttempts
    PROVE  Told(Freed(row, status), Shut(hist, outcome))
<1> DEFINE new == Freed(row, status)
           closed == Shut(hist, outcome)
<1>1. /\ row \in Records /\ hist \in Seq(Outcomes) /\ Len(hist) \in Nat /\ Len(hist) > 0
      /\ Len(hist) <= MaxAttempts /\ hist[Len(hist)] = "running"
      /\ \A k \in 1..Len(hist) : hist[k] \in Lasts => k = Len(hist)
  BY LenProperties DEF Told
<1>2. new \in Records /\ new.status = status /\ new.lease = None
  BY <1>1, FreedIs DEF Statuses
<1>3. /\ closed \in Seq(Outcomes) /\ Len(closed) = Len(hist)
      /\ \A k \in 1..Len(hist) : closed[k] = IF k = Len(hist) THEN outcome ELSE hist[k]
  <2>1. Len(hist) \in 1..Len(hist) /\ outcome \in Outcomes
    BY <1>1 DEF Outcomes
  <2> QED BY <1>1, <2>1, ExceptSeq DEF Shut
<1> HIDE DEF new, closed
<1>4. closed[Len(closed)] = outcome
  BY <1>1, <1>3
<1>5. \A k \in 1..Len(closed) : closed[k] \in Lasts => k = Len(closed)
  BY <1>1, <1>3
<1>6. new.lease = None /\ new.status # "running" /\ outcome # "running"
  BY <1>2
<1>7. status \notin {"running", "pending", "ready", "blocked"}
  OBVIOUS
<1>8. /\ status = "succeeded" => outcome = "succeeded"
      /\ status = "retryable" => outcome \in {"retryable", "expired"}
      /\ status = "terminal" => outcome \in {"terminal", "expired"}
  OBVIOUS
<1>9. Len(closed) > 0 /\ Len(closed) <= MaxAttempts
      /\ (status = "retryable" => Len(closed) < MaxAttempts)
  BY <1>1, <1>3
<1>10. Told(new, closed)
  BY ONLY <1>2, <1>3, <1>4, <1>5, <1>6, <1>7, <1>8, <1>9 DEF Told
<1> QED BY <1>10 DEF new, closed

\* A record nobody runs may be invalidated whatever it has been through.
LEMMA DroppedTold ==
    ASSUME NEW row, NEW hist, Told(row, hist), row.status # "running"
    PROVE  Told(Freed(row, "invalidated"), hist)
<1> DEFINE new == Freed(row, "invalidated")
<1>1. new \in Records /\ new.status = "invalidated" /\ new.lease = None
  BY FreedIs DEF Told, Statuses
<1>2. hist \in Seq(Outcomes) /\ Len(hist) <= MaxAttempts
      /\ (\A k \in 1..Len(hist) : hist[k] \in Lasts => k = Len(hist))
      /\ ~(Len(hist) > 0 /\ hist[Len(hist)] = "running")
  BY DEF Told
<1> HIDE DEF new
<1>3. Told(new, hist)
  BY ONLY <1>1, <1>2 DEF Told
<1> QED BY <1>3 DEF new

\* A claim opens an attempt.
LEMMA ClaimedTold ==
    ASSUME NEW row, NEW hist, Told(row, hist), row.status \in {"ready", "retryable"},
           MaxAttempts \in Nat \ {0},
           NEW new \in Records, new.status = "running", new.lease # None
    PROVE  /\ Told(new, Append(hist, "running"))
           /\ Append(hist, "running") \in Seq(Outcomes)
           /\ Len(hist) + 1 \in 1..MaxAttempts
<1> DEFINE opened == Append(hist, "running")
<1>1. /\ hist \in Seq(Outcomes) /\ Len(hist) \in Nat /\ Len(hist) < MaxAttempts
      /\ \A k \in 1..Len(hist) : hist[k] \notin Lasts
  <2>1. hist \in Seq(Outcomes) /\ Len(hist) \in Nat
    BY LenProperties DEF Told
  <2>2. CASE row.status = "ready"
    BY <2>1, <2>2 DEF Told
  <2>3. CASE row.status = "retryable"
    BY <2>1, <2>3 DEF Told, Lasts
  <2> QED BY <2>1, <2>2, <2>3
<1>2. /\ opened \in Seq(Outcomes) /\ Len(opened) = Len(hist) + 1
      /\ opened[Len(hist) + 1] = "running"
      /\ \A k \in 1..Len(hist) : opened[k] = hist[k]
  BY <1>1, AppendProperties DEF Outcomes
<1> HIDE DEF opened
<1>3. \A k \in 1..Len(opened) : opened[k] \in Lasts => k = Len(opened)
  BY <1>1, <1>2
<1> QED BY <1>1, <1>2, <1>3 DEF Told

-----------------------------------------------------------------------------
(* The transactions on the tables *)

\* What is told of a table B that is M with the records blocked that wait for
\* those of E.
Blocks(n, M, B, E) ==
    /\ B \in [1..n -> Records]
    /\ \A d \in 1..n : \/ B[d] = M[d]
                       \/ /\ M[d].status \in {"pending", "ready"}
                          /\ B[d] = [M[d] EXCEPT !.status = "blocked"]
    /\ \A d \in 1..n : B[d].status = "pending" =>
         \A u \in M[d].up : u \notin E /\ B[u] = M[u]

LEMMA BlocksNone ==
    ASSUME NEW n \in Nat, NEW M \in [1..n -> Records]
    PROVE  Blocks(n, M, M, {})
BY DEF Blocks

\* _block_dependents blocks all that waits for a record, however far below.
LEMMA BlocksAll ==
    ASSUME NEW n \in Nat, NEW M \in [1..n -> Records], NEW E,
           \A d \in 1..n : M[d].up \subseteq 1..(d - 1)
    PROVE  Blocks(n, M, BlockDependents(M, E), E)
<1> DEFINE D == Downstream(M, E)
           B == BlockDependents(M, E)
<1>1. Len(M) = n /\ DOMAIN M = 1..n
  BY SequenceOf
<1>2. \A d \in 1..n : d \in D <=> Leads(M, Dependents(M, E), 1..n, d, D)
  <2>1. Ordered(M) /\ Len(M) \in Nat
    BY <1>1 DEF Ordered
  <2> QED BY <1>1, <2>1, ReachedIs DEF Downstream
<1> HIDE DEF D
<1>3. B = [d \in 1..n |-> IF d \in D /\ M[d].status \in {"pending", "ready"}
                          THEN [M[d] EXCEPT !.status = "blocked"] ELSE M[d]]
  BY <1>1 DEF BlockDependents, D
<1>4. \A d \in 1..n : [M[d] EXCEPT !.status = "blocked"] \in Records
                      /\ [M[d] EXCEPT !.status = "blocked"].status = "blocked"
  BY DEF Records, Statuses
<1>5. B \in [1..n -> Records]
  BY <1>3, <1>4
<1>6. ASSUME NEW d \in 1..n PROVE \/ B[d] = M[d]
                                  \/ /\ M[d].status \in {"pending", "ready"}
                                     /\ B[d] = [M[d] EXCEPT !.status = "blocked"]
  BY <1>3
<1>7. ASSUME NEW d \in 1..n, B[d].status = "pending", NEW u \in M[d].up
      PROVE  u \notin E /\ B[u] = M[u]
  <2>1. d \notin D
    BY <1>3, <1>4, <1>6, <1>7
  <2>2. d \notin Dependents(M, E) /\ M[d].up \cap D = {}
    BY <1>2, <2>1 DEF Leads
  <2>3. u \in 1..n
    BY <1>7
  <2> QED BY <1>1, <1>3, <2>2, <2>3 DEF Dependents
<1> HIDE DEF B
<1>8. Blocks(n, M, B, E)
  BY <1>5, <1>6, <1>7 DEF Blocks
<1> QED BY <1>8 DEF B

Due == {"ready", "retryable", "running"}

\* The records a transaction has claimed, or ended without a result; those it
\* has ended for good are in E.
Ends(n, T, M, E) ==
    /\ M \in [1..n -> Records]
    /\ \A d \in 1..n : M[d].up = T[d].up
    /\ \A d \in 1..n : \/ M[d].status = T[d].status
                       \/ T[d].status \in Due /\ M[d].status \in (Due \cup {"terminal"}) \ {"ready"}
    /\ \A d \in 1..n : M[d].status = "terminal" => T[d].status = "terminal" \/ d \in E

LEMMA EndKeeps ==
    ASSUME NEW n, NEW T, NEW H, Good(n, T, H),
           NEW M, NEW E, Ends(n, T, M, E),
           NEW G \in [1..n -> Seq(Outcomes)], \A d \in 1..n : Told(M[d], G[d]),
           NEW B, Blocks(n, M, B, E)
    PROVE  Good(n, B, G)
<1>1. n \in 0..MaxWork
  BY DEF Good
<1>2. ASSUME NEW d \in 1..n
      PROVE  /\ M[d] \in Records /\ B[d] \in Records /\ T[d] \in Records
             /\ B[d].up = T[d].up /\ T[d].up \subseteq 1..(d - 1)
             /\ \/ B[d].status = M[d].status
                \/ M[d].status \in {"pending", "ready"} /\ B[d].status = "blocked"
  <2>1. M[d] \in Records /\ B[d] \in Records /\ T[d] \in Records /\ T[d].up \subseteq 1..(d - 1)
        /\ M[d].up = T[d].up
    BY DEF Good, Ends, Blocks
  <2>2. [M[d] EXCEPT !.status = "blocked"].up = M[d].up
        /\ [M[d] EXCEPT !.status = "blocked"].status = "blocked"
    BY <2>1 DEF Records
  <2> QED BY <2>1, <2>2 DEF Blocks
<1>3. ASSUME NEW d \in 1..n PROVE Told(B[d], G[d])
  <2>1. CASE B[d] = M[d]
    BY <2>1
  <2>2. CASE M[d].status \in {"pending", "ready"} /\ B[d] = [M[d] EXCEPT !.status = "blocked"]
    <3>1. Told([M[d] EXCEPT !.status = "blocked"], G[d])
      BY <2>2, WokenTold
    <3> QED BY ONLY <2>2, <3>1
  <2> QED BY <2>1, <2>2 DEF Blocks
<1>4. ASSUME NEW d \in 1..n PROVE Rests(B, d)
  <2> SUFFICES ASSUME B[d].status \notin Resting, NEW u \in B[d].up
               PROVE  B[u].status = "succeeded"
    BY DEF Rests
  <2>1. T[d].status \notin Resting
    BY <1>2 DEF Ends, Resting, Due
  <2>2. u \in 1..n /\ T[u].status = "succeeded"
    BY <1>1, <1>2, <2>1 DEF Good, Rests
  <2> QED BY <1>2, <2>2 DEF Ends, Due
<1>5. ASSUME NEW d \in 1..n PROVE Waits(B, d)
  <2> SUFFICES ASSUME B[d].status = "pending"
               PROVE  /\ \E u \in T[d].up : B[u].status # "succeeded"
                      /\ \A u \in T[d].up : B[u].status \notin Unusable
    BY <1>2 DEF Waits
  <2>1. T[d].status = "pending"
    BY <1>2 DEF Ends, Due
  <2>2. ASSUME NEW u \in T[d].up PROVE u \in 1..n /\ u \notin E /\ B[u] = M[u]
    <3>1. u \in M[d].up
      BY DEF Ends
    <3>2. u \notin E /\ B[u] = M[u]
      BY <3>1 DEF Blocks
    <3>3. u \in 1..(d - 1)
      BY <1>2
    <3> QED BY <1>1, <3>2, <3>3
  <2>3. \E u \in T[d].up : T[u].status # "succeeded"
    BY <2>1 DEF Good, Waits
  <2>4. \A u \in T[d].up : T[u].status \notin Unusable
    BY <2>1 DEF Good, Waits
  <2>5. \A u \in T[d].up : M[u].status # "succeeded" \/ T[u].status = "succeeded"
    BY <2>2 DEF Ends, Due
  <2>6. \A u \in T[d].up : M[u].status \notin Unusable
    BY <2>2, <2>4 DEF Ends, Due, Unusable
  <2> QED BY <2>2, <2>3, <2>5, <2>6
<1>6. B \in [1..n -> Records] /\ \A d \in 1..n : B[d].up \subseteq 1..(d - 1)
  BY <1>2 DEF Blocks
<1> QED BY <1>1, <1>3, <1>4, <1>5, <1>6 DEF Good

\* What Good says of one record.
LEMMA GoodRow ==
    ASSUME NEW n, NEW T, NEW H, Good(n, T, H), NEW d \in 1..n
    PROVE  /\ n \in Nat /\ DOMAIN T = 1..n /\ DOMAIN H = 1..n
           /\ T[d] \in Records /\ T[d].status \in Statuses /\ T[d].up \subseteq 1..(d - 1)
           /\ T[d].up \subseteq 1..n
           /\ H[d] \in Seq(Outcomes) /\ Len(H[d]) \in Nat /\ Told(T[d], H[d])
           /\ T[d].status = "running" =>
                Len(H[d]) \in 1..Len(H[d]) /\ Len(H[d]) <= MaxAttempts
<1>1. n \in Nat /\ DOMAIN T = 1..n /\ DOMAIN H = 1..n
  BY LeaseConstants DEF Good
<1>2. T[d] \in Records /\ T[d].up \subseteq 1..(d - 1) /\ H[d] \in Seq(Outcomes) /\ Told(T[d], H[d])
  BY DEF Good
<1>3. T[d].status \in Statuses
  BY <1>2 DEF Records
<1>4. T[d].up \subseteq 1..n
  BY <1>1, <1>2
<1>5. Len(H[d]) \in Nat
  BY <1>2, LenProperties
<1>6. T[d].status = "running" => Len(H[d]) \in 1..Len(H[d]) /\ Len(H[d]) <= MaxAttempts
  BY <1>2, <1>5 DEF Told
<1> QED BY <1>1, <1>2, <1>3, <1>4, <1>5, <1>6

\* The entries of a set of records closed with one outcome.
LEMMA ClosedIs ==
    ASSUME NEW store, NEW n, Good(n, store.rows, store.attempts),
           NEW ids, NEW outcome \in Outcomes
    PROVE  /\ Closed(store, ids, outcome) \in [1..n -> Seq(Outcomes)]
           /\ \A d \in 1..n : Closed(store, ids, outcome)[d] =
                IF d \in ids /\ store.rows[d].status = "running"
                THEN Shut(store.attempts[d], outcome)
                ELSE store.attempts[d]
<1>1. DOMAIN store.attempts = 1..n
  BY DEF Good
<1>2. ASSUME NEW d \in 1..n, store.rows[d].status = "running"
      PROVE  Shut(store.attempts[d], outcome) \in Seq(Outcomes)
  BY <1>2, GoodRow, ExceptSeq DEF Shut
<1>3. \A d \in 1..n : store.attempts[d] \in Seq(Outcomes)
  BY GoodRow
<1> QED BY <1>1, <1>2, <1>3 DEF Closed, Shut

\* Expired leases recovered, the tables are as sound as before.
LEMMA RecoveredGood ==
    ASSUME NEW store, NEW n, Good(n, store.rows, store.attempts)
    PROVE  Good(n, Recovered(store).rows, Recovered(store).attempts)
<1> DEFINE T == store.rows
           H == store.attempts
           gone == {d \in DOMAIN T : T[d].status = "running" /\ T[d].expired}
           spent == {d \in gone : ~CanRetry(store, d)}
           freed == [d \in DOMAIN T |-> IF d \in spent THEN Freed(T[d], "terminal")
                                        ELSE IF d \in gone THEN Freed(T[d], "retryable")
                                        ELSE T[d]]
           G == Closed(store, gone, "expired")
<1>1. n \in Nat /\ DOMAIN T = 1..n
  BY LeaseConstants DEF Good
<1>2. ASSUME NEW d \in 1..n
      PROVE  /\ T[d] \in Records
             /\ d \in gone => T[d].status = "running"
             /\ d \in spent => freed[d] = Freed(T[d], "terminal")
             /\ d \in gone /\ d \notin spent => freed[d] = Freed(T[d], "retryable") /\ CanRetry(store, d)
             /\ d \notin gone => freed[d] = T[d]
             /\ d \in spent => d \in gone
  BY <1>1, GoodRow
<1>3. /\ G \in [1..n -> Seq(Outcomes)]
      /\ \A d \in 1..n : G[d] = IF d \in gone THEN Shut(H[d], "expired") ELSE H[d]
  <2>1. "expired" \in Outcomes
    BY DEF Outcomes
  <2> HIDE DEF gone
  <2>2. /\ G \in [1..n -> Seq(Outcomes)]
        /\ \A d \in 1..n : G[d] = IF d \in gone /\ T[d].status = "running"
                                 THEN Shut(H[d], "expired") ELSE H[d]
    BY ONLY <2>1, ClosedIs, Good(n, store.rows, store.attempts) DEF G, T, H
  <2> HIDE DEF G
  <2> QED BY <1>2, <2>2
<1>4. Recovered(store).rows = BlockDependents(freed, spent) /\ Recovered(store).attempts = G
  BY DEF Recovered
<1>5. DOMAIN freed = 1..n /\ freed = [d \in 1..n |-> freed[d]]
  BY <1>1
<1> HIDE DEF gone, spent, freed, G
<1>6. ASSUME NEW d \in 1..n
      PROVE  /\ freed[d] \in Records /\ freed[d].up = T[d].up /\ Told(freed[d], G[d])
             /\ d \notin gone => freed[d].status = T[d].status
             /\ d \in gone => T[d].status = "running"
             /\ d \in gone => freed[d].status = IF d \in spent THEN "terminal" ELSE "retryable"
  <2>1. CASE d \notin gone
    BY <1>2, <1>3, <2>1, GoodRow
  <2>2. CASE d \in spent
    <3>1. Told(Freed(T[d], "terminal"), Shut(H[d], "expired"))
      BY <1>2, <2>2, GoodRow, EndedTold
    <3>2. "terminal" \in Statuses
      BY DEF Statuses
    <3> QED BY <1>2, <1>3, <2>2, <3>1, <3>2, FreedIs
  <2>3. CASE d \in gone /\ d \notin spent
    <3>0. Len(H[d]) < MaxAttempts
      BY <1>2, <2>3 DEF CanRetry
    <3>1. Told(Freed(T[d], "retryable"), Shut(H[d], "expired"))
      BY <1>2, <2>3, <3>0, GoodRow, EndedTold
    <3>2. "retryable" \in Statuses
      BY DEF Statuses
    <3> QED BY <1>2, <1>3, <2>3, <3>1, <3>2, FreedIs
  <2> QED BY <2>1, <2>2, <2>3
<1>7. freed \in [1..n -> Records]
  BY <1>5, <1>6
<1>8. Ends(n, T, freed, spent)
  BY <1>6, <1>7 DEF Ends, Due
<1>9. Blocks(n, freed, BlockDependents(freed, spent), spent)
  <2>1. \A d \in 1..n : freed[d].up \subseteq 1..(d - 1)
    BY <1>6, GoodRow
  <2> QED BY <1>1, <1>7, <2>1, BlocksAll
<1>10. Good(n, BlockDependents(freed, spent), G)
  BY <1>3, <1>6, <1>8, <1>9, EndKeeps
<1> QED BY <1>4, <1>10

\* A failure ends the attempt, and blocks what waits if it is for good.
LEMMA FailedGood ==
    ASSUME NEW store, NEW n, Good(n, store.rows, store.attempts),
           NEW id \in 1..n, store.rows[id].status = "running",
           NEW again \in BOOLEAN, NEW delayed \in BOOLEAN, again => CanRetry(store, id),
           NEW failed,
           failed = [store.rows EXCEPT ![id] =
              [Freed(store.rows[id], IF again THEN "retryable" ELSE "terminal")
                 EXCEPT !.delayed = delayed]]
    PROVE  Good(n, IF again THEN failed ELSE BlockDependents(failed, {id}),
                Closed(store, {id}, IF again THEN "retryable" ELSE "terminal"))
<1> DEFINE T == store.rows
           H == store.attempts
           status == IF again THEN "retryable" ELSE "terminal"
           row == [Freed(T[id], status) EXCEPT !.delayed = delayed]
           G == Closed(store, {id}, status)
           E == IF again THEN {} ELSE {id}
           B == IF again THEN failed ELSE BlockDependents(failed, {id})
<1>1. n \in Nat /\ T \in [1..n -> Records]
  BY LeaseConstants DEF Good
<1>2. status \in Statuses /\ status \in Outcomes /\ status \in {"retryable", "terminal"}
      /\ (status = "retryable" <=> again)
  BY DEF Statuses, Outcomes
<1> HIDE DEF status
<1>3. /\ row \in Records /\ row.status = status /\ row.up = T[id].up
      /\ row.lease = Freed(T[id], status).lease
      /\ Freed(T[id], status).status = status
  <2>1. /\ Freed(T[id], status) \in Records /\ Freed(T[id], status).status = status
        /\ Freed(T[id], status).up = T[id].up
    BY <1>1, <1>2, FreedIs
  <2>2. ASSUME NEW f \in Records
        PROVE  LET r == [f EXCEPT !.delayed = delayed] IN
               r \in Records /\ r.status = f.status /\ r.up = f.up /\ r.lease = f.lease
    BY DEF Records
  <2> QED BY <2>1, <2>2
<1>4. /\ G \in [1..n -> Seq(Outcomes)]
      /\ \A d \in 1..n : G[d] = IF d \in {id} /\ T[d].status = "running"
                                THEN Shut(H[d], status) ELSE H[d]
  <2>1. ASSUME NEW o \in Outcomes
        PROVE  /\ Closed(store, {id}, o) \in [1..n -> Seq(Outcomes)]
               /\ \A d \in 1..n : Closed(store, {id}, o)[d] =
                     IF d \in {id} /\ store.rows[d].status = "running"
                     THEN Shut(store.attempts[d], o) ELSE store.attempts[d]
    BY ONLY o \in Outcomes, ClosedIs, Good(n, store.rows, store.attempts)
  <2> QED BY ONLY <1>2, <2>1 DEF G, T, H
<1>5. failed = [T EXCEPT ![id] = row]
  BY DEF status
<1> HIDE DEF row, G
<1>6. /\ failed \in [1..n -> Records] /\ failed[id] = row
      /\ \A d \in 1..n : d # id => failed[d] = T[d]
  BY <1>1, <1>3, <1>5
<1>7. ASSUME NEW d \in 1..n PROVE Told(failed[d], G[d])
  <2>1. CASE d = id
    <3>1. status = "retryable" => Len(H[id]) < MaxAttempts
      BY <1>2 DEF CanRetry
    <3>2. Told(Freed(T[id], status), Shut(H[id], status))
      BY <1>2, <3>1, GoodRow, EndedTold
    <3>3. Told(row, Shut(H[id], status))
      BY <1>3, <3>2, FlagsTold
    <3> QED BY <1>4, <1>6, <2>1, <3>3
  <2>2. CASE d # id
    BY <1>4, <1>6, <2>2, GoodRow
  <2> QED BY <2>1, <2>2
<1>8. \A d \in 1..n : failed[d].up = T[d].up
  BY <1>3, <1>6
<1>9. Ends(n, T, failed, E)
  BY <1>2, <1>3, <1>6, <1>8 DEF Ends, Due
<1>10. Blocks(n, failed, B, E)
  <2>1. CASE again
    BY <1>1, <1>6, <2>1, BlocksNone
  <2>2. CASE ~again
    <3>1. \A d \in 1..n : failed[d].up \subseteq 1..(d - 1)
      BY <1>8, GoodRow
    <3>2. Blocks(n, failed, BlockDependents(failed, {id}), {id})
      BY <1>1, <1>6, <3>1, BlocksAll
    <3> QED BY <2>2, <3>2
  <2> QED BY <2>1, <2>2
<1> HIDE DEF E, B
<1>11. Good(n, B, G)
  BY <1>4, <1>7, <1>9, <1>10, EndKeeps
<1> QED BY <1>11 DEF B, G, status

\* What a result adds wakes all that waited for nothing else.
LEMMA SucceededGood ==
    ASSUME NEW store, NEW n, Good(n, store.rows, store.attempts),
           NEW ids \in SUBSET (1..n), \A id \in ids : store.rows[id].status = "running",
           NEW done,
           done = [d \in DOMAIN store.rows |->
                     IF d \in ids THEN Freed(store.rows[d], "succeeded") ELSE store.rows[d]]
    PROVE  Good(n, PromoteDependents(done, ids), Closed(store, ids, "succeeded"))
<1> DEFINE T == store.rows
           H == store.attempts
           G == Closed(store, ids, "succeeded")
           P == PromoteDependents(done, ids)
           Wakes(d) == d \in Dependents(done, ids) /\ done[d].status = "pending"
                       /\ UpStatuses(done, done[d].up) = {"succeeded"}
<1>1. n \in 0..MaxWork /\ n \in Nat /\ DOMAIN T = 1..n /\ T \in [1..n -> Records]
  BY LeaseConstants DEF Good
<1>2. "succeeded" \in Statuses /\ "succeeded" \in Outcomes
  BY DEF Statuses, Outcomes
<1>3. /\ G \in [1..n -> Seq(Outcomes)]
      /\ \A d \in 1..n : G[d] = IF d \in ids /\ T[d].status = "running"
                                THEN Shut(H[d], "succeeded") ELSE H[d]
  BY ONLY <1>2, ClosedIs, Good(n, store.rows, store.attempts) DEF G, T, H
<1> HIDE DEF G
<1>4. ASSUME NEW d \in 1..n
      PROVE  /\ done[d] \in Records /\ done[d].up = T[d].up /\ Told(done[d], G[d])
             /\ d \in ids => T[d].status = "running" /\ done[d].status = "succeeded"
             /\ d \notin ids => done[d] = T[d]
  <2>1. CASE d \in ids
    <3>1. Told(Freed(T[d], "succeeded"), Shut(H[d], "succeeded"))
      BY <2>1, GoodRow, EndedTold
    <3>2. done[d] = Freed(T[d], "succeeded") /\ G[d] = Shut(H[d], "succeeded")
      BY <1>1, <1>3, <2>1
    <3> QED BY <1>2, <2>1, <3>1, <3>2, FreedIs, GoodRow
  <2>2. CASE d \notin ids
    <3>1. done[d] = T[d] /\ G[d] = H[d]
      BY <1>1, <1>3, <2>2
    <3> QED BY <2>2, <3>1, GoodRow
  <2> QED BY <2>1, <2>2
<1>5. DOMAIN done = 1..n
  BY <1>1
<1>6. P = [d \in 1..n |-> IF Wakes(d) THEN [done[d] EXCEPT !.status = "ready"] ELSE done[d]]
  BY <1>5 DEF PromoteDependents
<1> HIDE DEF P
<1>7. ASSUME NEW d \in 1..n
      PROVE  /\ P[d] \in Records /\ P[d].up = T[d].up /\ Told(P[d], G[d])
             /\ Wakes(d) => P[d].status = "ready" /\ done[d].status = "pending"
             /\ ~Wakes(d) => P[d] = done[d]
  <2>1. CASE Wakes(d)
    <3>1. P[d] = [done[d] EXCEPT !.status = "ready"] /\ done[d].status = "pending"
      BY <1>6, <2>1
    <3>2. ASSUME NEW f \in Records
          PROVE  LET r == [f EXCEPT !.status = "ready"] IN
                 r \in Records /\ r.status = "ready" /\ r.up = f.up
      BY DEF Records, Statuses
    <3>3. Told([done[d] EXCEPT !.status = "ready"], G[d])
      BY <1>4, <3>1, WokenTold
    <3> HIDE DEF Wakes
    <3> QED BY <1>4, <2>1, <3>1, <3>2, <3>3
  <2>2. CASE ~Wakes(d)
    <3> HIDE DEF Wakes
    <3> QED BY <1>4, <1>6, <2>2
  <2> QED BY <2>1, <2>2
<1>8. ASSUME NEW d \in 1..n PROVE Rests(P, d)
  <2> SUFFICES ASSUME P[d].status \notin Resting, NEW u \in T[d].up
               PROVE  P[u].status = "succeeded"
    BY <1>7 DEF Rests
  <2>1. u \in 1..n
    BY GoodRow
  <2>2. done[u].status = "succeeded"
    <3>1. CASE Wakes(d)
      <4>1. done[u].status \in UpStatuses(done, done[d].up)
        BY <1>4 DEF UpStatuses
      <4> QED BY <3>1, <4>1
    <3>2. CASE ~Wakes(d)
      <4>1. T[d].status \notin Resting
        <5> HIDE DEF Wakes
        <5> QED BY <1>4, <1>7, <3>2 DEF Resting
      <4>2. T[u].status = "succeeded"
        BY <4>1 DEF Good, Rests
      <4> QED BY <1>4, <2>1, <4>2
    <3> QED BY <3>1, <3>2
  <2> HIDE DEF Wakes
  <2> QED BY <1>7, <2>1, <2>2
<1>9. ASSUME NEW d \in 1..n PROVE Waits(P, d)
  <2> SUFFICES ASSUME P[d].status = "pending"
               PROVE  /\ \E u \in T[d].up : P[u].status # "succeeded"
                      /\ \A u \in T[d].up : P[u].status \notin Unusable
    BY <1>7 DEF Waits
  <2>1. ~Wakes(d) /\ done[d].status = "pending" /\ T[d].status = "pending"
    <3> HIDE DEF Wakes
    <3> QED BY <1>4, <1>7
  <2>2. /\ \E u \in T[d].up : T[u].status # "succeeded"
        /\ \A u \in T[d].up : T[u].status \notin Unusable
    BY <2>1 DEF Good, Waits
  <2>3. \A u \in T[d].up : u \in 1..n
    BY GoodRow
  <2>4. \A u \in T[d].up : P[u].status \in {done[u].status, "ready"}
                           /\ (done[u].status # "succeeded" => P[u].status # "succeeded")
    <3> HIDE DEF Wakes
    <3> QED BY <1>7, <2>3
  <2>5. \A u \in T[d].up : done[u].status \notin Unusable
    BY <1>4, <2>2, <2>3 DEF Unusable
  <2>6. \E u \in T[d].up : done[u].status # "succeeded"
    <3> SUFFICES ASSUME \A u \in T[d].up : done[u].status = "succeeded" PROVE FALSE
      OBVIOUS
    <3>1. PICK u \in T[d].up : T[u].status # "succeeded"
      BY <2>2
    <3>2. u \in ids
      BY <1>4, <2>3, <3>1
    <3>3. d \in Dependents(done, ids)
      BY <1>4, <1>5, <3>2 DEF Dependents
    <3>4. UpStatuses(done, done[d].up) = {"succeeded"}
      <4>1. done[d].up = T[d].up
        BY <1>4
      <4> QED BY <3>1, <4>1, ZenonT(60) DEF UpStatuses
    <3> QED BY <2>1, <3>3, <3>4
  <2> QED BY <2>4, <2>5, <2>6 DEF Unusable
<1>10. P \in [1..n -> Records] /\ \A d \in 1..n : P[d].up \subseteq 1..(d - 1)
  <2>1. P = [d \in 1..n |-> P[d]]
    BY <1>6
  <2>2. \A d \in 1..n : P[d] \in Records
    BY <1>7
  <2>3. P \in [1..n -> Records]
    BY ONLY <2>1, <2>2
  <2>4. \A d \in 1..n : P[d].up \subseteq 1..(d - 1)
    BY <1>7, GoodRow
  <2> QED BY <2>3, <2>4
<1> HIDE DEF Wakes
<1>11. Good(n, P, G)
  BY <1>1, <1>3, <1>7, <1>8, <1>9, <1>10 DEF Good
<1> QED BY <1>11 DEF P, G

\* An invalidation takes everything along that rests on what it takes.
LEMMA InvalidatedGood ==
    ASSUME NEW store, NEW n, Good(n, store.rows, store.attempts), NEW roots
    PROVE  Good(n, InvalidateTree(store, roots).rows, InvalidateTree(store, roots).attempts)
<1> DEFINE T == store.rows
           H == store.attempts
           live == {d \in DOMAIN T : T[d].status # "invalidated"}
           tree == Reached(T, roots, live)
           N == [d \in DOMAIN T |-> IF d \in tree THEN Freed(T[d], "invalidated") ELSE T[d]]
           G == Closed(store, tree, "invalidated")
<1>1. n \in 0..MaxWork /\ n \in Nat /\ DOMAIN T = 1..n /\ T \in [1..n -> Records]
  BY LeaseConstants DEF Good
<1>2. "invalidated" \in Statuses /\ "invalidated" \in Outcomes
  BY DEF Statuses, Outcomes
<1>3. InvalidateTree(store, roots).rows = N /\ InvalidateTree(store, roots).attempts = G
  BY DEF InvalidateTree
<1>4. \A d \in 1..n : d \in tree <=> Leads(T, roots, live, d, tree)
  <2>1. Len(T) = n
    BY <1>1, SequenceOf
  <2>2. Ordered(T) /\ Len(T) \in Nat
    BY <1>1, <2>1, GoodRow DEF Ordered
  <2> QED BY <2>1, <2>2, ReachedIs
<1> HIDE DEF tree
<1>5. /\ G \in [1..n -> Seq(Outcomes)]
      /\ \A d \in 1..n : G[d] = IF d \in tree /\ T[d].status = "running"
                                THEN Shut(H[d], "invalidated") ELSE H[d]
  BY ONLY <1>2, ClosedIs, Good(n, store.rows, store.attempts) DEF G, T, H
<1> HIDE DEF G
<1>6. ASSUME NEW d \in 1..n
      PROVE  /\ N[d] \in Records /\ N[d].up = T[d].up /\ Told(N[d], G[d])
             /\ d \in tree => N[d].status = "invalidated"
             /\ d \notin tree => N[d] = T[d]
  <2>1. CASE d \in tree
    <3>1. N[d] = Freed(T[d], "invalidated")
      BY <1>1, <2>1
    <3>2. Told(Freed(T[d], "invalidated"), G[d])
      <4>1. CASE T[d].status = "running"
        BY <1>5, <2>1, <4>1, GoodRow, EndedTold
      <4>2. CASE T[d].status # "running"
        BY <1>5, <4>2, GoodRow, DroppedTold
      <4> QED BY <4>1, <4>2
    <3> HIDE DEF N
    <3> QED BY <1>2, <2>1, <3>1, <3>2, FreedIs, GoodRow
  <2>2. CASE d \notin tree
    <3>1. N[d] = T[d] /\ G[d] = H[d]
      BY <1>1, <1>5, <2>2
    <3> QED BY <2>2, <3>1, GoodRow
  <2> QED BY <2>1, <2>2
<1>7. N \in [1..n -> Records] /\ \A d \in 1..n : N[d].up \subseteq 1..(d - 1)
  <2>1. N = [d \in 1..n |-> N[d]]
    BY <1>1
  <2>2. \A d \in 1..n : N[d] \in Records
    BY <1>6
  <2>3. \A d \in 1..n : N[d].up \subseteq 1..(d - 1)
    BY <1>6, GoodRow
  <2> HIDE DEF N
  <2> QED BY <2>1, <2>2, <2>3
<1> HIDE DEF N
<1>8. ASSUME NEW d \in 1..n, N[d].status # "invalidated"
      PROVE  N[d] = T[d] /\ \A u \in T[d].up : N[u] = T[u]
  <2>1. d \notin tree /\ N[d] = T[d]
    BY <1>6, <1>8
  <2>2. d \in live
    BY <1>1, <1>8, <2>1
  <2>3. T[d].up \cap tree = {}
    BY <1>4, <2>1, <2>2 DEF Leads
  <2>4. \A u \in T[d].up : u \in 1..n /\ u \notin tree
    BY <2>3, GoodRow
  <2> QED BY <1>6, <2>1, <2>4
<1>9. ASSUME NEW d \in 1..n PROVE Rests(N, d) /\ Waits(N, d)
  <2>1. Rests(T, d) /\ Waits(T, d)
    BY DEF Good
  <2>2. CASE N[d].status = "invalidated"
    BY <2>2 DEF Rests, Waits, Resting
  <2>3. CASE N[d].status # "invalidated"
    <3>1. N[d] = T[d] /\ \A u \in T[d].up : N[u] = T[u]
      BY <1>8, <2>3
    <3> QED BY <2>1, <3>1 DEF Rests, Waits
  <2> QED BY <2>2, <2>3
<1>10. Good(n, N, G)
  BY <1>1, <1>5, <1>6, <1>7, <1>9 DEF Good
<1> QED BY <1>3, <1>10

\* In sound tables nothing is left for the promotion of a claim to do.
LEMMA PromotedIsSame ==
    ASSUME NEW n, NEW T, NEW H, Good(n, T, H)
    PROVE  PromoteReady(T) = T
<1>1. T = [d \in 1..n |-> T[d]] /\ DOMAIN T = 1..n
  BY DEF Good
<1>2. ASSUME NEW d \in 1..n, T[d].status = "pending"
      PROVE  /\ UpStatuses(T, T[d].up) \cap Unusable = {}
             /\ ~(UpStatuses(T, T[d].up) \subseteq {"succeeded"})
  <2>1. Waits(T, d)
    BY DEF Good
  <2> QED BY <1>2, <2>1 DEF Waits, UpStatuses
<1>3. PromoteReady(T) = [d \in 1..n |-> T[d]]
  BY <1>1, <1>2 DEF PromoteReady
<1> QED BY <1>1, <1>3

\* The tables with a record claimed.
Running(T, id, w) ==
    [T EXCEPT ![id].status = "running", ![id].lease = w, ![id].delayed = FALSE]
Opened(H, id) == [H EXCEPT ![id] = Append(@, "running")]

\* A claim opens an attempt of a record that is due.
LEMMA ClaimedGood ==
    ASSUME NEW n, NEW T, NEW H, Good(n, T, H),
           NEW id \in 1..n, T[id].status \in {"ready", "retryable"}, NEW w \in Workers,
           NEW M, M = Running(T, id, w), NEW G, G = Opened(H, id)
    PROVE  Good(n, M, G) /\ Len(H[id]) + 1 \in 1..MaxAttempts
<1> DEFINE row == [T[id] EXCEPT !.status = "running", !.lease = w, !.delayed = FALSE]
           opened == Append(H[id], "running")
<1>1. n \in Nat /\ T \in [1..n -> Records] /\ H \in [1..n -> Seq(Outcomes)]
  BY LeaseConstants DEF Good
<1>2. row \in Records /\ row.status = "running" /\ row.lease = w /\ row.up = T[id].up
  <2>1. ASSUME NEW f \in Records
        PROVE  LET r == [f EXCEPT !.status = "running", !.lease = w, !.delayed = FALSE] IN
               r \in Records /\ r.status = "running" /\ r.lease = w /\ r.up = f.up
    BY DEF Records, Statuses
  <2> QED BY <1>1, <2>1
<1>3. M = [T EXCEPT ![id] = row]
  BY <1>1 DEF Records, Running
<1> HIDE DEF row
<1>4. w # None
  BY LeaseConstants
<1>5. Told(row, opened) /\ opened \in Seq(Outcomes) /\ Len(H[id]) + 1 \in 1..MaxAttempts
  BY <1>2, <1>4, GoodRow, ClaimedTold, LeaseConstants
<1> HIDE DEF opened
<1>6. /\ M \in [1..n -> Records] /\ M[id] = row
      /\ \A d \in 1..n : d # id => M[d] = T[d]
  BY ONLY <1>1, <1>2, <1>3, id \in 1..n
<1>7. /\ G \in [1..n -> Seq(Outcomes)] /\ G[id] = opened
      /\ \A d \in 1..n : d # id => G[d] = H[d]
  <2>1. G = [H EXCEPT ![id] = opened]
    BY DEF opened, Opened
  <2> QED BY <1>1, <1>5, <2>1
<1>8. \A d \in 1..n : Told(M[d], G[d])
  BY <1>5, <1>6, <1>7, GoodRow
<1>9. Ends(n, T, M, {})
  <2>1. \A d \in 1..n : M[d].up = T[d].up
    BY <1>2, <1>6
  <2> QED BY <1>2, <1>6, <2>1 DEF Ends, Due
<1>10. Blocks(n, M, M, {})
  BY <1>1, <1>6, BlocksNone
<1>11. Good(n, M, G)
  BY ONLY Good(n, T, H), <1>7, <1>8, <1>9, <1>10, EndKeeps
<1> QED BY <1>5, <1>11

\* Time only sets the flags of a record.
LEMMA FlagGood ==
    ASSUME NEW n, NEW T, NEW H, Good(n, T, H), NEW id \in 1..n,
           NEW row \in Records, row.status = T[id].status, row.lease = T[id].lease,
           row.up = T[id].up
    PROVE  Good(n, [T EXCEPT ![id] = row], H)
<1> DEFINE M == [T EXCEPT ![id] = row]
<1>1. n \in Nat /\ T \in [1..n -> Records] /\ H \in [1..n -> Seq(Outcomes)]
  BY LeaseConstants DEF Good
<1>2. /\ M \in [1..n -> Records] /\ M[id] = row
      /\ \A d \in 1..n : d # id => M[d] = T[d]
  BY <1>1
<1> HIDE DEF M
<1>3. \A d \in 1..n : Told(M[d], H[d])
  <2>1. Told(row, H[id])
    BY GoodRow, FlagsTold
  <2> QED BY <1>2, <2>1, GoodRow
<1>4. Ends(n, T, M, {})
  <2>1. \A d \in 1..n : M[d].up = T[d].up /\ M[d].status = T[d].status
    BY <1>2
  <2> QED BY <1>2, <2>1 DEF Ends
<1>5. Blocks(n, M, M, {})
  BY <1>1, <1>2, BlocksNone
<1>6. Good(n, M, H)
  BY <1>1, <1>3, <1>4, <1>5, EndKeeps
<1> QED BY <1>6 DEF M

-----------------------------------------------------------------------------
(* The steps *)

LEMMA InitInv ==
    Init => Inv
<1> SUFFICES ASSUME Init PROVE Inv
  OBVIOUS
<1>1. Len(rows) = 0 /\ rows = <<>> /\ attempts = <<>>
  BY DEF Init
<1>2. 1..0 = {} /\ 0 \in 0..MaxWork /\ 0 \in 0..MaxInvalidations /\ 0 \in 0..MaxDetached
  BY LeaseConstants
<1>3. rows \in [1..0 -> Records] /\ attempts \in [1..0 -> Seq(Outcomes)]
  BY <1>1, <1>2
<1>4. Good(Len(rows), rows, attempts)
  BY <1>1, <1>2, <1>3 DEF Good
<1> QED BY <1>2, <1>4 DEF Inv, Init

HeldOver(n) == [Workers -> SUBSET [id : 1..n, attempt : 1..MaxAttempts]]
AttachedOver(n) == [Runs -> SUBSET (1..n)]

\* What the transactions leave is counted as before.
LEMMA InvNext ==
    ASSUME NEW n, Good(n, rows', attempts'), attached' \in AttachedOver(n), held' \in HeldOver(n),
           invalidations' \in 0..MaxInvalidations, detached' \in 0..MaxDetached
    PROVE  Inv'
<1>1. n \in Nat /\ rows' \in [1..n -> Records]
  BY LeaseConstants DEF Good
<1>2. Len(rows') = n
  BY <1>1, SequenceOf
<1>3. Good(Len(rows'), rows', attempts')
  BY <1>2
<1> QED BY <1>2, <1>3 DEF Inv, AttachedOver, HeldOver

\* What the store is before a transaction and after the recovery it begins with.
LEMMA StoreGood ==
    ASSUME Inv
    PROVE  /\ Len(rows) \in Nat /\ Ids = 1..Len(rows)
           /\ Good(Len(rows), Store.rows, Store.attempts)
           /\ Good(Len(rows), Recovered(Store).rows, Recovered(Store).attempts)
           /\ attached \in AttachedOver(Len(rows)) /\ held \in HeldOver(Len(rows))
           /\ \A w \in Workers : \A lease \in held[w] : lease.id \in 1..Len(rows)
<1>1. Good(Len(rows), rows, attempts)
  BY DEF Inv
<1>2. Len(rows) \in Nat /\ Ids = 1..Len(rows)
  BY <1>1, LeaseConstants DEF Good, Ids
<1>3. Good(Len(rows), Store.rows, Store.attempts)
  BY <1>1 DEF Store
<1>4. Good(Len(rows), Recovered(Store).rows, Recovered(Store).attempts)
  BY <1>3, RecoveredGood
<1>5. attached \in AttachedOver(Len(rows)) /\ held \in HeldOver(Len(rows))
  BY DEF Inv, AttachedOver, HeldOver
<1>6. \A w \in Workers : \A lease \in held[w] : lease.id \in 1..Len(rows)
  BY <1>5 DEF HeldOver
<1> QED BY <1>2, <1>3, <1>4, <1>5, <1>6

\* Recovered tables leave the promotion of a claim nothing to do.
LEMMA NothingToPromote ==
    ASSUME Inv
    PROVE  PromoteReady(Recovered(Store).rows) = Recovered(Store).rows
BY StoreGood, PromotedIsSame

\* A claim finds the promoted table to be the recovered one.
LEMMA ClaimStep ==
    ASSUME Inv, NEW w \in Workers, Claim(w) \/ ClaimNothing(w)
    PROVE  Inv'
<1> DEFINE n == Len(rows)
           T == Recovered(Store).rows
           H == Recovered(Store).attempts
<1>1. Good(n, T, H) /\ PromoteReady(T) = T /\ attached \in AttachedOver(n) /\ held \in HeldOver(n)
  BY StoreGood, PromotedIsSame
<1>2. invalidations \in 0..MaxInvalidations /\ detached \in 0..MaxDetached
  BY DEF Inv
<1>3. CASE Claim(w)
  <2>1. PICK id \in attached[RunOf[w]] : Claimed(w, id)
    BY <1>3 DEF Claim
  <2>2. /\ id \in Claimable(T, RunOf[w])
        /\ rows' = Running(T, id, w) /\ attempts' = Opened(H, id)
        /\ held' = [held EXCEPT ![w] = @ \cup {[id |-> id, attempt |-> Len(H[id]) + 1]}]
        /\ UNCHANGED <<attached, invalidations, detached>>
    BY <1>1, <2>1 DEF Claimed, Running, Opened
  <2>3. id \in 1..n /\ T[id].status \in {"ready", "retryable"}
    <3>1. RunOf[w] \in Runs
      BY LeaseConstants
    <3> QED BY <1>1, <2>1, <2>2, <3>1 DEF Claimable, AttachedOver
  <2> HIDE DEF n, T, H
  <2>4. Good(n, rows', attempts') /\ Len(H[id]) + 1 \in 1..MaxAttempts
    BY ONLY <1>1, <2>2, <2>3, w \in Workers, ClaimedGood
  <2>5. held' \in HeldOver(n)
    <3>1. [id |-> id, attempt |-> Len(H[id]) + 1] \in [id : 1..n, attempt : 1..MaxAttempts]
      BY <2>3, <2>4
    <3> QED BY ONLY <1>1, <2>2, <3>1 DEF HeldOver
  <2> QED BY <1>1, <1>2, <2>2, <2>4, <2>5, InvNext
<1>4. CASE ClaimNothing(w)
  <2>1. rows' = T /\ attempts' = H /\ UNCHANGED <<attached, held, invalidations, detached>>
    BY <1>1, <1>4 DEF ClaimNothing
  <2> HIDE DEF n, T, H
  <2> QED BY <1>1, <1>2, <2>1, InvNext
<1> QED BY <1>3, <1>4

\* The recovery by itself, or with a renewal.
LEMMA RecoverStep ==
    ASSUME Inv, Commits(Recovered(Store)), UNCHANGED <<attached, held, invalidations, detached>>
    PROVE  Inv'
<1>1. Good(Len(rows), rows', attempts')
  BY StoreGood DEF Commits
<1> QED BY <1>1, StoreGood, InvNext DEF Inv

LEMMA SucceedStep ==
    ASSUME Inv, NEW w \in Workers, Succeed(w)
    PROVE  Inv'
<1> DEFINE n == Len(rows)
           S == Recovered(Store)
<1>1. PICK batch \in SUBSET held[w] : Succeeded(w, batch)
  BY DEF Succeed
<1> DEFINE ids == {lease.id : lease \in batch}
           done == [d \in DOMAIN S.rows |->
                      IF d \in ids THEN Freed(S.rows[d], "succeeded") ELSE S.rows[d]]
<1>2. /\ \A lease \in batch : Holds(S, w, lease)
      /\ rows' = PromoteDependents(done, ids) /\ attempts' = Closed(S, ids, "succeeded")
      /\ held' = [held EXCEPT ![w] = @ \ batch]
      /\ UNCHANGED <<attached, invalidations, detached>>
  BY <1>1 DEF Succeeded, Commits
<1>3. ids \in SUBSET (1..n) /\ \A id \in ids : S.rows[id].status = "running"
  BY <1>2, StoreGood DEF Holds
<1>4. Good(n, S.rows, S.attempts) /\ attached \in AttachedOver(n) /\ held \in HeldOver(n)
  BY StoreGood
<1> HIDE DEF S, ids, n
<1>5. Good(n, PromoteDependents(done, ids), Closed(S, ids, "succeeded"))
  BY ONLY <1>3, <1>4, SucceededGood DEF done
<1>6. held' \in HeldOver(n)
  BY ONLY <1>2, <1>4 DEF HeldOver
<1> QED BY <1>2, <1>4, <1>5, <1>6, InvNext DEF Inv

LEMMA FailStep ==
    ASSUME Inv, NEW w \in Workers, Fail(w)
    PROVE  Inv'
<1> DEFINE n == Len(rows)
           S == Recovered(Store)
<1>1. PICK lease \in held[w], retryable \in BOOLEAN, later \in BOOLEAN :
        Failed(w, lease, retryable, later)
  BY DEF Fail
<1> DEFINE id == lease.id
           again == retryable /\ CanRetry(S, id)
           delayed == again /\ later
           failed == [S.rows EXCEPT ![id] =
                        [Freed(S.rows[id], IF again THEN "retryable" ELSE "terminal")
                           EXCEPT !.delayed = delayed]]
<1>2. /\ Holds(S, w, lease)
      /\ rows' = IF again THEN failed ELSE BlockDependents(failed, {id})
      /\ attempts' = Closed(S, {id}, IF again THEN "retryable" ELSE "terminal")
      /\ held' = [held EXCEPT ![w] = @ \ {lease}]
      /\ UNCHANGED <<attached, invalidations, detached>>
  BY <1>1 DEF Failed, Commits
<1>3. id \in 1..n /\ S.rows[id].status = "running"
  BY <1>2, StoreGood DEF Holds
<1>4. Good(n, S.rows, S.attempts) /\ attached \in AttachedOver(n) /\ held \in HeldOver(n)
  BY StoreGood
<1>5. again \in BOOLEAN /\ delayed \in BOOLEAN /\ (again => CanRetry(S, id))
  BY DEF CanRetry
<1> HIDE DEF S, id, n, again, delayed
<1>6. Good(n, rows', attempts')
  BY ONLY <1>2, <1>3, <1>4, <1>5, FailedGood DEF failed
<1>7. held' \in HeldOver(n)
  BY ONLY <1>2, <1>4 DEF HeldOver
<1> QED BY <1>2, <1>4, <1>6, <1>7, InvNext DEF Inv

LEMMA InvalidateStep ==
    ASSUME Inv, NEW roots, Invalidated(roots), UNCHANGED held
    PROVE  Inv'
<1>1. Good(Len(rows), rows', attempts') /\ UNCHANGED <<attached, detached>>
  BY StoreGood, InvalidatedGood DEF Invalidated, Commits
<1>2. invalidations' \in 0..MaxInvalidations
  BY LeaseConstants DEF Inv, Invalidated
<1> QED BY <1>1, <1>2, StoreGood, InvNext DEF Inv

\* A new record waits for what it was made from, unless that is all there, or
\* is blocked with it.
LEMMA EnsureStep ==
    ASSUME Inv, NEW r \in Runs, EnsureWork(r)
    PROVE  Inv'
<1> DEFINE n == Len(rows)
<1>1. PICK up \in SUBSET attached[r], kind \in Kinds, id \in 1..(n + 1) : Ensured(r, kind, up, id)
  BY DEF EnsureWork
<1>2. n \in Nat /\ Ids = 1..n /\ Good(n, rows, attempts) /\ attached \in AttachedOver(n)
      /\ held \in HeldOver(n)
  BY StoreGood DEF Inv
<1>3. up \subseteq 1..n
  BY <1>2 DEF AttachedOver
<1>4. /\ attached' = [attached EXCEPT ![r] = @ \cup {id}]
      /\ UNCHANGED <<held, invalidations, detached>>
  BY <1>1 DEF Ensured
<1>5. CASE id \in Current(kind, up) /\ UNCHANGED <<rows, attempts>>
  <2>1. id \in 1..n
    BY <1>2, <1>5 DEF Current
  <2>2. attached' \in AttachedOver(n)
    BY <1>2, <1>4, <2>1 DEF AttachedOver
  <2> QED BY <1>2, <1>4, <1>5, <2>2, InvNext DEF Inv
<1>6. CASE id \notin Current(kind, up) \/ ~UNCHANGED <<rows, attempts>>
  <2> DEFINE row == [kind |-> kind, up |-> up, status |-> InitialStatus(up),
                     lease |-> None, expired |-> FALSE, delayed |-> FALSE]
             m == n + 1
  <2>1. n < MaxWork /\ id = m /\ rows' = Append(rows, row) /\ attempts' = Append(attempts, <<>>)
    BY <1>1, <1>6 DEF Ensured
  <2>2. m \in 0..MaxWork /\ m \in Nat /\ n \in 1..m \cup {0} /\ 1..n \subseteq 1..m /\ 1..m = (1..n) \cup {m}
    BY <1>2, <2>1, LeaseConstants
  <2>3. InitialStatus(up) \in {"blocked", "ready", "pending"}
    BY DEF InitialStatus
  <2>4. row \in Records /\ row.up = up /\ row.status = InitialStatus(up) /\ row.lease = None
    <3>1. up \subseteq 1..MaxWork
      BY <1>3, <2>1, <1>2, LeaseConstants
    <3> QED BY <2>3, <3>1 DEF Records, Statuses
  <2> HIDE DEF row
  <2>5. rows \in Seq(Records) /\ attempts \in Seq(Seq(Outcomes)) /\ Len(attempts) = n
    BY <1>2, SequenceOf DEF Good
  <2>6. /\ rows' \in [1..m -> Records] /\ rows'[m] = row
        /\ \A d \in 1..n : rows'[d] = rows[d]
    <3>1. /\ Append(rows, row) \in Seq(Records) /\ Len(Append(rows, row)) = m
          /\ Append(rows, row)[m] = row
          /\ \A d \in 1..n : Append(rows, row)[d] = rows[d]
      BY <2>4, <2>5, AppendProperties
    <3>2. Append(rows, row) \in [1..m -> Records]
      BY <3>1, LenProperties
    <3> QED BY ONLY <2>1, <3>1, <3>2
  <2>7. /\ attempts' \in [1..m -> Seq(Outcomes)] /\ attempts'[m] = <<>>
        /\ \A d \in 1..n : attempts'[d] = attempts[d]
    <3>1. <<>> \in Seq(Outcomes)
      BY EmptySeq
    <3>2. /\ Append(attempts, <<>>) \in Seq(Seq(Outcomes)) /\ Len(Append(attempts, <<>>)) = m
          /\ Append(attempts, <<>>)[m] = <<>>
          /\ \A d \in 1..n : Append(attempts, <<>>)[d] = attempts[d]
      BY <2>5, <3>1, AppendProperties
    <3>3. Append(attempts, <<>>) \in [1..m -> Seq(Outcomes)]
      BY <3>2, LenProperties
    <3> QED BY ONLY <2>1, <3>2, <3>3
  <2>8. Told(row, <<>>)
    <3>1. Len(<<>>) = 0 /\ <<>> \in Seq(Outcomes) /\ 0 <= MaxAttempts
      BY EmptySeq, LeaseConstants
    <3>2. row.status \in {"blocked", "ready", "pending"}
      BY <2>3, <2>4
    <3> QED BY ONLY <2>4, <3>1, <3>2 DEF Told
  <2>9. ASSUME NEW d \in 1..n PROVE Rests(rows', d) /\ Waits(rows', d)
    <3>1. Rests(rows, d) /\ Waits(rows, d) /\ rows[d].up \subseteq 1..n
      BY <1>2, GoodRow DEF Good
    <3> QED BY <2>6, <3>1 DEF Rests, Waits
  <2>10. Rests(rows', m) /\ Waits(rows', m)
    <3>1. \A u \in up : rows'[u] = rows[u] /\ rows[u].status \in UpStatuses(rows, up)
      BY <1>3, <2>6 DEF UpStatuses
    <3>2. \A x \in UpStatuses(rows, up) : \E u \in up : x = rows[u].status
      BY DEF UpStatuses
    <3>3. CASE InitialStatus(up) = "blocked"
      BY <2>4, <2>6, <3>3 DEF Rests, Waits, Resting
    <3>4. CASE InitialStatus(up) = "ready"
      <4>1. UpStatuses(rows, up) \subseteq {"succeeded"}
        BY <3>4 DEF InitialStatus
      <4> QED BY <2>4, <2>6, <3>1, <3>4, <4>1 DEF Rests, Waits
    <3>5. CASE InitialStatus(up) = "pending"
      <4>1. ~(UpStatuses(rows, up) \subseteq {"succeeded"}) /\ UpStatuses(rows, up) \cap Unusable = {}
        BY <3>5 DEF InitialStatus
      <4> QED BY <2>4, <2>6, <3>1, <3>2, <3>5, <4>1 DEF Rests, Waits, Resting
    <3> QED BY <2>3, <3>3, <3>4, <3>5
  <2>11. \A d \in 1..m : rows'[d].up \subseteq 1..(d - 1)
    <3>1. \A d \in 1..n : rows'[d].up \subseteq 1..(d - 1)
      BY <1>2, <2>6, GoodRow
    <3>2. rows'[m].up \subseteq 1..(m - 1)
      <4>1. m - 1 = n
        BY <1>2
      <4> HIDE DEF m, n
      <4> QED BY <1>3, <2>4, <2>6, <4>1
    <3> QED BY <2>2, <3>1, <3>2
  <2>12. \A d \in 1..m : Told(rows'[d], attempts'[d])
    <3>1. \A d \in 1..n : Told(rows'[d], attempts'[d])
      BY <1>2, <2>6, <2>7, GoodRow
    <3>2. Told(rows'[m], attempts'[m])
      BY <2>6, <2>7, <2>8
    <3> QED BY <2>2, <3>1, <3>2
  <2>13. Good(m, rows', attempts')
    BY <2>2, <2>6, <2>7, <2>9, <2>10, <2>11, <2>12 DEF Good
  <2>14. attached' \in AttachedOver(m) /\ held' \in HeldOver(m)
    <3>1. attached' \in AttachedOver(m)
      BY <1>2, <1>4, <2>1, <2>2 DEF AttachedOver
    <3>2. held' \in HeldOver(m)
      <4>1. [id : 1..n, attempt : 1..MaxAttempts] \subseteq [id : 1..m, attempt : 1..MaxAttempts]
        BY <2>2
      <4> QED BY <1>2, <1>4, <4>1 DEF HeldOver
    <3> QED BY <3>1, <3>2
  <2> QED BY <1>4, <2>13, <2>14, InvNext DEF Inv
<1> QED BY <1>5, <1>6

\* A worker that drops its leases, and a record taken out of a Run, leave the
\* tables alone.
LEMMA QuietStep ==
    ASSUME Inv, (\E w \in Workers : LoseLease(w) \/ Crash(w)) \/ (\E r \in Runs : Detach(r))
    PROVE  Inv'
<1>1. /\ Good(Len(rows), rows, attempts) /\ attached \in AttachedOver(Len(rows))
      /\ held \in HeldOver(Len(rows))
      /\ invalidations \in 0..MaxInvalidations /\ detached \in 0..MaxDetached
  BY StoreGood DEF Inv
<1>2. CASE \E w \in Workers : LoseLease(w) \/ Crash(w)
  <2>1. PICK w \in Workers : LoseLease(w) \/ Crash(w)
    BY <1>2
  <2>2. held' \in HeldOver(Len(rows))
    BY <1>1, <2>1 DEF LoseLease, Crash, HeldOver
  <2> QED BY <1>1, <2>1, <2>2, InvNext DEF LoseLease, Crash
<1>3. CASE \E r \in Runs : Detach(r)
  <2>1. PICK r \in Runs : Detach(r)
    BY <1>3
  <2>2. attached' \in AttachedOver(Len(rows)) /\ UNCHANGED <<rows, attempts, held, invalidations>>
    BY <1>1, <2>1 DEF Detach, AttachedOver
  <2>3. detached' \in 0..MaxDetached
    BY <1>1, <2>1, LeaseConstants DEF Detach
  <2> QED BY <1>1, <2>2, <2>3, InvNext
<1> QED BY <1>2, <1>3

LEMMA TimeStep ==
    ASSUME Inv, LeaseExpires \/ DelayPasses
    PROVE  Inv'
<1>1. /\ Good(Len(rows), rows, attempts) /\ attached \in AttachedOver(Len(rows))
      /\ held \in HeldOver(Len(rows)) /\ Ids = 1..Len(rows)
      /\ invalidations \in 0..MaxInvalidations /\ detached \in 0..MaxDetached
  BY StoreGood DEF Inv
<1>2. PICK id \in Ids : \/ rows' = [rows EXCEPT ![id].expired = TRUE]
                        \/ rows' = [rows EXCEPT ![id].delayed = FALSE]
  BY DEF LeaseExpires, DelayPasses
<1>3. UNCHANGED <<attempts, attached, held, invalidations, detached>>
  BY DEF LeaseExpires, DelayPasses
<1>4. rows \in [1..Len(rows) -> Records]
  BY <1>1 DEF Good
<1>5. ASSUME NEW f \in Records, NEW new,
             new = [f EXCEPT !.expired = TRUE] \/ new = [f EXCEPT !.delayed = FALSE]
      PROVE  new \in Records /\ new.status = f.status /\ new.lease = f.lease /\ new.up = f.up
  BY <1>5 DEF Records
<1>6. PICK row \in Records : /\ rows' = [rows EXCEPT ![id] = row]
                             /\ row.status = rows[id].status /\ row.lease = rows[id].lease
                             /\ row.up = rows[id].up
  <2>1. CASE rows' = [rows EXCEPT ![id].expired = TRUE]
    <3>1. rows' = [rows EXCEPT ![id] = [rows[id] EXCEPT !.expired = TRUE]]
      BY <1>4, <2>1
    <3> QED BY <1>1, <1>4, <1>5, <3>1
  <2>2. CASE rows' = [rows EXCEPT ![id].delayed = FALSE]
    <3>1. rows' = [rows EXCEPT ![id] = [rows[id] EXCEPT !.delayed = FALSE]]
      BY <1>4, <2>2
    <3> QED BY <1>1, <1>4, <1>5, <3>1
  <2> QED BY <1>2, <2>1, <2>2
<1>7. Good(Len(rows), rows', attempts)
  BY <1>1, <1>6, FlagGood
<1> QED BY <1>1, <1>3, <1>7, InvNext

-----------------------------------------------------------------------------
(* The theorems *)

\* One step of whoever is at work.
LEMMA InvStep ==
    ASSUME Inv, [Next]_vars
    PROVE  Inv'
<1>1. CASE \E w \in Workers : Claim(w) \/ ClaimNothing(w)
  BY <1>1, ClaimStep
<1>2. CASE RecoverExpired \/ \E w \in Workers : Renew(w)
  BY <1>2, RecoverStep DEF RecoverExpired, Renew
<1>3. CASE \E w \in Workers : Succeed(w)
  BY <1>3, SucceedStep
<1>4. CASE \E w \in Workers : Fail(w)
  BY <1>4, FailStep
<1>5. CASE (\E w \in Workers : LoseLease(w) \/ Crash(w)) \/ \E r \in Runs : Detach(r)
  BY <1>5, QuietStep
<1>6. CASE Invalidate \/ \E r \in Runs : Rebuild(r)
  BY <1>6, InvalidateStep DEF Invalidate, Rebuild
<1>7. CASE LeaseExpires \/ DelayPasses
  BY <1>7, TimeStep
<1>8. CASE \E r \in Runs : EnsureWork(r)
  BY <1>8, EnsureStep
<1>9. CASE UNCHANGED vars
  BY <1>9, StoreGood, InvNext DEF vars, Inv
<1> QED BY <1>1, <1>2, <1>3, <1>4, <1>5, <1>6, <1>7, <1>8, <1>9 DEF Next

\* The tables stay sound, whatever the workers, the Runs and the clock do.
THEOREM Correct ==
    Spec => []Inv
BY InitInv, InvStep, PTL DEF Spec

\* What the invariant says of the types.
LEMMA InvTypes ==
    ASSUME Inv
    PROVE  TypeOK
<1>1. Good(Len(rows), rows, attempts) /\ Len(rows) \in Nat /\ Len(rows) <= MaxWork
  BY LeaseConstants DEF Inv, Good
<1>2. rows \in Seq(Records) /\ attempts \in Seq(Seq(Outcomes)) /\ Len(attempts) = Len(rows)
  BY <1>1, SequenceOf DEF Good
<1>3. \A id \in Ids : Len(attempts[id]) <= MaxAttempts
  BY <1>1, StoreGood, GoodRow DEF Told
<1>4. 1..Len(rows) \subseteq 1..MaxWork
  BY <1>1, LeaseConstants
<1>5. attached \in [Runs -> SUBSET (1..MaxWork)]
  BY <1>4 DEF Inv
<1>6. held \in [Workers -> SUBSET Leases]
  <2>1. [id : 1..Len(rows), attempt : 1..MaxAttempts] \subseteq Leases
    BY <1>4 DEF Leases
  <2> QED BY <2>1 DEF Inv
<1> QED BY <1>1, <1>2, <1>3, <1>5, <1>6 DEF TypeOK, Inv

\* The tables have their types: no record is attempted more often than its
\* policy allows (_work_sqlite.py:220-330, 1102-1160).
THEOREM TypeCorrect ==
    Spec => []TypeOK
<1>1. Inv => TypeOK
  BY InvTypes
<1> QED BY <1>1, Correct, PTL

LEMMA InvInputs ==
    ASSUME Inv
    PROVE  InputsHold
<1> SUFFICES ASSUME NEW id \in Ids PROVE Rests(rows, id)
  BY DEF InputsHold, Rests, Resting
<1> QED BY StoreGood DEF Inv, Good

\* Nothing is offered, run or kept over something that is gone: no failure,
\* expiry or invalidation, in whichever Run, leaves a Work behind that rests on
\* what it took (_invalidation.py:13-78, _work_sqlite.py:1203-1233).
THEOREM InputsAlwaysHold ==
    Spec => []InputsHold
<1>1. Inv => InputsHold
  BY InvInputs
<1> QED BY <1>1, Correct, PTL

\* No Work waits for ever on what can no longer come, and none is left asleep
\* by the transaction that brought the last thing it waited for
\* (_work_sqlite.py:1186-1233).
THEOREM WaitingCanEnd ==
    Spec => []PendingCanEnd
<1>1. Inv => PendingCanEnd
  <2> SUFFICES ASSUME Inv, NEW id \in Ids PROVE Waits(rows, id)
    BY DEF PendingCanEnd, Waits
  <2> QED BY StoreGood DEF Inv, Good
<1> QED BY <1>1, Correct, PTL

\* The status of a record and the entries of its attempts never contradict
\* each other, however late the report of an owner that has lost its lease
\* (_work_sqlite.py:424-630, 1102-1160, 1267).
THEOREM HistoryAlwaysAgrees ==
    Spec => []HistoryAgrees
<1>1. Inv => HistoryAgrees
  <2> SUFFICES ASSUME Inv PROVE HistoryAgrees
    OBVIOUS
  <2>1. \A id \in Ids : Told(rows[id], attempts[id])
    BY StoreGood, GoodRow DEF Inv
  <2> QED BY <2>1 DEF HistoryAgrees, Told, Lasts
<1> QED BY <1>1, Correct, PTL

-----------------------------------------------------------------------------
(* One record for each description *)

\* What no transaction does to a record: it stays what it is, and invalidated
\* if it is.
Keeps(n, T, M) ==
    /\ DOMAIN M = DOMAIN T
    /\ \A d \in 1..n :
         /\ M[d].kind = T[d].kind /\ M[d].up = T[d].up
         /\ T[d].status = "invalidated" => M[d].status = "invalidated"

LEMMA KeepsOn ==
    ASSUME NEW n, NEW T, NEW M, NEW N, Keeps(n, T, M), Keeps(n, M, N)
    PROVE  Keeps(n, T, N)
BY DEF Keeps

LEMMA BlockingKeeps ==
    ASSUME NEW n, NEW M \in [1..n -> Records], NEW E
    PROVE  Keeps(n, M, BlockDependents(M, E))
<1> DEFINE D == Downstream(M, E)
<1>1. BlockDependents(M, E) =
        [d \in 1..n |-> IF d \in D /\ M[d].status \in {"pending", "ready"}
                        THEN [M[d] EXCEPT !.status = "blocked"] ELSE M[d]]
  BY DEF BlockDependents
<1> HIDE DEF D
<1>2. ASSUME NEW f \in Records
      PROVE  [f EXCEPT !.status = "blocked"].kind = f.kind /\ [f EXCEPT !.status = "blocked"].up = f.up
  BY DEF Records
<1> QED BY <1>1, <1>2 DEF Keeps

LEMMA RecoveringKeeps ==
    ASSUME NEW store, NEW n, Good(n, store.rows, store.attempts)
    PROVE  Keeps(n, store.rows, Recovered(store).rows)
<1> DEFINE T == store.rows
           gone == {d \in DOMAIN T : T[d].status = "running" /\ T[d].expired}
           spent == {d \in gone : ~CanRetry(store, d)}
           freed == [d \in DOMAIN T |-> IF d \in spent THEN Freed(T[d], "terminal")
                                        ELSE IF d \in gone THEN Freed(T[d], "retryable")
                                        ELSE T[d]]
<1>1. T \in [1..n -> Records] /\ DOMAIN T = 1..n
  BY DEF Good
<1>2. Recovered(store).rows = BlockDependents(freed, spent)
  BY DEF Recovered
<1>3. \A d \in 1..n : d \in gone => T[d].status = "running"
  BY <1>1
<1>4. \A d \in spent : d \in gone
  OBVIOUS
<1>5. freed = [d \in 1..n |-> IF d \in spent THEN Freed(T[d], "terminal")
                              ELSE IF d \in gone THEN Freed(T[d], "retryable")
                              ELSE T[d]]
  BY <1>1
<1> HIDE DEF gone, spent, freed
<1>6. ASSUME NEW d \in 1..n
      PROVE  /\ freed[d] \in Records /\ freed[d].kind = T[d].kind /\ freed[d].up = T[d].up
             /\ T[d].status = "invalidated" => freed[d] = T[d]
  <2>1. "terminal" \in Statuses /\ "retryable" \in Statuses
    BY DEF Statuses
  <2>2. freed[d] \in {Freed(T[d], "terminal"), Freed(T[d], "retryable"), T[d]}
    BY <1>5
  <2>3. T[d].status = "invalidated" => freed[d] = T[d]
    BY <1>3, <1>4, <1>5
  <2>4. T[d] \in Records
    BY <1>1
  <2>5. ASSUME NEW status \in {"terminal", "retryable"}
        PROVE  Freed(T[d], status) \in Records /\ Freed(T[d], status).kind = T[d].kind
               /\ Freed(T[d], status).up = T[d].up
    BY <2>1, <2>4, FreedIs
  <2> QED BY <2>2, <2>3, <2>4, <2>5
<1>7. freed \in [1..n -> Records]
  BY <1>5, <1>6
<1>8. Keeps(n, T, freed)
  BY <1>1, <1>5, <1>6 DEF Keeps
<1> QED BY <1>2, <1>7, <1>8, BlockingKeeps, KeepsOn

LEMMA PromotingKeeps ==
    ASSUME NEW n, NEW M \in [1..n -> Records], NEW ids
    PROVE  Keeps(n, M, PromoteDependents(M, ids))
<1>1. ASSUME NEW f \in Records
      PROVE  [f EXCEPT !.status = "ready"].kind = f.kind /\ [f EXCEPT !.status = "ready"].up = f.up
  BY DEF Records
<1>2. ASSUME NEW d \in 1..n
      PROVE  \/ PromoteDependents(M, ids)[d] = M[d]
             \/ /\ M[d].status = "pending"
                /\ PromoteDependents(M, ids)[d] = [M[d] EXCEPT !.status = "ready"]
  BY DEF PromoteDependents
<1>3. DOMAIN PromoteDependents(M, ids) = DOMAIN M
  BY DEF PromoteDependents
<1> QED BY <1>1, <1>2, <1>3 DEF Keeps

\* A record that was not invalidated, replaced by one of the same description.
LEMMA ReplacingKeeps ==
    ASSUME NEW n, NEW M \in [1..n -> Records], NEW id \in 1..n, NEW row,
           row.kind = M[id].kind, row.up = M[id].up,
           M[id].status # "invalidated" \/ row.status = M[id].status
    PROVE  Keeps(n, M, [M EXCEPT ![id] = row])
BY DEF Keeps

\* The records a transaction starts from keep their descriptions, and there are
\* no others unless it is a demand.
LEMMA StepKeeps ==
    ASSUME Inv, [Next]_vars
    PROVE  Keeps(Len(rows), rows, rows') \/ \E r \in Runs : EnsureWork(r) /\ ~UNCHANGED rows
<1> DEFINE n == Len(rows)
           S == Recovered(Store)
<1>1. /\ n \in Nat /\ Ids = 1..n /\ rows \in [1..n -> Records] /\ Good(n, S.rows, S.attempts)
      /\ S.rows \in [1..n -> Records] /\ PromoteReady(S.rows) = S.rows
      /\ attached \in AttachedOver(n)
      /\ \A w \in Workers : \A lease \in held[w] : lease.id \in 1..n
  <2>1. Good(n, S.rows, S.attempts)
    BY StoreGood
  <2>2. PromoteReady(S.rows) = S.rows
    BY <2>1, PromotedIsSame
  <2> QED BY <2>1, <2>2, StoreGood DEF Inv, Good
<1>2. Keeps(n, rows, S.rows)
  <2>1. Good(n, Store.rows, Store.attempts)
    BY StoreGood
  <2>2. Keeps(n, Store.rows, S.rows)
    BY <2>1, RecoveringKeeps
  <2> QED BY <2>2 DEF Store
<1> HIDE DEF S, n
<1>3. ASSUME Keeps(n, S.rows, rows') PROVE Keeps(n, rows, rows')
  BY <1>2, <1>3, KeepsOn
<1>4. ASSUME UNCHANGED rows PROVE Keeps(n, rows, rows')
  BY <1>4 DEF Keeps
<1>5. ASSUME rows' = S.rows PROVE Keeps(n, rows, rows')
  BY <1>2, <1>5
<1>6. ASSUME NEW w \in Workers, Claim(w) PROVE Keeps(n, rows, rows')
  <2>1. PICK id \in attached[RunOf[w]] : Claimed(w, id)
    BY <1>6 DEF Claim
  <2>2. S.rows[id].status \in {"ready", "retryable"} /\ id \in 1..n
    <3>1. id \in Claimable(S.rows, RunOf[w])
      BY <1>1, <2>1 DEF Claimed, S
    <3>2. RunOf[w] \in Runs
      BY LeaseConstants
    <3> QED BY <1>1, <2>1, <3>1, <3>2 DEF Claimable, AttachedOver
  <2> DEFINE row == [S.rows[id] EXCEPT !.status = "running", !.lease = w, !.delayed = FALSE]
  <2>3. row.kind = S.rows[id].kind /\ row.up = S.rows[id].up
    BY <1>1, <2>2 DEF Records
  <2>4. rows' = [S.rows EXCEPT ![id] = row]
    <3>1. rows' = [S.rows EXCEPT ![id].status = "running", ![id].lease = w, ![id].delayed = FALSE]
      BY <1>1, <2>1 DEF Claimed, S
    <3> QED BY <1>1, <2>2, <3>1 DEF Records
  <2> HIDE DEF row
  <2>5. Keeps(n, S.rows, rows')
    BY <1>1, <2>2, <2>3, <2>4, ReplacingKeeps
  <2> QED BY <1>3, <2>5
<1>7. ASSUME NEW w \in Workers, ClaimNothing(w) PROVE Keeps(n, rows, rows')
  BY <1>1, <1>5, <1>7 DEF ClaimNothing, S
<1>8. ASSUME RecoverExpired \/ \E w \in Workers : Renew(w) PROVE Keeps(n, rows, rows')
  BY <1>5, <1>8 DEF RecoverExpired, Renew, Commits, S
<1>9. ASSUME NEW w \in Workers, Succeed(w) PROVE Keeps(n, rows, rows')
  <2>1. PICK batch \in SUBSET held[w] : Succeeded(w, batch)
    BY <1>9 DEF Succeed
  <2> DEFINE ids == {lease.id : lease \in batch}
             done == [d \in DOMAIN S.rows |->
                        IF d \in ids THEN Freed(S.rows[d], "succeeded") ELSE S.rows[d]]
  <2>2. rows' = PromoteDependents(done, ids) /\ \A id \in ids : S.rows[id].status = "running"
    BY <2>1 DEF Succeeded, Holds, Commits, S
  <2>3. done = [d \in 1..n |-> IF d \in ids THEN Freed(S.rows[d], "succeeded") ELSE S.rows[d]]
    BY <1>1
  <2> HIDE DEF ids, done
  <2>4. ASSUME NEW d \in 1..n
        PROVE  /\ done[d] \in Records /\ done[d].kind = S.rows[d].kind /\ done[d].up = S.rows[d].up
               /\ S.rows[d].status = "invalidated" => done[d] = S.rows[d]
    <3>1. "succeeded" \in Statuses /\ S.rows[d] \in Records
      BY <1>1 DEF Statuses
    <3>2. CASE d \in ids
      BY <2>2, <2>3, <3>1, <3>2, FreedIs
    <3>3. CASE d \notin ids
      BY <2>3, <3>1, <3>3
    <3> QED BY <3>2, <3>3
  <2>5. done \in [1..n -> Records] /\ Keeps(n, S.rows, done)
    BY <1>1, <2>3, <2>4 DEF Keeps
  <2> QED BY <1>3, <2>2, <2>5, PromotingKeeps, KeepsOn
<1>10. ASSUME NEW w \in Workers, Fail(w) PROVE Keeps(n, rows, rows')
  <2>1. PICK lease \in held[w], retryable \in BOOLEAN, later \in BOOLEAN :
          Failed(w, lease, retryable, later)
    BY <1>10 DEF Fail
  <2> DEFINE id == lease.id
             again == retryable /\ CanRetry(S, id)
             status == IF again THEN "retryable" ELSE "terminal"
             row == [Freed(S.rows[id], status) EXCEPT !.delayed = again /\ later]
             failed == [S.rows EXCEPT ![id] = row]
  <2>2. rows' = (IF again THEN failed ELSE BlockDependents(failed, {id}))
        /\ S.rows[id].status = "running" /\ id \in 1..n
    BY <1>1, <2>1 DEF Failed, Holds, Commits, S
  <2>3. status \in Statuses /\ (again /\ later) \in BOOLEAN
    BY DEF Statuses, CanRetry
  <2> HIDE DEF id, again, status
  <2>4. row \in Records /\ row.kind = S.rows[id].kind /\ row.up = S.rows[id].up
    <3>1. ASSUME NEW f \in Records
          PROVE  LET r == [f EXCEPT !.delayed = again /\ later] IN
                 r \in Records /\ r.kind = f.kind /\ r.up = f.up
      BY <2>3 DEF Records
    <3>2. /\ Freed(S.rows[id], status) \in Records
          /\ Freed(S.rows[id], status).kind = S.rows[id].kind
          /\ Freed(S.rows[id], status).up = S.rows[id].up
      BY <1>1, <2>2, <2>3, FreedIs
    <3> QED BY <3>1, <3>2
  <2> HIDE DEF row
  <2>5. failed \in [1..n -> Records] /\ Keeps(n, S.rows, failed)
    BY <1>1, <2>2, <2>4, ReplacingKeeps
  <2> HIDE DEF failed
  <2>6. Keeps(n, failed, BlockDependents(failed, {id}))
    BY <2>5, BlockingKeeps
  <2> QED BY <1>3, <2>2, <2>5, <2>6, KeepsOn
<1>11. ASSUME NEW roots, Invalidated(roots) PROVE Keeps(n, rows, rows')
  <2> DEFINE live == {d \in DOMAIN rows : rows[d].status # "invalidated"}
             tree == Reached(rows, roots, live)
  <2>1. rows' = [d \in DOMAIN rows |-> IF d \in tree THEN Freed(rows[d], "invalidated") ELSE rows[d]]
    BY <1>11 DEF Invalidated, InvalidateTree, Store, Commits
  <2> HIDE DEF tree
  <2>2. ASSUME NEW d \in 1..n
        PROVE  /\ rows'[d].kind = rows[d].kind /\ rows'[d].up = rows[d].up
               /\ rows[d].status = "invalidated" => rows'[d].status = "invalidated"
    <3>1. "invalidated" \in Statuses /\ rows[d] \in Records
      BY <1>1 DEF Statuses
    <3>2. rows'[d] = Freed(rows[d], "invalidated") \/ rows'[d] = rows[d]
      BY <1>1, <2>1
    <3> QED BY <3>1, <3>2, FreedIs
  <2> QED BY <1>1, <2>1, <2>2 DEF Keeps
<1>12. ASSUME LeaseExpires \/ DelayPasses PROVE Keeps(n, rows, rows')
  <2>1. PICK id \in 1..n : \/ rows' = [rows EXCEPT ![id].expired = TRUE]
                           \/ rows' = [rows EXCEPT ![id].delayed = FALSE]
    BY <1>1, <1>12 DEF LeaseExpires, DelayPasses
  <2>2. ASSUME NEW f \in Records, NEW new,
               new = [f EXCEPT !.expired = TRUE] \/ new = [f EXCEPT !.delayed = FALSE]
        PROVE  new.status = f.status /\ new.kind = f.kind /\ new.up = f.up
    BY <2>2 DEF Records
  <2>3. PICK row : /\ rows' = [rows EXCEPT ![id] = row] /\ row.status = rows[id].status
                   /\ row.kind = rows[id].kind /\ row.up = rows[id].up
    <3>1. \/ rows' = [rows EXCEPT ![id] = [rows[id] EXCEPT !.expired = TRUE]]
          \/ rows' = [rows EXCEPT ![id] = [rows[id] EXCEPT !.delayed = FALSE]]
      BY <1>1, <2>1
    <3>2. rows[id] \in Records
      BY <1>1
    <3> QED BY <2>2, <3>1, <3>2
  <2> QED BY <1>1, <2>3, ReplacingKeeps
<1> QED
  BY <1>4, <1>6, <1>7, <1>8, <1>9, <1>10, <1>11, <1>12
  DEF Next, vars, LoseLease, Crash, Detach, Invalidate, Rebuild, n

\* A record once there stays there, of its kind.
LEMMA KindsStay ==
    ASSUME Inv, [Next]_vars, NEW id \in Ids
    PROVE  id \in Ids' /\ rows'[id].kind = rows[id].kind
<1>1. Len(rows) \in Nat /\ Ids = 1..Len(rows) /\ DOMAIN rows = 1..Len(rows)
  BY StoreGood DEF Ids
<1>2. CASE Keeps(Len(rows), rows, rows')
  BY <1>1, <1>2 DEF Keeps, Ids
<1>3. CASE \E row : rows' = Append(rows, row)
  BY <1>1, <1>3 DEF Ids
<1> QED BY <1>2, <1>3, StepKeeps DEF EnsureWork, Ensured

\* A demand makes a record only of a description that has none.
LEMMA NewRecord ==
    ASSUME Inv, NEW r \in Runs, EnsureWork(r), ~UNCHANGED rows
    PROVE  \E row : /\ rows' = Append(rows, row)
                    /\ row.up \subseteq Ids
                    /\ {rows[u].kind : u \in row.up} \in Inputs[row.kind]
                    /\ Current(row.kind, row.up) = {}
<1>1. PICK up \in SUBSET attached[r], kind \in Kinds, id \in 1..(Len(rows) + 1) : Ensured(r, kind, up, id)
  BY DEF EnsureWork
<1> DEFINE row == [kind |-> kind, up |-> up, status |-> InitialStatus(up),
                   lease |-> None, expired |-> FALSE, delayed |-> FALSE]
<1>2. /\ {rows[u].kind : u \in up} \in Inputs[kind] /\ Current(kind, up) = {}
      /\ rows' = Append(rows, row)
  BY <1>1 DEF Ensured
<1>3. up \subseteq Ids
  BY StoreGood DEF AttachedOver
<1>4. row.kind = kind /\ row.up = up
  OBVIOUS
<1> HIDE DEF row
<1> QED BY <1>2, <1>3, <1>4

LEMMA OneCurrentStep ==
    ASSUME Inv, OneCurrent, [Next]_vars
    PROVE  OneCurrent'
<1> DEFINE n == Len(rows)
<1>1. /\ n \in Nat /\ Ids = 1..n /\ rows \in [1..n -> Records] /\ rows \in Seq(Records)
      /\ \A d \in 1..n : rows[d].up \subseteq 1..n
  BY StoreGood, GoodRow, SequenceOf DEF Inv, Good
<1>2. Ids' = 1..Len(rows') /\ Len(rows') \in Nat
  BY InvStep, LeaseConstants DEF Inv, Good, Ids
<1> HIDE DEF n
<1>3. CASE Keeps(n, rows, rows')
  <2>1. Ids' = 1..n
    BY <1>1, <1>3 DEF Keeps, Ids
  <2> SUFFICES ASSUME NEW d \in 1..n
               PROVE  /\ {rows'[u].kind : u \in rows'[d].up} \in Inputs[rows'[d].kind]
                      /\ rows'[d].status # "invalidated" => Current(rows[d].kind, rows[d].up)' = {d}
    BY <1>3, <2>1 DEF OneCurrent, Keeps
  <2>2. {rows[u].kind : u \in rows[d].up} \in Inputs[rows[d].kind]
    BY <1>1 DEF OneCurrent
  <2>3. {rows'[u].kind : u \in rows'[d].up} = {rows[u].kind : u \in rows[d].up}
    <3>1. \A u \in rows[d].up : rows'[u].kind = rows[u].kind
      BY <1>1, <1>3 DEF Keeps
    <3>2. rows'[d].up = rows[d].up
      BY <1>3 DEF Keeps
    <3> QED BY <3>1, <3>2
  <2>4. rows'[d].kind = rows[d].kind /\ rows'[d].up = rows[d].up
    BY <1>3 DEF Keeps
  <2>5. Current(rows[d].kind, rows[d].up)' \subseteq Current(rows[d].kind, rows[d].up)
    BY <1>1, <1>3, <2>1 DEF Keeps, Current
  <2>6. ASSUME rows'[d].status # "invalidated"
        PROVE  /\ d \in Current(rows[d].kind, rows[d].up)'
               /\ Current(rows[d].kind, rows[d].up) = {d}
    BY <1>1, <1>3, <2>1, <2>4, <2>6 DEF Keeps, Current, OneCurrent
  <2> QED BY <2>2, <2>3, <2>4, <2>5, <2>6
<1>4. ASSUME NEW row, rows' = Append(rows, row), row.up \subseteq Ids,
             {rows[u].kind : u \in row.up} \in Inputs[row.kind], Current(row.kind, row.up) = {}
      PROVE  OneCurrent'
  <2> DEFINE m == n + 1
  <2>1. /\ Len(rows') = m /\ rows'[m] = row /\ 1..m = (1..n) \cup {m} /\ m \notin 1..n
        /\ \A d \in 1..n : rows'[d] = rows[d]
    BY <1>1, <1>4
  <2> HIDE DEF m
  <2>2. {rows'[u].kind : u \in row.up} = {rows[u].kind : u \in row.up}
    BY <1>1, <1>4, <2>1
  <2>3. ASSUME NEW e \in 1..n, rows'[e].status # "invalidated"
        PROVE  ~(rows'[e].kind = row.kind /\ rows'[e].up = row.up)
    BY <1>1, <1>4, <2>1, <2>3 DEF Current
  <2>4. ASSUME NEW d \in 1..m, NEW e \in 1..m, rows'[d].status # "invalidated",
               rows'[e].status # "invalidated",
               rows'[e].kind = rows'[d].kind, rows'[e].up = rows'[d].up
        PROVE  e = d
    <3>1. CASE d \in 1..n /\ e \in 1..n
      <4>1. e \in Current(rows[d].kind, rows[d].up) /\ Current(rows[d].kind, rows[d].up) = {d}
        BY <1>1, <2>1, <2>4, <3>1 DEF OneCurrent, Current
      <4> QED BY <4>1
    <3>2. CASE d = m \/ e = m
      BY <2>1, <2>3, <2>4, <3>2
    <3> QED BY <2>1, <3>1, <3>2
  <2>5. ASSUME NEW d \in 1..m PROVE {rows'[u].kind : u \in rows'[d].up} \in Inputs[rows'[d].kind]
    <3>1. CASE d = m
      BY <1>4, <2>1, <2>2, <3>1
    <3>2. CASE d \in 1..n
      <4>1. {rows[u].kind : u \in rows[d].up} \in Inputs[rows[d].kind]
        BY <1>1, <3>2 DEF OneCurrent
      <4>2. {rows'[u].kind : u \in rows[d].up} = {rows[u].kind : u \in rows[d].up}
        <5>1. \A u \in rows[d].up : rows'[u] = rows[u]
          BY <1>1, <2>1, <3>2
        <5> QED BY <5>1
      <4> QED BY <2>1, <3>2, <4>1, <4>2
    <3> QED BY <2>1, <3>1, <3>2
  <2>6. ASSUME NEW d \in 1..m, rows'[d].status # "invalidated"
        PROVE  {e \in 1..m : /\ rows'[e].kind = rows'[d].kind /\ rows'[e].up = rows'[d].up
                             /\ rows'[e].status # "invalidated"} = {d}
    BY <2>4, <2>6
  <2> QED BY <1>2, <2>1, <2>5, <2>6 DEF OneCurrent, Current
<1>5. CASE \E r \in Runs : EnsureWork(r) /\ ~UNCHANGED rows
  BY <1>4, <1>5, NewRecord
<1> QED BY <1>3, <1>5, StepKeeps DEF n

\* Of all the records that describe the same Work one is not invalidated,
\* whoever demands it and however often it is invalidated
\* (_work_sqlite.py:148-218, _working_schema.py:212).
THEOREM DescriptionsAreUnique ==
    Spec => []OneCurrent
<1>1. Init => OneCurrent
  BY DEF Init, OneCurrent, Ids
<1>2. Inv /\ OneCurrent /\ [Next]_vars => OneCurrent'
  BY OneCurrentStep
<1> QED BY <1>1, <1>2, Correct, PTL DEF Spec

-----------------------------------------------------------------------------
(* What a transaction on one record leaves alone *)

\* Nothing is below no record.
LEMMA NothingBelow ==
    ASSUME NEW n \in Nat, NEW M \in [1..n -> Records], \A d \in 1..n : M[d].up \subseteq 1..(d - 1)
    PROVE  BlockDependents(M, {}) = M
<1> DEFINE D == Downstream(M, {})
<1>1. Len(M) = n /\ DOMAIN M = 1..n
  BY SequenceOf
<1>2. D \subseteq 1..n /\ \A d \in 1..n : d \in D <=> Leads(M, Dependents(M, {}), 1..n, d, D)
  <2>1. Ordered(M) /\ Len(M) \in Nat
    BY <1>1 DEF Ordered
  <2> QED BY <1>1, <2>1, ReachedIs DEF Downstream
<1>3. BlockDependents(M, {}) = [d \in 1..n |-> IF d \in D /\ M[d].status \in {"pending", "ready"}
                                             THEN [M[d] EXCEPT !.status = "blocked"] ELSE M[d]]
  BY <1>1 DEF BlockDependents
<1> HIDE DEF D
<1>4. D = {}
  <2> SUFFICES ASSUME D # {} PROVE FALSE
    OBVIOUS
  <2>1. PICK m \in D : \A k \in D : m <= k
    BY <1>2, LeastNumber
  <2>2. m \in 1..n /\ Dependents(M, {}) = {}
    BY <1>2, <2>1 DEF Dependents
  <2>3. PICK u \in M[m].up : u \in D
    BY <1>2, <2>1, <2>2 DEF Leads
  <2> QED BY <2>1, <2>2, <2>3
<1> QED BY <1>3, <1>4

\* A blockage reaches only what waits: what is due has its inputs.
LEMMA OnlyWaitingIsBlocked ==
    ASSUME NEW n \in Nat, NEW M \in [1..n -> Records], NEW E,
           \A d \in 1..n : M[d].up \subseteq 1..(d - 1), \A d \in 1..n : Rests(M, d),
           \A d \in 1..n : d \in E => M[d].status # "succeeded"
    PROVE  \A d \in 1..n :
             /\ M[d].status \notin Resting => BlockDependents(M, E)[d] = M[d]
             /\ BlockDependents(M, E)[d].expired = M[d].expired
<1> DEFINE D == Downstream(M, E)
           T == {d \in D : M[d].status \notin Resting}
<1>1. Len(M) = n /\ DOMAIN M = 1..n
  BY SequenceOf
<1>2. D \subseteq 1..n /\ \A d \in 1..n : d \in D <=> Leads(M, Dependents(M, E), 1..n, d, D)
  <2>1. Ordered(M) /\ Len(M) \in Nat
    BY <1>1 DEF Ordered
  <2> QED BY <1>1, <2>1, ReachedIs DEF Downstream
<1>3. BlockDependents(M, E) = [d \in 1..n |-> IF d \in D /\ M[d].status \in {"pending", "ready"}
                                             THEN [M[d] EXCEPT !.status = "blocked"] ELSE M[d]]
  BY <1>1 DEF BlockDependents
<1> HIDE DEF D
<1>4. T = {}
  <2> SUFFICES ASSUME T # {} PROVE FALSE
    OBVIOUS
  <2>1. T \in SUBSET Nat
    <3>1. T \subseteq D
      OBVIOUS
    <3>2. D \in SUBSET (1..n)
      BY <1>2
    <3> HIDE DEF T
    <3> QED BY <3>1, <3>2
  <2>2. PICK m \in T : \A k \in T : m <= k
    BY <2>1, LeastNumber
  <2>3. m \in 1..n /\ M[m].status \notin Resting /\ m \in D
    BY <1>2, <2>2
  <2>4. PICK u \in M[m].up : u \in E \/ u \in D
    BY <1>1, <1>2, <2>3 DEF Leads, Dependents
  <2>5. M[u].status = "succeeded" /\ u \in 1..(m - 1) /\ u \in 1..n
    BY <2>3 DEF Rests
  <2>6. u \in T
    BY <2>4, <2>5 DEF Resting
  <2> QED BY <2>2, <2>3, <2>5, <2>6
<1>5. ASSUME NEW f \in Records
      PROVE  LET g == [f EXCEPT !.status = "blocked"] IN g.expired = f.expired
  BY DEF Records
<1> QED BY <1>3, <1>4, <1>5 DEF Resting

LEMMA NothingExpired ==
    ASSUME Inv, \A d \in Ids : ~rows[d].expired
    PROVE  Recovered(Store) = Store
<1>1. /\ Len(rows) \in Nat /\ DOMAIN rows = 1..Len(rows) /\ rows \in [1..Len(rows) -> Records]
      /\ attempts \in [1..Len(rows) -> Seq(Outcomes)]
      /\ \A d \in 1..Len(rows) : rows[d].up \subseteq 1..(d - 1)
  BY StoreGood DEF Inv, Good, Store
<1> DEFINE gone == {d \in DOMAIN rows : rows[d].status = "running" /\ rows[d].expired}
           spent == {d \in gone : ~CanRetry(Store, d)}
           freed == [d \in DOMAIN rows |-> IF d \in spent THEN Freed(rows[d], "terminal")
                                           ELSE IF d \in gone THEN Freed(rows[d], "retryable")
                                           ELSE rows[d]]
<1>2. gone = {} /\ spent = {}
  BY DEF Ids
<1>3. Recovered(Store) = [rows |-> BlockDependents(freed, spent),
                          attempts |-> Closed(Store, gone, "expired")]
  BY DEF Recovered, Store
<1> HIDE DEF gone, spent
<1>4. freed = rows
  BY <1>1, <1>2
<1> HIDE DEF freed
<1>5. BlockDependents(rows, {}) = rows
  BY <1>1, NothingBelow
<1>6. Closed(Store, {}, "expired") = attempts
  BY <1>1 DEF Closed, Store
<1> QED BY <1>2, <1>3, <1>4, <1>5, <1>6 DEF Store

\* Of the other records a step touches at most what waits, to wake or to block it.
OnlyTouches(id) ==
    /\ Ids' = Ids
    /\ \A d \in Ids \ {id} :
         /\ rows[d].status \notin Resting => rows'[d] = rows[d] /\ attempts'[d] = attempts[d]
         /\ rows'[d].expired = rows[d].expired

LEMMA ClaimTouches ==
    ASSUME Inv, NEW w \in Workers, NEW id, Recovered(Store) = Store, Claimed(w, id)
    PROVE  /\ OnlyTouches(id)
           /\ rows'[id].status = "running" /\ rows'[id].lease = w /\ rows'[id].expired = rows[id].expired
           /\ Len(attempts'[id]) = Len(attempts[id]) + 1
           /\ held' = [held EXCEPT ![w] = @ \cup {[id |-> id, attempt |-> Len(attempts[id]) + 1]}]
<1>1. /\ Len(rows) \in Nat /\ Ids = 1..Len(rows) /\ rows \in [1..Len(rows) -> Records]
      /\ attempts \in [1..Len(rows) -> Seq(Outcomes)] /\ attached \in AttachedOver(Len(rows))
      /\ Store.rows = rows /\ Store.attempts = attempts /\ PromoteReady(rows) = rows
  BY StoreGood, NothingToPromote DEF Inv, Good, Store
<1>2. /\ id \in Claimable(rows, RunOf[w])
      /\ rows' = [rows EXCEPT ![id].status = "running", ![id].lease = w, ![id].delayed = FALSE]
      /\ attempts' = [attempts EXCEPT ![id] = Append(@, "running")]
      /\ held' = [held EXCEPT ![w] = @ \cup {[id |-> id, attempt |-> Len(attempts[id]) + 1]}]
  BY <1>1 DEF Claimed
<1>3. id \in 1..Len(rows)
  BY <1>1, <1>2, LeaseConstants DEF Claimable, AttachedOver
<1>4. /\ rows'[id].status = "running" /\ rows'[id].lease = w /\ rows'[id].expired = rows[id].expired
      /\ \A d \in 1..Len(rows) : d # id => rows'[d] = rows[d]
      /\ DOMAIN rows' = DOMAIN rows
  BY <1>1, <1>2, <1>3 DEF Records
<1>5. /\ Len(attempts'[id]) = Len(attempts[id]) + 1
      /\ \A d \in 1..Len(rows) : d # id => attempts'[d] = attempts[d]
  BY <1>1, <1>2, <1>3
<1> QED BY <1>1, <1>2, <1>4, <1>5 DEF OnlyTouches, Ids

LEMMA SucceedTouches ==
    ASSUME Inv, NEW w \in Workers, NEW lease \in held[w], Recovered(Store) = Store,
           Succeeded(w, {lease})
    PROVE  /\ OnlyTouches(lease.id)
           /\ rows'[lease.id].status = "succeeded" /\ ~rows'[lease.id].expired
           /\ held' = [held EXCEPT ![w] = @ \ {lease}]
<1> DEFINE n == Len(rows)
           id == lease.id
           done == [d \in DOMAIN rows |-> IF d \in {id} THEN Freed(rows[d], "succeeded") ELSE rows[d]]
<1>1. /\ n \in Nat /\ Ids = 1..n /\ DOMAIN rows = 1..n /\ rows \in [1..n -> Records] /\ id \in 1..n
      /\ attempts \in [1..n -> Seq(Outcomes)] /\ Store.rows = rows /\ Store.attempts = attempts
  BY StoreGood DEF Inv, Good, Store
<1>2. /\ {l.id : l \in {lease}} = {id}
      /\ rows' = PromoteDependents(done, {id})
      /\ attempts' = Closed(Store, {id}, "succeeded")
      /\ held' = [held EXCEPT ![w] = @ \ {lease}]
  <2>1. {l.id : l \in {lease}} = {id}
    OBVIOUS
  <2> QED BY <1>1, <2>1 DEF Succeeded, Commits
<1>3. /\ Freed(rows[id], "succeeded").status = "succeeded"
      /\ Freed(rows[id], "succeeded").expired = FALSE
  BY <1>1 DEF Freed, Records
<1>4. /\ DOMAIN done = 1..n /\ done[id] = Freed(rows[id], "succeeded")
      /\ \A d \in 1..n : d # id => done[d] = rows[d]
  BY <1>1
<1> HIDE DEF done, n
<1>5. ASSUME NEW d \in 1..n
      PROVE  \/ rows'[d] = done[d]
             \/ done[d].status = "pending" /\ rows'[d] = [done[d] EXCEPT !.status = "ready"]
  BY <1>2, <1>4 DEF PromoteDependents
<1>6. Ids' = 1..n
  BY <1>2, <1>4 DEF Ids, PromoteDependents
<1>7. rows'[id].status = "succeeded" /\ ~rows'[id].expired
  BY <1>1, <1>3, <1>4, <1>5
<1>8. ASSUME NEW f \in Records
      PROVE  LET g == [f EXCEPT !.status = "ready"] IN g.expired = f.expired
  BY DEF Records
<1>9. ASSUME NEW d \in 1..n, d # id
      PROVE  /\ rows[d].status \notin Resting => rows'[d] = rows[d]
             /\ rows'[d].expired = rows[d].expired
  <2>1. done[d] = rows[d] /\ rows[d] \in Records
    BY <1>1, <1>4, <1>9
  <2>2. CASE rows'[d] = done[d]
    BY <2>1, <2>2
  <2>3. CASE done[d].status = "pending" /\ rows'[d] = [done[d] EXCEPT !.status = "ready"]
    <3>1. rows'[d].expired = rows[d].expired
      BY <1>8, <2>1, <2>3
    <3> QED BY <2>1, <2>3, <3>1 DEF Resting
  <2> QED BY <1>5, <2>2, <2>3
<1>10. ASSUME NEW d \in 1..n, d # id PROVE attempts'[d] = attempts[d]
  BY <1>1, <1>2, <1>10 DEF Closed
<1> QED BY <1>1, <1>2, <1>6, <1>7, <1>9, <1>10 DEF OnlyTouches

LEMMA FailTouches ==
    ASSUME Inv, NEW w \in Workers, NEW lease \in held[w], NEW retryable \in BOOLEAN,
           Recovered(Store) = Store, Failed(w, lease, retryable, FALSE)
    PROVE  /\ OnlyTouches(lease.id)
           /\ rows'[lease.id].status \in {"retryable", "terminal"} /\ ~rows'[lease.id].expired
           /\ held' = [held EXCEPT ![w] = @ \ {lease}]
<1> DEFINE n == Len(rows)
           id == lease.id
           again == retryable /\ CanRetry(Store, id)
           status == IF again THEN "retryable" ELSE "terminal"
           row == [Freed(rows[id], status) EXCEPT !.delayed = again /\ FALSE]
           failed == [rows EXCEPT ![id] = row]
<1>1. /\ n \in Nat /\ Ids = 1..n /\ DOMAIN rows = 1..n /\ rows \in [1..n -> Records] /\ id \in 1..n
      /\ attempts \in [1..n -> Seq(Outcomes)] /\ Store.rows = rows /\ Store.attempts = attempts
      /\ \A d \in 1..n : rows[d].up \subseteq 1..(d - 1) /\ Rests(rows, d)
  BY StoreGood DEF Inv, Good, Store
<1>2. /\ rows[id].status = "running"
      /\ rows' = (IF again THEN failed ELSE BlockDependents(failed, {id}))
      /\ attempts' = Closed(Store, {id}, status)
      /\ held' = [held EXCEPT ![w] = @ \ {lease}]
  BY <1>1 DEF Failed, Commits, Holds
<1>3. status \in {"retryable", "terminal"}
  OBVIOUS
<1> HIDE DEF again, status, n
<1>4. row \in Records /\ row.status = status /\ row.expired = FALSE /\ row.up = rows[id].up
  <2>1. /\ Freed(rows[id], status) \in Records /\ Freed(rows[id], status).status = status
        /\ Freed(rows[id], status).up = rows[id].up
    BY <1>1, <1>3, FreedIs DEF Statuses
  <2>2. Freed(rows[id], status).expired = FALSE
    BY <1>1 DEF Freed, Records
  <2>3. ASSUME NEW f \in Records
        PROVE  LET r == [f EXCEPT !.delayed = again /\ FALSE] IN
               r \in Records /\ r.status = f.status /\ r.up = f.up /\ r.expired = f.expired
    BY DEF Records
  <2> QED BY <2>1, <2>2, <2>3
<1> HIDE DEF row
<1>5. /\ failed \in [1..n -> Records] /\ failed[id] = row
      /\ \A d \in 1..n : d # id => failed[d] = rows[d]
  BY <1>1, <1>4
<1> HIDE DEF failed
<1>6. \A d \in 1..n : failed[d].up \subseteq 1..(d - 1)
  BY <1>1, <1>4, <1>5
<1>7. ASSUME NEW d \in 1..n PROVE Rests(failed, d)
  <2> SUFFICES ASSUME failed[d].status \notin Resting, NEW u \in failed[d].up
               PROVE  failed[u].status = "succeeded"
    BY DEF Rests
  <2>1. rows[d].status \notin Resting /\ u \in rows[d].up
    BY <1>2, <1>4, <1>5 DEF Resting
  <2>2. rows[u].status = "succeeded" /\ u \in 1..n
    BY <1>1, <2>1 DEF Rests
  <2> QED BY <1>2, <1>5, <2>2
<1>8. ASSUME NEW d \in 1..n
      PROVE  /\ failed[d].status \notin Resting => rows'[d] = failed[d]
             /\ rows'[d].expired = failed[d].expired
  <2>1. CASE again
    BY <1>2, <2>1
  <2>2. CASE ~again
    <3>1. \A e \in 1..n : e \in {id} => failed[e].status # "succeeded"
      BY <1>3, <1>4, <1>5
    <3>2. n \in Nat /\ failed \in [1..n -> Records] /\ \A e \in 1..n : Rests(failed, e)
      BY <1>1, <1>5, <1>7
    <3>3. \A e \in 1..n :
            /\ failed[e].status \notin Resting => BlockDependents(failed, {id})[e] = failed[e]
            /\ BlockDependents(failed, {id})[e].expired = failed[e].expired
      BY <1>6, <3>1, <3>2, OnlyWaitingIsBlocked
    <3> QED BY <1>2, <2>2, <3>3
  <2> QED BY <2>1, <2>2
<1>9. rows'[id].status = status /\ ~rows'[id].expired
  BY <1>1, <1>3, <1>4, <1>5, <1>8 DEF Resting
<1>10. Ids' = 1..n
  <2>1. DOMAIN failed = 1..n
    BY <1>5
  <2> QED BY <1>2, <2>1 DEF Ids, BlockDependents
<1>11. ASSUME NEW d \in 1..n, d # id PROVE attempts'[d] = attempts[d]
  BY <1>1, <1>2, <1>11 DEF Closed
<1>12. ASSUME NEW d \in 1..n, d # id
       PROVE  /\ rows[d].status \notin Resting => rows'[d] = rows[d]
              /\ rows'[d].expired = rows[d].expired
  BY <1>5, <1>8, <1>12
<1> QED BY <1>1, <1>2, <1>3, <1>9, <1>10, <1>11, <1>12 DEF OnlyTouches

=============================================================================
