-------------------------- MODULE GeoCalls_proofs --------------------------
(***************************************************************************)
(* However an execution ends, its account is true: theorems about GeoCalls *)
(* for any number of invocations, requests, authorizations and coordinates *)
(* and for any ceilings.                                                   *)
(***************************************************************************)
EXTENDS GeoCalls, FiniteSetTheorems, NaturalsInduction, WellFoundedInduction, TLAPS

\* A set of numbers has a least one.
LEMMA LeastOf ==
    ASSUME NEW T \in SUBSET Nat, T # {}
    PROVE  \E m \in T : \A k \in T : m <= k
<1>1. PICK m \in T : \A k \in T : <<k, m>> \notin OpToRel(<, Nat)
  BY NatLessThanWellFounded, WFMin
<1>2. ASSUME NEW k \in T PROVE m <= k
  <2>1. k \in Nat /\ m \in Nat
    OBVIOUS
  <2>2. ~(k < m)
    BY <1>1, <2>1 DEF OpToRel
  <2> QED BY <2>1, <2>2
<1> QED BY <1>2

-----------------------------------------------------------------------------
(* What the journal has reserved, as a table of rows is written.           *)

Tables == [Requests -> Seq(Rows)]

\* The units from one on to another of one reservation.
Block(r, i, low, high) == {<<r, i, n>> : n \in (low + 1)..high}

\* A block has as many units as it is long.
LEMMA BlockCounts ==
    ASSUME NEW r, NEW i, NEW low \in Nat, NEW high \in Nat, low <= high
    PROVE  IsFiniteSet(Block(r, i, low, high)) /\ Cardinality(Block(r, i, low, high)) = high - low
<1> DEFINE N == (low + 1)..high
           f == [n \in N |-> <<r, i, n>>]
<1>1. IsFiniteSet(N) /\ Cardinality(N) = high - low
  <2>1. low + 1 \in Int /\ high \in Int
    OBVIOUS
  <2>2. IsFiniteSet(N) /\ Cardinality(N) = IF low + 1 > high THEN 0 ELSE high - (low + 1) + 1
    BY <2>1, FS_Interval
  <2> QED BY <2>2
<1>2. f \in Bijection(N, Block(r, i, low, high))
  <2>1. f \in [N -> Block(r, i, low, high)]
    BY DEF Block
  <2>2. \A m, n \in N : f[m] = f[n] => m = n
    OBVIOUS
  <2>3. \A t \in Block(r, i, low, high) : \E n \in N : f[n] = t
    BY DEF Block
  <2> HIDE DEF N, f
  <2> QED BY <2>1, <2>2, <2>3 DEF Bijection, Injection, Surjection, IsInjective
<1> QED BY <1>1, <1>2, FS_Bijection DEF ExistsBijection

\* The units reserved, one by one.
LEMMA ReservedUnits ==
    ASSUME NEW table, NEW ids, NEW t
    PROVE  t \in Reserved(table, ids) <=>
             \E r \in ids : \E i \in DOMAIN table[r] : \E n \in 1..table[r][i].reserved : t = <<r, i, n>>
BY DEF Reserved, Spent

\* The units of more requests are more.
LEMMA ReservedGrows ==
    ASSUME NEW table, NEW ids, NEW more, ids \subseteq more
    PROVE  Reserved(table, ids) \subseteq Reserved(table, more)
BY ReservedUnits

\* One row is added to those of a request, and nothing else changes.
Appended(table, later, r, row) ==
    LET last == Len(table[r]) + 1
    IN /\ \A s \in Requests \ {r} : later[s] = table[s]
       /\ DOMAIN later[r] = DOMAIN table[r] \cup {last} /\ last \notin DOMAIN table[r]
       /\ later[r][last] = row /\ \A i \in DOMAIN table[r] : later[r][i] = table[r][i]

\* A reservation that is appended adds its units to those of its request.
LEMMA ReservedAppended ==
    ASSUME NEW table \in Tables, NEW r \in Requests, NEW row, row.reserved \in Nat,
           NEW later, Appended(table, later, r, row), NEW ids \in SUBSET Requests
    PROVE  /\ r \in ids => Reserved(later, ids) =
                 Reserved(table, ids) \cup Block(r, Len(table[r]) + 1, 0, row.reserved)
           /\ r \notin ids => Reserved(later, ids) = Reserved(table, ids)
           /\ Reserved(table, ids) \cap Block(r, Len(table[r]) + 1, 0, row.reserved) = {}
<1> DEFINE last == Len(table[r]) + 1
<1>1. \A s \in Requests \ {r} : later[s] = table[s]
  BY DEF Appended
<1>2. /\ DOMAIN later[r] = DOMAIN table[r] \cup {last} /\ last \notin DOMAIN table[r]
      /\ later[r][last] = row /\ \A i \in DOMAIN table[r] : later[r][i] = table[r][i]
  BY DEF Appended
<1>3. ASSUME NEW t PROVE t \in Reserved(later, ids) <=> t \in Reserved(table, ids) \/ (r \in ids /\ t \in Block(r, last, 0, row.reserved))
  <2> DEFINE Of(tab, s) == \E i \in DOMAIN tab[s] : \E n \in 1..tab[s][i].reserved : t = <<s, i, n>>
  <2>1. t \in Block(r, last, 0, row.reserved) <=> \E n \in 1..row.reserved : t = <<r, last, n>>
    BY DEF Block
  <2>2. ASSUME NEW s \in ids, s # r
        PROVE  Of(later, s) <=> Of(table, s)
    BY <1>1, <2>2
  <2>3. Of(later, r) <=> Of(table, r) \/ \E n \in 1..row.reserved : t = <<r, last, n>>
    BY <1>2, Zenon
  <2>4. t \in Reserved(later, ids) <=> \E s \in ids : Of(later, s)
    BY ReservedUnits
  <2>5. t \in Reserved(table, ids) <=> \E s \in ids : Of(table, s)
    BY ReservedUnits
  <2> HIDE DEF last, Of
  <2> QED BY <2>1, <2>2, <2>3, <2>4, <2>5, Zenon
<1>4. ASSUME NEW t \in Reserved(table, ids) PROVE t \notin Block(r, last, 0, row.reserved)
  <2>1. PICK s \in ids : \E i \in DOMAIN table[s] : \E n \in 1..table[s][i].reserved : t = <<s, i, n>>
    BY ReservedUnits
  <2> QED BY <2>1, <1>2 DEF Block
<1> HIDE DEF last
<1>5. Reserved(table, ids) \cap Block(r, last, 0, row.reserved) = {}
  BY <1>4, Zenon
<1>6. r \in ids => Reserved(later, ids) = Reserved(table, ids) \cup Block(r, last, 0, row.reserved)
  BY <1>3
<1>7. r \notin ids => Reserved(later, ids) = Reserved(table, ids)
  BY <1>3
<1> QED BY <1>5, <1>6, <1>7 DEF last

\* One reservation becomes what was used of it, and no other row changes its own.
Lowered(table, later, r, i, used) ==
    /\ \A s \in Requests \ {r} : later[s] = table[s]
    /\ DOMAIN later[r] = DOMAIN table[r]
    /\ later[r][i].reserved = used
    /\ \A j \in DOMAIN table[r] \ {i} : later[r][j] = table[r][j]

\* A reservation that is lowered gives back the units above what was used.
LEMMA ReservedLowered ==
    ASSUME NEW table \in Tables, NEW r \in Requests, NEW i \in DOMAIN table[r], NEW used \in Nat,
           table[r][i].reserved \in Nat, used <= table[r][i].reserved,
           NEW later, Lowered(table, later, r, i, used), NEW ids \in SUBSET Requests
    PROVE  /\ r \in ids => Reserved(table, ids) =
                 Reserved(later, ids) \cup Block(r, i, used, table[r][i].reserved)
           /\ r \notin ids => Reserved(later, ids) = Reserved(table, ids)
           /\ Reserved(later, ids) \cap Block(r, i, used, table[r][i].reserved) = {}
<1> DEFINE was == table[r][i].reserved
<1>1. \A s \in Requests \ {r} : later[s] = table[s]
  BY DEF Lowered
<1>2. /\ DOMAIN later[r] = DOMAIN table[r]
      /\ later[r][i].reserved = used /\ \A j \in DOMAIN table[r] \ {i} : later[r][j] = table[r][j]
  BY DEF Lowered
<1>3. ASSUME NEW n PROVE n \in 1..was <=> n \in 1..used \/ n \in (used + 1)..was
  OBVIOUS
<1>4. ASSUME NEW t PROVE t \in Reserved(table, ids) <=> t \in Reserved(later, ids) \/ (r \in ids /\ t \in Block(r, i, used, was))
  <2> DEFINE Of(tab, s) == \E j \in DOMAIN tab[s] : \E n \in 1..tab[s][j].reserved : t = <<s, j, n>>
  <2>1. t \in Block(r, i, used, was) <=> \E n \in (used + 1)..was : t = <<r, i, n>>
    BY DEF Block
  <2>2. ASSUME NEW s \in ids, s # r
        PROVE  Of(later, s) <=> Of(table, s)
    BY <1>1, <2>2
  <2>3. Of(table, r) <=> Of(later, r) \/ \E n \in (used + 1)..was : t = <<r, i, n>>
    <3> HIDE DEF was
    <3>1. was = table[r][i].reserved
      BY DEF was
    <3> DEFINE At(tab, j) == \E n \in 1..tab[r][j].reserved : t = <<r, j, n>>
    <3>2. At(table, i) <=> At(later, i) \/ \E n \in (used + 1)..was : t = <<r, i, n>>
      BY <1>2, <1>3, <3>1, Zenon
    <3>3. \A j \in DOMAIN table[r] \ {i} : At(table, j) <=> At(later, j)
      BY <1>2
    <3>4. (Of(table, r) <=> \E j \in DOMAIN table[r] : At(table, j))
          /\ (Of(later, r) <=> \E j \in DOMAIN table[r] : At(later, j))
      BY <1>2
    <3> HIDE DEF At, Of
    <3> QED BY <3>2, <3>3, <3>4
  <2>4. t \in Reserved(later, ids) <=> \E s \in ids : Of(later, s)
    BY ReservedUnits
  <2>5. t \in Reserved(table, ids) <=> \E s \in ids : Of(table, s)
    BY ReservedUnits
  <2> HIDE DEF was, Of
  <2> QED BY <2>1, <2>2, <2>3, <2>4, <2>5, Zenon
<1>5. ASSUME NEW t \in Reserved(later, ids) PROVE t \notin Block(r, i, used, was)
  <2>1. PICK s \in ids : \E j \in DOMAIN later[s] : \E n \in 1..later[s][j].reserved : t = <<s, j, n>>
    BY ReservedUnits
  <2> QED BY <2>1, <1>2 DEF Block
<1> HIDE DEF was
<1>6. Reserved(later, ids) \cap Block(r, i, used, was) = {}
  BY <1>5, Zenon
<1>7. r \in ids => Reserved(table, ids) = Reserved(later, ids) \cup Block(r, i, used, was)
  BY <1>4
<1>8. r \notin ids => Reserved(later, ids) = Reserved(table, ids)
  BY <1>4
<1> QED BY <1>6, <1>7, <1>8 DEF was

\* The reservations of some requests, counted before and after an append.
LEMMA AppendedCounts ==
    ASSUME NEW table \in Tables, IsFiniteSet(Reserved(table, Requests)), NEW r \in Requests, NEW row,
           row.reserved \in Nat, NEW later, Appended(table, later, r, row)
    PROVE  /\ IsFiniteSet(Reserved(later, Requests))
           /\ \A ids \in SUBSET Requests :
                Cardinality(Reserved(later, ids)) =
                  Cardinality(Reserved(table, ids)) + (IF r \in ids THEN row.reserved ELSE 0)
<1> DEFINE B == Block(r, Len(table[r]) + 1, 0, row.reserved)
<1>0. Len(table[r]) + 1 \in Nat
  BY DEF Tables
<1>1. IsFiniteSet(B) /\ Cardinality(B) = row.reserved
  BY BlockCounts, <1>0, 0 \in Nat
<1>2. \A ids \in SUBSET Requests : IsFiniteSet(Reserved(table, ids)) /\ Cardinality(Reserved(table, ids)) \in Nat
  BY ReservedGrows, FS_Subset, FS_CardinalityType
<1>3. \A ids \in SUBSET Requests :
        /\ r \in ids => Reserved(later, ids) = Reserved(table, ids) \cup B
        /\ r \notin ids => Reserved(later, ids) = Reserved(table, ids)
        /\ Reserved(table, ids) \cap B = {}
  <2> TAKE ids \in SUBSET Requests
  <2> QED BY ReservedAppended
<1> HIDE DEF B
<1>4. IsFiniteSet(Reserved(later, Requests))
  <2>1. Reserved(later, Requests) = Reserved(table, Requests) \cup B
    BY <1>3
  <2> QED BY <1>1, <2>1, FS_Union
<1>5. ASSUME NEW ids \in SUBSET Requests
      PROVE  Cardinality(Reserved(later, ids)) =
               Cardinality(Reserved(table, ids)) + (IF r \in ids THEN row.reserved ELSE 0)
  <2>1. CASE r \in ids
    <3>1. Cardinality(Reserved(table, ids) \cup B) = Cardinality(Reserved(table, ids)) + Cardinality(B) - Cardinality(Reserved(table, ids) \cap B)
      BY <1>1, <1>2, FS_Union
    <3>2. Cardinality(Reserved(table, ids) \cap B) = 0
      BY <1>3, FS_EmptySet
    <3>3. Reserved(later, ids) = Reserved(table, ids) \cup B
      BY <2>1, <1>3
    <3>4. Cardinality(Reserved(table, ids)) \in Nat
      BY <1>2
    <3> QED BY <2>1, <3>1, <3>2, <3>3, <3>4, <1>1
  <2>2. CASE r \notin ids
    <3>1. Reserved(later, ids) = Reserved(table, ids) /\ Cardinality(Reserved(table, ids)) \in Nat
      BY <2>2, <1>2, <1>3
    <3> QED BY <2>2, <3>1
  <2> QED BY <2>1, <2>2
<1> QED BY <1>4, <1>5

\* The same, of a reservation that is lowered.
LEMMA LoweredCounts ==
    ASSUME NEW table \in Tables, IsFiniteSet(Reserved(table, Requests)), NEW r \in Requests,
           NEW i \in DOMAIN table[r], NEW used \in Nat,
           table[r][i].reserved \in Nat, used <= table[r][i].reserved,
           NEW later, Lowered(table, later, r, i, used)
    PROVE  /\ IsFiniteSet(Reserved(later, Requests))
           /\ \A ids \in SUBSET Requests :
                Cardinality(Reserved(table, ids)) =
                  Cardinality(Reserved(later, ids)) + (IF r \in ids THEN table[r][i].reserved - used ELSE 0)
<1> DEFINE was == table[r][i].reserved
           B == Block(r, i, used, was)
<1>1. IsFiniteSet(B) /\ Cardinality(B) = was - used
  BY BlockCounts
<1>3. \A ids \in SUBSET Requests :
        /\ r \in ids => Reserved(table, ids) = Reserved(later, ids) \cup B
        /\ r \notin ids => Reserved(later, ids) = Reserved(table, ids)
        /\ Reserved(later, ids) \cap B = {}
  <2> TAKE ids \in SUBSET Requests
  <2> QED BY ReservedLowered
<1>5. was - used \in Nat
  OBVIOUS
<1> HIDE DEF B, was
<1>4. IsFiniteSet(Reserved(later, Requests))
  <2>1. Reserved(later, Requests) \subseteq Reserved(table, Requests)
    BY <1>3
  <2> QED BY <2>1, FS_Subset
<1>2. \A ids \in SUBSET Requests : IsFiniteSet(Reserved(later, ids)) /\ Cardinality(Reserved(later, ids)) \in Nat
  BY <1>4, ReservedGrows, FS_Subset, FS_CardinalityType
<1>6. ASSUME NEW ids \in SUBSET Requests
      PROVE  Cardinality(Reserved(table, ids)) = Cardinality(Reserved(later, ids)) + (IF r \in ids THEN was - used ELSE 0)
  <2>1. CASE r \in ids
    <3>1. Cardinality(Reserved(later, ids) \cup B) = Cardinality(Reserved(later, ids)) + Cardinality(B) - Cardinality(Reserved(later, ids) \cap B)
      BY <1>1, <1>2, FS_Union
    <3>2. Cardinality(Reserved(later, ids) \cap B) = 0
      BY <1>3, FS_EmptySet
    <3>3. Reserved(table, ids) = Reserved(later, ids) \cup B
      BY <2>1, <1>3
    <3>4. Cardinality(Reserved(later, ids)) \in Nat
      BY <1>2
    <3> QED BY <2>1, <3>1, <3>2, <3>3, <3>4, <1>1, <1>5
  <2>2. CASE r \notin ids
    <3>1. Reserved(later, ids) = Reserved(table, ids) /\ Cardinality(Reserved(table, ids)) \in Nat
      BY <2>2, <1>2, <1>3
    <3> QED BY <2>2, <3>1
  <2> QED BY <2>1, <2>2
<1> QED BY <1>4, <1>6 DEF was

\* Requests without rows have reserved nothing, whoever they are counted with.
LEMMA NothingReserved ==
    ASSUME NEW table, NEW ids, NEW r, table[r] = <<>>
    PROVE  Reserved(table, {r}) = {} /\ Reserved(table, ids \cup {r}) = Reserved(table, ids)
<1>1. DOMAIN table[r] = {}
  OBVIOUS
<1>2. ASSUME NEW t PROVE t \notin Reserved(table, {r})
  BY <1>1, ReservedUnits
<1>3. ASSUME NEW t PROVE t \in Reserved(table, ids \cup {r}) <=> t \in Reserved(table, ids)
  BY <1>1, ReservedUnits
<1> QED BY <1>2, <1>3

-----------------------------------------------------------------------------
(* The invariant, part by part.                                            *)

\* What a request has reserved, and the last request of a chain of recoveries.
Mine(r) == Cardinality(Reserved(rows, {r}))

Tip(r) == Known(r) /\ \A s \in Requests : Known(s) => request[s].prior # r

\* A recovery is of a request that was concluded, and belongs to its root.
Linked(r) ==
    LET root == request[r].root
        prior == request[r].prior
    IN /\ Known(root) /\ request[root].root = root /\ request[root].prior = None
       /\ prior = None => root = r
       /\ prior # None => /\ Closed(prior) /\ request[prior].root = root
                          /\ request[r].baseline = 0
       /\ request[r].closed <=> request[r].result # None

Families ==
    /\ \A r \in Requests : Known(r) => Linked(r)
    /\ \A r \in Requests : ~Known(r) => rows[r] = <<>>
    /\ \A r, s \in Requests : Tip(r) /\ Tip(s) /\ request[r].root = request[s].root => r = s

Open(r, i) == rows[r][i].outcome = "open"
NoneOpen(r) == \A i \in DOMAIN rows[r] : ~Open(r, i)

\* Evidence of a point, in the result that is recovered or as the last row about it.
Success(r, i) == rows[r][i].outcome = "success"

Has(r, k) ==
    Before(r).status[k] = "success" \/ \E i \in DOMAIN rows[r] : rows[r][i].k = k /\ Success(r, i)

Evident(r) ==
    \A i \in DOMAIN rows[r] :
        /\ Before(r).status[rows[r][i].k] # "success"
        /\ \A j \in DOMAIN rows[r] : rows[r][j].k = rows[r][i].k /\ Success(r, j) => i <= j

Evidences == \A r \in Requests : Known(r) => Evident(r)

\* An invocation before its admission: what it took from the result it recovers.
FitsNew(c) ==
    LET prior == call[c].auth.prior
    IN /\ call[c].auth \in Authorizations
       /\ ~Known(call[c].id) /\ prior # call[c].id
       /\ prior = None => call[c].count = 0 /\ call[c].exact
       /\ prior # None => /\ Closed(prior)
                          /\ call[c].count = request[prior].result.used
                          /\ call[c].exact = request[prior].result.exact
                          /\ \A k \in Points : request[prior].result.status[k] = "success"
                               => call[c].status[k] = "success"

\* An invocation at work knows every evidence there is,
FitsWork(c) ==
    LET r == call[c].id
    IN /\ Known(r) /\ ~Closed(r)
       /\ call[c].exact = Before(r).exact
       /\ call[c].at # "finish" => \A k \in Points : Has(r, k) => call[c].status[k] = "success"

\* and what was spent: all there is between two calls,
FitsCount(c) ==
    NoneOpen(call[c].id) /\ call[c].count = Before(call[c].id).used + Mine(call[c].id)

\* and all but the last reservation while its call is under way.
InFlight(c) == IF call[c].at = "record" THEN call[c].got.n ELSE 0

FitsLast(c) ==
    LET r == call[c].id
        last == Len(rows[r])
        root == request[r].root
    IN /\ rows[r] # <<>>
       /\ rows[r][last].k = call[c].k /\ Open(r, last) /\ rows[r][last].reserved = CallCeiling
       /\ \A i \in DOMAIN rows[r] : Open(r, i) => i = last
       /\ call[c].status[call[c].k] # "success"
       /\ call[c].count + CallCeiling = Before(r).used + Mine(r)
       /\ sent[root] + CallCeiling <= Usage(root) + InFlight(c)
       /\ call[c].exact => sent[root] + CallCeiling = Usage(root) + InFlight(c)

Fits(c) ==
    call[c].at # "idle" =>
        /\ call[c].id \in Requests /\ owner[call[c].id] = c
        /\ call[c].at = "admit" => FitsNew(c)
        /\ call[c].at # "admit" => FitsWork(c)
        /\ call[c].at \in {"run", "finish"} => FitsCount(c)
        /\ call[c].at \in {"send", "record"} => FitsLast(c)
        /\ call[c].at = "record" => call[c].got \in [n : 0..CallCeiling, outcome : Outcomes]

\* The books of a chain, as its open request or its last result has them.
Books(r) ==
    LET root == request[r].root
    IN /\ ~Closed(r) => /\ Usage(root) = Before(r).used + Mine(r)
                        /\ Before(r).exact /\ NoneOpen(r) => sent[root] = Usage(root)
       /\ Closed(r) /\ Tip(r) => /\ request[r].result.used = Usage(root)
                                 /\ request[r].result.exact => sent[root] = Usage(root)

Funds(root) == sent[root] <= Usage(root) /\ Usage(root) <= Ceiling

IsRoot(r) == Known(r) /\ request[r].root = r

Money ==
    /\ \A r \in Requests : Known(r) => Books(r)
    /\ \A r \in Requests : IsRoot(r) => Funds(r)
    /\ \A r \in Requests : ~IsRoot(r) => sent[r] = 0

Counts == IsFiniteSet(Reserved(rows, Requests))

IInv ==
    /\ TypeOK /\ Families /\ Counts /\ Money /\ Evidences
    /\ \A c \in Calls : Fits(c)

-----------------------------------------------------------------------------
(* What the parts say together.                                            *)

\* The assumed facts, one by one.
LEMMA Given ==
    ASSUME GeoConstants
    PROVE  /\ Coordinates \in Nat \ {0} /\ CallCeiling \in Nat \ {0}
           /\ Ceiling \in Nat \ {0} /\ MaxAttempts \in Nat \ {0}
           /\ None \notin Requests /\ None \notin Calls /\ None \notin RequestRows /\ None \notin Results
           /\ Legacy \subseteq Requests /\ Grants # {}
BY DEF GeoConstants

\* The row of a request that is known.
LEMMA RowOf ==
    ASSUME GeoConstants, TypeOK, NEW r \in Requests, Known(r)
    PROVE  /\ request[r] \in RequestRows
           /\ request[r].auth \in Authorizations /\ request[r].root \in Requests
           /\ request[r].prior \in Requests \cup {None} /\ request[r].closed \in BOOLEAN
           /\ request[r].tracked \in BOOLEAN /\ request[r].baseline \in Nat
           /\ request[r].result \in Results \cup {None}
<1>1. request[r] \in RequestRows
  BY DEF TypeOK, Known
<1> QED BY <1>1 DEF RequestRows

\* Of a request that is not known no other says that it recovers it.
LEMMA UnknownIsNoPrior ==
    ASSUME GeoConstants, TypeOK, Families, NEW r \in Requests, ~Closed(r), NEW s \in Requests, Known(s)
    PROVE  request[s].prior # r
BY Given DEF Families, Linked

\* A request that is not concluded is the last of its chain, and the only such.
LEMMA OpenIsTip ==
    ASSUME GeoConstants, TypeOK, Families, NEW r \in Requests, Known(r), ~Closed(r)
    PROVE  /\ Tip(r)
           /\ \A s \in Requests : Tip(s) /\ request[s].root = request[r].root => s = r
           /\ \A s \in Requests : Known(s) /\ ~Closed(s) /\ request[s].root = request[r].root => s = r
<1>1. Tip(r)
  BY UnknownIsNoPrior DEF Tip
<1>2. \A s \in Requests : Known(s) /\ ~Closed(s) => Tip(s)
  BY UnknownIsNoPrior DEF Tip
<1> QED BY <1>1, <1>2 DEF Families

\* The result a request starts from.
LEMMA BeforeType ==
    ASSUME GeoConstants, TypeOK, Families, NEW r \in Requests, Known(r)
    PROVE  Before(r) \in Results
<1>1. CASE request[r].prior = None
  <2>1. NoResult \in Results
    BY DEF NoResult, Results, Untried, Statuses
  <2> QED BY <1>1, <2>1 DEF Before
<1>2. CASE request[r].prior # None
  <2>1. /\ request[r].prior \in Requests /\ Known(request[r].prior)
        /\ request[request[r].prior].closed
    BY <1>2, RowOf DEF Families, Linked, Closed
  <2>2. request[request[r].prior].result # None
    BY <2>1 DEF Families, Linked
  <2>3. request[request[r].prior].result \in Results
    BY <2>1, <2>2, RowOf
  <2> QED BY <1>2, <2>3 DEF Before
<1> QED BY <1>1, <1>2

LEMMA ResultFields ==
    ASSUME NEW result \in Results
    PROVE  result.status \in [Points -> Statuses] /\ result.used \in Nat /\ result.exact \in BOOLEAN
BY DEF Results

\* The result of a request that is concluded.
LEMMA ResultOf ==
    ASSUME GeoConstants, TypeOK, Families, NEW r \in Requests, Closed(r)
    PROVE  request[r].result \in Results
BY RowOf DEF Families, Linked, Closed

\* What is counted is a number.
LEMMA CountsAre ==
    ASSUME GeoConstants, TypeOK, Counts
    PROVE  /\ \A ids \in SUBSET Requests : Cardinality(Reserved(rows, ids)) \in Nat
           /\ \A r \in Requests : Mine(r) \in Nat
           /\ \A r \in Requests : Known(r) => Usage(r) \in Nat
<1>1. \A ids \in SUBSET Requests : Cardinality(Reserved(rows, ids)) \in Nat
  BY ReservedGrows, FS_Subset, FS_CardinalityType DEF Counts
<1>2. \A r \in Requests : Mine(r) \in Nat
  BY <1>1 DEF Mine
<1>3. ASSUME NEW r \in Requests, Known(r) PROVE Usage(r) \in Nat
  <2>1. Cardinality(Reserved(rows, Chain(r))) \in Nat
    BY <1>1 DEF Chain
  <2>2. request[r].baseline \in Nat
    BY <1>3, RowOf
  <2> QED BY <2>1, <2>2 DEF Usage
<1> QED BY <1>1, <1>2, <1>3

\* The invocation of a request is the only one of it.
LEMMA Alone ==
    ASSUME GeoConstants, NEW c \in Calls, NEW d \in Calls, Fits(c), Fits(d), c # d,
           call[c].at # "idle", call[d].at # "idle"
    PROVE  call[c].id # call[d].id
BY DEF Fits

\* The parts of an invocation.
LEMMA CallOf ==
    ASSUME TypeOK, NEW c \in Calls
    PROVE  /\ call[c] \in Invocations
           /\ call[c].at \in Stages /\ call[c].id \in Requests \cup {None}
           /\ call[c].auth \in Authorizations \cup {None} /\ call[c].status \in [Points -> Statuses]
           /\ call[c].count \in Nat /\ call[c].exact \in BOOLEAN /\ call[c].k \in 1..Coordinates + 1
           /\ call[c].attempts \in Nat
           /\ call[c].got \in [n : 0..CallCeiling, outcome : Outcomes] \cup {None}
<1>1. call[c] \in Invocations
  BY DEF TypeOK
<1> QED BY <1>1 DEF Invocations

LEMMA RowsOf ==
    ASSUME TypeOK, NEW r \in Requests
    PROVE  /\ rows[r] \in Seq(Rows) /\ rows \in Tables
           /\ \A i \in DOMAIN rows[r] : /\ rows[r][i] \in Rows /\ rows[r][i].k \in Points
                                        /\ rows[r][i].reserved \in 0..CallCeiling
<1>1. rows[r] \in Seq(Rows) /\ rows \in Tables
  BY DEF TypeOK, Tables
<1>2. \A i \in DOMAIN rows[r] : rows[r][i] \in Rows
  BY <1>1
<1> QED BY <1>1, <1>2 DEF Rows

-----------------------------------------------------------------------------
(* Types.                                                                  *)

LEMMA IdleTyped == GeoConstants => Idle \in Invocations
<1> SUFFICES ASSUME GeoConstants PROVE Idle \in Invocations
  OBVIOUS
<1>1. Untried \in [Points -> Statuses] /\ 1 \in 1..Coordinates + 1
  BY Given DEF Untried, Statuses
<1> QED BY <1>1 DEF Idle, Invocations, Stages

\* An invocation that ends, or goes on.
LEMMA EndsTyped ==
    ASSUME GeoConstants, TypeOK, NEW c \in Calls, Ends(c)
    PROVE  call' \in [Calls -> Invocations] /\ owner' \in [Requests -> Calls \cup {None}]
<1>1. call' \in [Calls -> Invocations]
  BY IdleTyped DEF TypeOK, Ends, Goes
<1>2. owner' \in [Requests -> Calls \cup {None}]
  BY DEF TypeOK, Ends
<1> QED BY <1>1, <1>2

LEMMA GoesTyped ==
    ASSUME TypeOK, NEW c \in Calls, NEW new \in Invocations, Goes(c, new)
    PROVE  call' \in [Calls -> Invocations]
BY DEF TypeOK, Goes

LEMMA LookNewTyped ==
    ASSUME GeoConstants, TypeOK, Families, NEW c \in Calls, NEW r \in Requests, NEW auth \in Authorizations,
           LookNew(c, r, auth)
    PROVE  TypeOK'
<1> DEFINE new == [Idle EXCEPT !.at = "admit", !.id = r, !.auth = auth]
           kept(st) == [k \in Points |-> IF st[k] = "success" THEN "success" ELSE "not_requested"]
           result == request[auth.prior].result
           more == [new EXCEPT !.status = kept(result.status), !.count = result.used, !.exact = result.exact]
<1>1. new \in Invocations
  <2>1. Idle \in Invocations /\ "admit" \in Stages
    BY IdleTyped DEF Stages
  <2> QED BY <2>1 DEF Invocations
<1>2. ASSUME Closed(auth.prior), auth.prior \in Requests PROVE more \in Invocations
  <2>1. result \in Results
    BY <1>2, ResultOf
  <2>2. result.used \in Nat /\ result.exact \in BOOLEAN
    BY <2>1, ResultFields
  <2>3. kept(result.status) \in [Points -> Statuses]
    BY DEF Statuses
  <2> HIDE DEF kept, result, new
  <2> QED BY <1>1, <2>2, <2>3 DEF Invocations
<1>3. auth.prior \in Requests \cup {None}
  BY DEF Authorizations
<1>4. call' \in [Calls -> Invocations]
  <2>1. CASE Goes(c, new)
    BY <1>1, <2>1, GoesTyped
  <2>2. CASE auth.prior # None /\ Recoverable(auth.prior) /\ Goes(c, more)
    <3>1. Closed(auth.prior)
      BY <2>2 DEF Recoverable
    <3> HIDE DEF more
    <3> QED BY <1>2, <1>3, <2>2, <3>1, GoesTyped
  <2> QED BY <2>1, <2>2 DEF LookNew
<1>5. owner' \in [Requests -> Calls \cup {None}] /\ UNCHANGED <<request, rows, sent>>
  BY DEF LookNew, TypeOK
<1> QED BY <1>4, <1>5 DEF TypeOK

LEMMA AdmitTyped ==
    ASSUME GeoConstants, TypeOK, Families, NEW c \in Calls, Fits(c), Admit(c)
    PROVE  TypeOK'
<1> DEFINE r == call[c].id
           prior == call[c].auth.prior
           row == [auth |-> call[c].auth, prior |-> prior,
                   root |-> IF prior = None THEN r ELSE request[prior].root,
                   closed |-> FALSE, tracked |-> TRUE, baseline |-> 0, result |-> None]
<1>1. r \in Requests /\ FitsNew(c) /\ UNCHANGED <<rows, sent>>
  BY DEF Admit, Fits
<1>2. row \in RequestRows
  <2>1. call[c].auth \in Authorizations
    BY <1>1 DEF FitsNew
  <2>2. prior \in Requests \cup {None}
    BY <2>1 DEF Authorizations
  <2>3. prior # None => request[prior].root \in Requests
    BY <1>1, <2>2, RowOf DEF FitsNew, Closed
  <2> HIDE DEF r, prior
  <2> QED BY <1>1, <2>1, <2>2, <2>3 DEF RequestRows
<1>3. CASE request' = [request EXCEPT ![r] = row] /\ Goes(c, [call[c] EXCEPT !.at = "run"]) /\ UNCHANGED owner
  <2>1. [call[c] EXCEPT !.at = "run"] \in Invocations
    BY CallOf DEF Invocations, Stages
  <2>2. call' \in [Calls -> Invocations]
    BY <1>3, <2>1, GoesTyped
  <2>3. request' \in [Requests -> RequestRows \cup {None}]
    <3> HIDE DEF row
    <3> QED BY <1>2, <1>3 DEF TypeOK
  <2> QED BY <1>1, <1>3, <2>2, <2>3 DEF TypeOK
<1>4. CASE Ends(c) /\ UNCHANGED request
  BY <1>1, <1>4, EndsTyped DEF TypeOK
<1> QED BY <1>3, <1>4 DEF Admit

\* The next point is a point, or the one after the last.
LEMMA NextPointIs ==
    ASSUME GeoConstants, TypeOK, NEW c \in Calls
    PROVE  /\ NextPoint(c) \in 1..Coordinates + 1 /\ call[c].k <= NextPoint(c)
           /\ NextPoint(c) <= Coordinates => NextPoint(c) \in Points /\ call[c].status[NextPoint(c)] # "success"
<1> DEFINE open == {k \in Points : k >= call[c].k /\ call[c].status[k] # "success"}
<1>0. call[c].k \in 1..Coordinates + 1 /\ Coordinates \in Nat
  BY CallOf, Given
<1>1. CASE open = {}
  BY <1>0, <1>1 DEF NextPoint
<1>2. CASE open # {}
  <2>1. \E k \in open : \A j \in open : k <= j
    <3>1. open \subseteq Nat
      BY DEF Points
    <3> HIDE DEF open
    <3> QED BY <1>2, <3>1, LeastOf
  <2>2. NextPoint(c) \in open
    <3>1. NextPoint(c) = CHOOSE k \in open : \A j \in open : k <= j
      BY <1>2 DEF NextPoint
    <3> HIDE DEF open
    <3> QED BY <2>1, <3>1
  <2> QED BY <1>0, <2>2 DEF Points
<1> QED BY <1>1, <1>2

LEMMA ReserveTyped ==
    ASSUME GeoConstants, TypeOK, NEW c \in Calls, Fits(c), Reserve(c)
    PROVE  TypeOK'
<1> DEFINE r == call[c].id
           k == NextPoint(c)
           row == [k |-> k, reserved |-> CallCeiling, outcome |-> "open"]
           new == [call[c] EXCEPT !.at = "send", !.k = k, !.attempts = IF k = call[c].k THEN @ ELSE 0]
<1>1. r \in Requests /\ k \in Points
  BY NextPointIs DEF Reserve, Fits
<1>2. rows' = [rows EXCEPT ![r] = Append(@, row)] /\ Goes(c, new) /\ UNCHANGED <<request, owner, sent>>
  BY DEF Reserve
<1>3. row \in Rows
  <2> HIDE DEF k
  <2> QED BY <1>1, Given DEF Rows
<1>4. rows' \in [Requests -> Seq(Rows)]
  <2> HIDE DEF row, r
  <2>1. Append(rows[r], row) \in Seq(Rows)
    BY <1>1, <1>3, RowsOf
  <2> QED BY <1>1, <1>2, <2>1 DEF TypeOK
<1>5. new \in Invocations
  <2>1. k \in 1..Coordinates + 1
    BY NextPointIs
  <2>2. (IF k = call[c].k THEN call[c].attempts ELSE 0) \in Nat
    BY CallOf
  <2>3. call[c] \in Invocations /\ "send" \in Stages
    BY CallOf DEF Stages
  <2> HIDE DEF k
  <2> QED BY <2>1, <2>2, <2>3 DEF Invocations
<1>6. call' \in [Calls -> Invocations]
  <2> HIDE DEF new
  <2> QED BY <1>2, <1>5, GoesTyped
<1> QED BY <1>2, <1>4, <1>6 DEF TypeOK

LEMMA UnattemptedTyped ==
    ASSUME NEW status \in [Points -> Statuses], NEW from PROVE Unattempted(status, from) \in [Points -> Statuses]
BY DEF Unattempted, Statuses

LEMMA StopTyped ==
    ASSUME GeoConstants, TypeOK, NEW c \in Calls, Stop(c)
    PROVE  TypeOK'
<1> DEFINE k == NextPoint(c)
           asked == k = call[c].k /\ call[c].attempts > 0
           final == IF asked THEN call[c].status[k] ELSE "failed"
<1>1. \E status \in [Points -> Statuses] : Goes(c, [call[c] EXCEPT !.at = "finish", !.status = status])
  <2>0. call[c] \in Invocations /\ call[c].status \in [Points -> Statuses]
    BY CallOf
  <2>1. CASE Goes(c, [call[c] EXCEPT !.at = "finish"])
    <3>1. [call[c] EXCEPT !.at = "finish"] = [call[c] EXCEPT !.at = "finish", !.status = call[c].status]
      BY <2>0 DEF Invocations
    <3> QED BY <2>0, <2>1, <3>1
  <2>2. CASE k <= Coordinates /\ Goes(c, [call[c] EXCEPT !.at = "finish",
                                    !.status = [Unattempted(@, k + 1) EXCEPT ![k] = final]])
    <3>1. k \in Points
      BY <2>2, NextPointIs
    <3>2. final \in Statuses
      BY <2>0, <3>1 DEF Statuses
    <3>3. [Unattempted(call[c].status, k + 1) EXCEPT ![k] = final] \in [Points -> Statuses]
      BY <2>0, <3>2, UnattemptedTyped
    <3> HIDE DEF k, final
    <3> QED BY <2>2, <3>3
  <2>3. ASSUME NEW from, Goes(c, [call[c] EXCEPT !.at = "finish", !.status = Unattempted(@, from)])
        PROVE  <1>1
    BY <2>0, <2>3, UnattemptedTyped
  <2> QED BY <2>1, <2>2, <2>3 DEF Stop
<1>2. PICK status \in [Points -> Statuses] : Goes(c, [call[c] EXCEPT !.at = "finish", !.status = status])
  BY <1>1
<1>3. [call[c] EXCEPT !.at = "finish", !.status = status] \in Invocations
  BY CallOf DEF Invocations, Stages
<1>4. call' \in [Calls -> Invocations]
  BY <1>2, <1>3, GoesTyped
<1>5. UNCHANGED <<request, rows, owner, sent>>
  BY DEF Stop
<1> QED BY <1>4, <1>5, SMTT(40) DEF TypeOK

LEMMA SendTyped ==
    ASSUME GeoConstants, TypeOK, Families, NEW c \in Calls, Fits(c), Send(c)
    PROVE  TypeOK'
<1>1. PICK n \in 0..CallCeiling, outcome \in Outcomes :
        /\ sent' = [sent EXCEPT ![request[call[c].id].root] = @ + n]
        /\ Goes(c, [call[c] EXCEPT !.at = "record", !.got = [n |-> n, outcome |-> outcome]])
  BY DEF Send
<1>2. [call[c] EXCEPT !.at = "record", !.got = [n |-> n, outcome |-> outcome]] \in Invocations
  BY CallOf DEF Invocations, Stages
<1>3. call' \in [Calls -> Invocations]
  BY <1>1, <1>2, GoesTyped
<1>4. n \in Nat /\ sent \in [Requests -> Nat]
  BY Given DEF TypeOK
<1>7. request[call[c].id].root \in Requests
  BY RowOf DEF Send, Fits, FitsWork
<1>8. sent[request[call[c].id].root] + n \in Nat
  BY <1>4, <1>7
<1>5. sent' \in [Requests -> Nat]
  BY <1>1, <1>4, <1>7, <1>8
<1>6. UNCHANGED <<request, rows, owner>>
  BY DEF Send
<1> QED BY <1>3, <1>5, <1>6 DEF TypeOK

LEMMA AfterTyped ==
    ASSUME GeoConstants, TypeOK, NEW c \in Calls, call[c].k \in Points, NEW outcome, NEW status \in Statuses
    PROVE  After(c, outcome, status) \in Invocations
<1> DEFINE k == call[c].k
           now == [call[c] EXCEPT !.status[k] = status]
<1>1. now \in Invocations /\ now.status \in [Points -> Statuses] /\ now.attempts \in Nat
  <2>1. call[c] \in Invocations
    BY CallOf
  <2> HIDE DEF k
  <2> QED BY <2>1 DEF Invocations
<1>2. k \in Nat /\ k + 1 \in 1..Coordinates + 1
  BY Given DEF Points
<1>3. {"run", "finish"} \subseteq Stages
  BY DEF Stages
<1> HIDE DEF k, now
<1>4. [now EXCEPT !.at = "run", !.k = k + 1, !.attempts = 0] \in Invocations
  BY <1>1, <1>2, <1>3 DEF Invocations
<1>5. [now EXCEPT !.at = "run", !.attempts = @ + 1] \in Invocations
  <2>1. now.attempts + 1 \in Nat
    BY <1>1
  <2> QED BY <1>1, <1>3, <2>1 DEF Invocations
<1>6. [now EXCEPT !.at = "finish", !.status = Unattempted(@, k + 1)] \in Invocations
  BY <1>1, <1>3, UnattemptedTyped DEF Invocations
<1> QED BY <1>4, <1>5, <1>6 DEF After, now, k

LEMMA RecordTyped ==
    ASSUME GeoConstants, TypeOK, NEW c \in Calls, Fits(c), Record(c)
    PROVE  TypeOK'
<1> DEFINE r == call[c].id
           got == call[c].got
           last == Len(rows[r])
           status == IF got.outcome # "success" /\ call[c].status[call[c].k] = "indeterminate"
                     THEN "indeterminate" ELSE StatusOf(got.outcome)
           row == [rows[r][last] EXCEPT !.reserved = got.n, !.outcome = got.outcome]
<1>1. r \in Requests /\ got \in [n : 0..CallCeiling, outcome : Outcomes] /\ rows[r] # <<>>
      /\ rows[r][last].k = call[c].k /\ last \in DOMAIN rows[r]
  <2>1. r \in Requests /\ got \in [n : 0..CallCeiling, outcome : Outcomes] /\ FitsLast(c)
    BY DEF Record, Fits
  <2>2. rows[r] # <<>> /\ rows[r][last].k = call[c].k
    BY <2>1 DEF FitsLast
  <2>3. last \in DOMAIN rows[r]
    BY <2>1, <2>2, RowsOf
  <2> QED BY <2>1, <2>2, <2>3, CallOf
<1>2. rows' = [rows EXCEPT ![r][last] = [@ EXCEPT !.reserved = got.n, !.outcome = got.outcome]]
  BY DEF Record
<1>3. row \in Rows
  <2>1. rows[r][last] \in Rows
    BY <1>1, RowsOf
  <2> HIDE DEF r, last, got
  <2> QED BY <1>1, <2>1 DEF Rows
<1>4. rows' \in [Requests -> Seq(Rows)]
  <2>1. rows' = [rows EXCEPT ![r] = [@ EXCEPT ![last] = row]]
    BY <1>2
  <2>2. [rows[r] EXCEPT ![last] = row] \in Seq(Rows)
    <3>1. rows[r] \in Seq(Rows)
      BY <1>1, RowsOf
    <3> HIDE DEF row, last, r
    <3> QED BY <1>1, <1>3, <3>1
  <2> HIDE DEF row, last, r
  <2> QED BY <1>1, <2>1, <2>2 DEF TypeOK
<1>5. call[c].k \in Points /\ status \in Statuses
  <2>1. rows[r][last].k \in Points
    BY <1>1, RowsOf
  <2>2. status \in Statuses
    BY DEF StatusOf, Statuses
  <2> QED BY <1>1, <2>1, <2>2
<1>6. call' \in [Calls -> Invocations] /\ owner' \in [Requests -> Calls \cup {None}]
  <2>1. CASE Ends(c)
    BY <2>1, EndsTyped
  <2>2. CASE Goes(c, [After(c, got.outcome, status) EXCEPT !.count = @ + got.n, !.got = None]) /\ UNCHANGED owner
    <3>1. After(c, got.outcome, status) \in Invocations
      BY <1>5, AfterTyped
    <3>2. got.n \in Nat
      BY <1>1, Given
    <3>3. After(c, got.outcome, status).count + got.n \in Nat
      BY <3>1, <3>2 DEF Invocations
    <3>4. [After(c, got.outcome, status) EXCEPT !.count = @ + got.n, !.got = None] \in Invocations
      <4> HIDE DEF got, status
      <4> QED BY <3>1, <3>3 DEF Invocations
    <3>5. call' \in [Calls -> Invocations]
      <4> HIDE DEF got, status
      <4> QED BY <2>2, <3>4, GoesTyped
    <3> QED BY <2>2, <3>5 DEF TypeOK
  <2> QED BY <2>1, <2>2 DEF Record
<1>7. UNCHANGED <<request, sent>>
  BY DEF Record
<1> QED BY <1>4, <1>6, <1>7 DEF TypeOK

\* A request that is concluded.
LEMMA CompleteTyped ==
    ASSUME GeoConstants, TypeOK, NEW r \in Requests, Known(r), NEW result \in Results, Complete(r, result)
    PROVE  request' \in [Requests -> RequestRows \cup {None}]
<1>1. request[r] \in RequestRows
  BY RowOf
<1>2. [request[r] EXCEPT !.closed = TRUE, !.result = result] \in RequestRows
  BY <1>1 DEF RequestRows
<1>3. request' = [request EXCEPT ![r] = [request[r] EXCEPT !.closed = TRUE, !.result = result]]
  BY DEF Complete, TypeOK
<1> QED BY <1>2, <1>3 DEF TypeOK

LEMMA FinishResult ==
    ASSUME GeoConstants, TypeOK, NEW c \in Calls
    PROVE  [status |-> call[c].status, used |-> call[c].count, exact |-> call[c].exact] \in Results
BY CallOf DEF Results

LEMMA FinishTyped ==
    ASSUME GeoConstants, TypeOK, NEW c \in Calls, Fits(c), Finish(c)
    PROVE  TypeOK'
<1>1. call[c].id \in Requests /\ Known(call[c].id)
  BY DEF Finish, Fits, FitsWork
<1>2. request' \in [Requests -> RequestRows \cup {None}]
  BY <1>1, FinishResult, CompleteTyped DEF Finish
<1>3. Ends(c) /\ UNCHANGED <<rows, sent>>
  BY DEF Finish
<1> QED BY <1>2, <1>3, EndsTyped DEF TypeOK

\* What reconcile makes of the journal is a result.
LEMMA ReconciledIs ==
    ASSUME GeoConstants, TypeOK, Families, Counts, NEW r \in Requests, Known(r)
    PROVE  /\ Reconciled(r) \in Results
           /\ Reconciled(r).used = Before(r).used + Mine(r)
           /\ Reconciled(r).exact <=> Before(r).exact /\ NoneOpen(r)
<1> DEFINE of(k) == {i \in DOMAIN rows[r] : rows[r][i].k = k}
           has(k) == Before(r).status[k] = "success" \/ \E i \in of(k) : rows[r][i].outcome = "success"
           open(i) == rows[r][i].outcome = "open"
           last(k) == LastRow(of(k))
           statuses == [k \in Points |->
               IF has(k) THEN "success"
               ELSE IF of(k) = {} THEN Before(r).status[k]
               ELSE IF open(last(k)) THEN "indeterminate" ELSE StatusOf(rows[r][last(k)].outcome)]
<1>1. Before(r).status \in [Points -> Statuses] /\ Before(r).used \in Nat /\ Before(r).exact \in BOOLEAN
  BY BeforeType, ResultFields
<1>2. Mine(r) \in Nat
  BY CountsAre
<1>3. Reconciled(r) = [status |-> statuses, used |-> Before(r).used + Mine(r),
                       exact |-> Before(r).exact /\ \A i \in DOMAIN rows[r] : ~open(i)]
  BY DEF Reconciled, Mine
<1>4. statuses \in [Points -> Statuses]
  <2>1. \A k \in Points : Before(r).status[k] \in Statuses
    BY <1>1
  <2>2. \A o : StatusOf(o) \in Statuses
    BY DEF StatusOf, Statuses
  <2>3. "success" \in Statuses /\ "indeterminate" \in Statuses
    BY DEF Statuses
  <2> HIDE DEF of, has, open, last
  <2> QED BY <2>1, <2>2, <2>3
<1>5. Before(r).used + Mine(r) \in Nat
  BY <1>1, <1>2
<1>6. (Before(r).exact /\ \A i \in DOMAIN rows[r] : ~open(i)) \in BOOLEAN
  OBVIOUS
<1>7. Reconciled(r).exact = (Before(r).exact /\ \A i \in DOMAIN rows[r] : ~open(i))
  BY <1>3
<1>8. Reconciled(r).exact <=> Before(r).exact /\ NoneOpen(r)
  BY <1>7, Zenon DEF NoneOpen, Open
<1> HIDE DEF statuses
<1>9. Reconciled(r).used = Before(r).used + Mine(r)
  BY <1>3
<1>10. Reconciled(r) \in Results
  <2> DEFINE exact == Before(r).exact /\ \A i \in DOMAIN rows[r] : ~open(i)
             used == Before(r).used + Mine(r)
  <2>1. Reconciled(r) = [status |-> statuses, used |-> used, exact |-> exact]
    BY <1>3
  <2>2. exact \in BOOLEAN /\ used \in Nat
    BY <1>5, <1>6
  <2> HIDE DEF exact, used
  <2> QED BY <1>4, <2>1, <2>2 DEF Results
<1> QED BY <1>8, <1>9, <1>10

LEMMA AnswerTyped ==
    ASSUME GeoConstants, TypeOK, Families, Counts, NEW r \in Requests, AnswerKnown(r)
    PROVE  TypeOK'
<1>1. request' \in [Requests -> RequestRows \cup {None}]
  <2>1. Known(r) /\ Complete(r, Reconciled(r))
    BY DEF AnswerKnown
  <2>2. Reconciled(r) \in Results
    BY <2>1, ReconciledIs
  <2> QED BY <2>1, <2>2, CompleteTyped
<1>2. UNCHANGED <<rows, owner, call, sent>>
  BY DEF AnswerKnown
<1> QED BY <1>1, <1>2 DEF TypeOK

LEMMA AdoptTyped ==
    ASSUME GeoConstants, TypeOK, NEW r \in Requests, AdoptLegacy(r)
    PROVE  TypeOK'
<1>1. request[r] \in RequestRows
  BY RowOf DEF AdoptLegacy
<1>2. [request[r] EXCEPT !.tracked = TRUE] \in RequestRows
  BY <1>1 DEF RequestRows
<1>3. request' = [request EXCEPT ![r] = [request[r] EXCEPT !.tracked = TRUE]]
  BY DEF AdoptLegacy, TypeOK
<1>4. request' \in [Requests -> RequestRows \cup {None}]
  BY <1>2, <1>3 DEF TypeOK
<1>5. UNCHANGED <<rows, owner, call, sent>>
  BY DEF AdoptLegacy
<1> QED BY <1>4, <1>5 DEF TypeOK

LEMMA DiesTyped ==
    ASSUME GeoConstants, TypeOK, NEW c \in Calls, Dies(c)
    PROVE  TypeOK'
BY EndsTyped DEF Dies, TypeOK

-----------------------------------------------------------------------------
(* What a step leaves alone.                                               *)

\* A request keeps all that the invariant speaks of.
SameRow(r) ==
    /\ Known(r)' <=> Known(r)
    /\ Known(r) => /\ request'[r].root = request[r].root /\ request'[r].prior = request[r].prior
                   /\ request'[r].closed = request[r].closed /\ request'[r].result = request[r].result
                   /\ request'[r].baseline = request[r].baseline

\* What one request has reserved is said by its own rows.
LEMMA OwnRows ==
    ASSUME NEW table, NEW later, NEW r, later[r] = table[r]
    PROVE  Reserved(later, {r}) = Reserved(table, {r})
<1>1. ASSUME NEW t PROVE t \in Reserved(later, {r}) <=> t \in Reserved(table, {r})
  BY ReservedUnits
<1> QED BY <1>1

LEMMA SameMine ==
    ASSUME NEW r \in Requests, rows'[r] = rows[r]
    PROVE  Mine(r)' = Mine(r)
<1>1. Reserved(rows', {r}) = Reserved(rows, {r})
  BY OwnRows
<1> QED BY <1>1 DEF Mine

\* What a request starts from stays, as it was concluded.
LEMMA SameBefore ==
    ASSUME GeoConstants, TypeOK, Families, NEW r \in Requests, Known(r), SameRow(r),
           \A s \in Requests : Closed(s) => SameRow(s)
    PROVE  Before(r)' = Before(r) /\ (request[r].prior # None => Closed(request[r].prior)')
<1>1. CASE request[r].prior = None
  BY <1>1 DEF SameRow, Before
<1>2. CASE request[r].prior # None
  <2>1. request[r].prior \in Requests /\ Closed(request[r].prior)
    BY <1>2, RowOf DEF Families, Linked
  <2>2. SameRow(request[r].prior)
    BY <2>1
  <2> QED BY <1>2, <2>1, <2>2 DEF SameRow, Before, Closed
<1> QED BY <1>1, <1>2

\* An invocation whose request and whose chain a step leaves alone.
LEMMA FitsFrame ==
    ASSUME GeoConstants, TypeOK, Families, NEW d \in Calls, Fits(d),
           call'[d] = call[d],
           call[d].at # "idle" => /\ owner'[call[d].id] = owner[call[d].id]
                                  /\ SameRow(call[d].id) /\ rows'[call[d].id] = rows[call[d].id],
           \A s \in Requests : Closed(s) => SameRow(s),
           call[d].at \in {"send", "record"} =>
             \A root \in Requests : root = request[call[d].id].root =>
               sent'[root] = sent[root] /\ Usage(root)' = Usage(root)
    PROVE  Fits(d)'
<1> SUFFICES ASSUME call[d].at # "idle" PROVE Fits(d)'
  BY DEF Fits
<1> DEFINE r == call[d].id
<1>1. r \in Requests /\ owner[r] = d /\ SameRow(r) /\ rows'[r] = rows[r] /\ owner'[r] = owner[r]
  BY SMTT(40) DEF Fits
<1>2. ASSUME call[d].at = "admit" PROVE FitsNew(d)'
  <2>1. FitsNew(d)
    BY <1>2 DEF Fits
  <2>2. call[d].auth.prior \in Requests \cup {None}
    BY <2>1 DEF FitsNew, Authorizations
  <2>3. call[d].auth.prior # None => SameRow(call[d].auth.prior)
    BY <2>1, <2>2 DEF FitsNew
  <2> QED BY <1>1, <2>1, <2>2, <2>3 DEF FitsNew, SameRow, Closed, Known
<1>3. ASSUME call[d].at # "admit"
      PROVE  /\ Before(r)' = Before(r) /\ Mine(r)' = Mine(r) /\ Known(r) /\ ~Closed(r) /\ FitsWork(d)'
             /\ request'[r].root = request[r].root
  <2>1. FitsWork(d)
    BY <1>3 DEF Fits
  <2>2. Known(r) /\ ~Closed(r)
    BY <2>1 DEF FitsWork
  <2>3. Before(r)' = Before(r) /\ Mine(r)' = Mine(r)
    BY <1>1, <2>2, SameBefore, SameMine
  <2>4. \A k : Has(r, k)' <=> Has(r, k)
    BY <1>1, <2>3 DEF Has, Success
  <2>5. Known(r)' /\ ~Closed(r)' /\ request'[r].root = request[r].root
    BY <1>1, <2>2 DEF SameRow, Closed
  <2> QED BY <2>1, <2>2, <2>3, <2>4, <2>5 DEF FitsWork
<1>4. ASSUME call[d].at \in {"run", "finish"} PROVE FitsCount(d)'
  <2>1. FitsCount(d)
    BY <1>4 DEF Fits
  <2>2. Before(r)' = Before(r) /\ Mine(r)' = Mine(r)
    BY <1>3, <1>4
  <2> QED BY <1>1, <2>1, <2>2 DEF FitsCount, NoneOpen, Open
<1>5. ASSUME call[d].at \in {"send", "record"} PROVE FitsLast(d)'
  <2>1. FitsLast(d)
    BY <1>5 DEF Fits
  <2>2. Before(r)' = Before(r) /\ Mine(r)' = Mine(r) /\ request'[r].root = request[r].root
    BY <1>3, <1>5
  <2> DEFINE root == request[r].root
  <2>3. root \in Requests
    BY <1>1, <1>3, <1>5, RowOf
  <2>4. InFlight(d)' = InFlight(d)
    BY DEF InFlight
  <2>5. ASSUME NEW b, b = root PROVE sent'[b] = sent[b] /\ Usage(b)' = Usage(b)
    BY <1>5, <2>3, <2>5
  <2> QED BY <1>1, <2>1, <2>2, <2>4, <2>5 DEF FitsLast, Open
<1>6. call[d].at = "record" => call'[d].got \in [n : 0..CallCeiling, outcome : Outcomes]
  BY DEF Fits
<1> QED BY <1>1, <1>2, <1>3, <1>4, <1>5, <1>6 DEF Fits

\* A step that keeps every request and moves nothing.
Still == UNCHANGED <<rows, sent>> /\ \A r \in Requests : SameRow(r)

LEMMA StillFacts ==
    ASSUME GeoConstants, TypeOK, Families, Still
    PROVE  /\ \A r : Mine(r)' = Mine(r) /\ Chain(r)' = Chain(r)
           /\ \A r \in Requests : Known(r) => Usage(r)' = Usage(r) /\ Before(r)' = Before(r)
           /\ \A r \in Requests : /\ Tip(r)' <=> Tip(r)
                                  /\ Closed(r)' <=> Closed(r)
                                  /\ IsRoot(r)' <=> IsRoot(r)
<1>1. \A r : Mine(r)' = Mine(r) /\ Chain(r)' = Chain(r)
  BY DEF Still, Mine, Chain, SameRow
<1>2. ASSUME NEW r \in Requests, Known(r) PROVE Usage(r)' = Usage(r) /\ Before(r)' = Before(r)
  <2>1. Before(r)' = Before(r)
    BY <1>2, SameBefore DEF Still
  <2>2. Chain(r)' = Chain(r) /\ request'[r].baseline = request[r].baseline
    BY <1>1, <1>2 DEF Still, SameRow
  <2>3. Cardinality(Reserved(rows', Chain(r)')) = Cardinality(Reserved(rows, Chain(r)))
    BY <2>2 DEF Still
  <2> QED BY <2>1, <2>2, <2>3 DEF Usage
<1>3. \A r \in Requests : (Tip(r)' <=> Tip(r)) /\ (Closed(r)' <=> Closed(r)) /\ (IsRoot(r)' <=> IsRoot(r))
  BY DEF Still, Tip, SameRow, Closed, IsRoot
<1> QED BY <1>1, <1>2, <1>3

LEMMA StillFamilies ==
    ASSUME GeoConstants, TypeOK, Families, Still
    PROVE  Families'
<1>1. ASSUME NEW r \in Requests, Known(r)' PROVE Linked(r)'
  <2>1. Known(r) /\ SameRow(r) /\ Linked(r)
    BY <1>1 DEF Still, SameRow, Families
  <2>2. request[r].root \in Requests /\ request[r].prior \in Requests \cup {None}
    BY <2>1, RowOf
  <2>3. SameRow(request[r].root) /\ (request[r].prior # None => SameRow(request[r].prior))
    BY <2>2 DEF Still
  <2> QED BY <2>1, <2>2, <2>3 DEF Linked, SameRow, Closed
<1>2. \A r \in Requests : ~Known(r)' => rows'[r] = <<>>
  BY DEF Families, Still, SameRow
<1>3. ASSUME NEW r \in Requests, NEW s \in Requests, Tip(r)', Tip(s)', request'[r].root = request'[s].root PROVE r = s
  <2>1. Tip(r) /\ Tip(s)
    BY <1>3, StillFacts
  <2>2. request[r].root = request[s].root
    BY <1>3, <2>1 DEF Still, SameRow, Tip
  <2> QED BY <2>1, <2>2 DEF Families
<1> QED BY <1>1, <1>2, <1>3 DEF Families

LEMMA StillMoney ==
    ASSUME GeoConstants, TypeOK, Families, Still, Money
    PROVE  Money'
<1>1. ASSUME NEW r \in Requests, Known(r)' PROVE Books(r)'
  <2>1. Known(r) /\ SameRow(r) /\ Books(r)
    BY <1>1 DEF Still, SameRow, Money
  <2> DEFINE root == request[r].root
  <2>2. root \in Requests /\ Known(root)
    BY <2>1, RowOf DEF Families, Linked
  <2>3. Before(r)' = Before(r) /\ Mine(r)' = Mine(r)
    BY <2>1, StillFacts
  <2>4. (Tip(r)' <=> Tip(r)) /\ (Closed(r)' <=> Closed(r)) /\ (NoneOpen(r)' <=> NoneOpen(r))
    BY StillFacts DEF NoneOpen, Open, Still
  <2>5. request'[r].root = root /\ request'[r].result = request[r].result /\ sent' = sent
    BY <2>1 DEF SameRow, Still
  <2>6. ASSUME NEW b, b = root PROVE sent'[b] = sent[b] /\ Usage(b)' = Usage(b)
    BY <2>2, <2>5, <2>6, StillFacts
  <2> QED BY <2>1, <2>3, <2>4, <2>5, <2>6 DEF Books
<1>2. ASSUME NEW r \in Requests, IsRoot(r)' PROVE Funds(r)'
  <2>1. IsRoot(r) /\ Known(r)
    BY <1>2, StillFacts DEF IsRoot
  <2> QED BY <2>1, StillFacts DEF Funds, Money, Still
<1>3. \A r \in Requests : ~IsRoot(r)' => sent'[r] = 0
  BY StillFacts DEF Money, Still
<1> QED BY <1>1, <1>2, <1>3 DEF Money

LEMMA StillEvidences ==
    ASSUME GeoConstants, TypeOK, Families, Still, Evidences, Counts
    PROVE  Evidences' /\ Counts'
<1>1. ASSUME NEW r \in Requests, Known(r)' PROVE Evident(r)'
  <2>1. Known(r) /\ Evident(r)
    BY <1>1 DEF Still, SameRow, Evidences
  <2>2. Before(r)' = Before(r)
    BY <2>1, StillFacts
  <2> QED BY <2>1, <2>2 DEF Evident, Still, Success
<1> QED BY <1>1 DEF Evidences, Counts, Still

LEMMA StillFits ==
    ASSUME GeoConstants, TypeOK, Families, Still, NEW d \in Calls, Fits(d), call'[d] = call[d],
           call[d].at # "idle" => owner'[call[d].id] = owner[call[d].id]
    PROVE  Fits(d)'
<1>1. call[d].at # "idle" => SameRow(call[d].id) /\ rows'[call[d].id] = rows[call[d].id]
  BY DEF Fits, Still
<1>2. ASSUME call[d].at \in {"send", "record"}
      PROVE  \A root \in Requests : root = request[call[d].id].root =>
               sent'[root] = sent[root] /\ Usage(root)' = Usage(root)
  <2>1. call[d].id \in Requests /\ Known(call[d].id)
    BY <1>2 DEF Fits, FitsWork
  <2>2. request[call[d].id].root \in Requests /\ Known(request[call[d].id].root)
    BY <2>1, RowOf DEF Families, Linked
  <2> QED BY <2>2, StillFacts DEF Still
<1>3. \A s \in Requests : Closed(s) => SameRow(s)
  BY DEF Still
<1> QED BY <1>1, <1>2, <1>3, FitsFrame

\* The rest of the invariant, of a step that is still.
LEMMA StillKeeps ==
    ASSUME GeoConstants, IInv, TypeOK', Still, \A c \in Calls : Fits(c)'
    PROVE  IInv'
BY StillFamilies, StillMoney, StillEvidences DEF IInv

-----------------------------------------------------------------------------
(* Steps of an invocation that move nothing.                               *)

LEMMA UnchangedIsStill == UNCHANGED <<request, rows, sent>> => Still
BY DEF Still, SameRow, Known

\* An invocation that ends leaves the others what they have.
LEMMA OthersWhenEnding ==
    ASSUME GeoConstants, TypeOK, NEW c \in Calls, NEW d \in Calls, c # d, Fits(d), Ends(c)
    PROVE  call'[d] = call[d] /\ (call[d].at # "idle" => owner'[call[d].id] = owner[call[d].id])
<1>1. call'[d] = call[d]
  BY DEF Ends, Goes, TypeOK
<1>2. ASSUME call[d].at # "idle" PROVE owner'[call[d].id] = owner[call[d].id]
  <2>1. call[d].id \in Requests /\ owner[call[d].id] = d
    BY <1>2 DEF Fits
  <2> QED BY <2>1 DEF Ends
<1> QED BY <1>1, <1>2

LEMMA EndedFits ==
    ASSUME TypeOK, NEW c \in Calls, Ends(c)
    PROVE  Fits(c)'
<1>1. call'[c] = Idle
  BY DEF Ends, Goes, TypeOK
<1> QED BY <1>1 DEF Fits, Idle

LEMMA OthersWhenGoing ==
    ASSUME TypeOK, NEW c \in Calls, NEW d \in Calls, c # d, NEW new, Goes(c, new)
    PROVE  call'[d] = call[d] /\ call'[c] = new
BY DEF Goes, TypeOK

LEMMA EndsKeeps ==
    ASSUME GeoConstants, IInv, NEW c \in Calls, Ends(c), UNCHANGED <<request, rows, sent>>, TypeOK'
    PROVE  IInv'
<1>1. Still
  BY UnchangedIsStill
<1>2. ASSUME NEW d \in Calls PROVE Fits(d)'
  <2>1. CASE d = c
    BY <2>1, EndedFits DEF IInv
  <2>2. CASE d # c
    BY <1>1, <2>2, OthersWhenEnding, StillFits DEF IInv
  <2> QED BY <2>1, <2>2
<1> QED BY <1>1, <1>2, StillKeeps

LEMMA DiesKeeps == ASSUME GeoConstants, IInv, NEW c \in Calls, Dies(c) PROVE IInv'
BY DiesTyped, EndsKeeps DEF Dies, IInv

LEMMA AdoptKeeps == ASSUME GeoConstants, IInv, NEW r \in Requests, AdoptLegacy(r) PROVE IInv'
<1>1. Still
  <2>1. ASSUME NEW s \in Requests PROVE SameRow(s)
    <3>1. CASE s # r
      <4>1. request'[s] = request[s]
        BY <3>1 DEF AdoptLegacy, IInv, TypeOK
      <4> QED BY <4>1 DEF SameRow, Known
    <3>2. CASE s = r
      <4>1. Known(r) /\ request[r] \in RequestRows
        BY RowOf DEF AdoptLegacy, IInv
      <4>2. request'[r] = [request[r] EXCEPT !.tracked = TRUE]
        BY DEF AdoptLegacy, IInv, TypeOK
      <4>3. request'[r] \in RequestRows
        BY <4>1, <4>2 DEF RequestRows
      <4>4. request'[r] # None
        BY <4>3, Given
      <4> QED BY <3>2, <4>1, <4>2, <4>4 DEF SameRow, Known, RequestRows
    <3> QED BY <3>1, <3>2
  <2> QED BY <2>1 DEF Still, AdoptLegacy
<1>2. TypeOK'
  BY AdoptTyped DEF IInv
<1>3. ASSUME NEW d \in Calls PROVE Fits(d)'
  <2>1. UNCHANGED <<call, owner>>
    BY DEF AdoptLegacy
  <2> QED BY <1>1, <2>1, StillFits DEF IInv
<1> QED BY <1>1, <1>2, <1>3, StillKeeps

LEMMA LookNewKeeps ==
    ASSUME GeoConstants, IInv, NEW c \in Calls, NEW r \in Requests, NEW auth \in Authorizations, LookNew(c, r, auth)
    PROVE  IInv'
<1> DEFINE new == [Idle EXCEPT !.at = "admit", !.id = r, !.auth = auth]
           kept(st) == [k \in Points |-> IF st[k] = "success" THEN "success" ELSE "not_requested"]
           result == request[auth.prior].result
           more == [new EXCEPT !.status = kept(result.status), !.count = result.used, !.exact = result.exact]
<1>1. Still
  BY UnchangedIsStill DEF LookNew
<1>2. TypeOK'
  BY LookNewTyped DEF IInv
<1>3. owner' = [owner EXCEPT ![r] = c] /\ owner[r] = None /\ call[c].at = "idle"
      /\ ~Known(r) /\ auth.prior # r /\ UNCHANGED request
  BY DEF LookNew
<1>4. PICK x : Goes(c, x)
  BY DEF LookNew
<1>5. ASSUME NEW d \in Calls, d # c PROVE Fits(d)'
  <2>1. call'[d] = call[d]
    BY <1>4, <1>5, OthersWhenGoing DEF IInv
  <2>2. call[d].at # "idle" => call[d].id \in Requests /\ owner[call[d].id] = d
    BY DEF Fits, IInv
  <2>3. None \notin Calls
    BY Given
  <2>4. call[d].at # "idle" => owner'[call[d].id] = owner[call[d].id]
    BY <1>3, <2>2, <2>3 DEF IInv, TypeOK
  <2> QED BY <1>1, <2>1, <2>4, StillFits DEF IInv
<1>6. Fits(c)'
  <2>1. call'[c].at = "admit" /\ call'[c].id = r /\ call'[c].auth = auth
        /\ (auth.prior = None => call'[c].count = 0 /\ call'[c].exact)
        /\ (auth.prior # None =>
              /\ Closed(auth.prior)
              /\ call'[c].count = result.used /\ call'[c].exact = result.exact
              /\ \A k \in Points : result.status[k] = "success" => call'[c].status[k] = "success")
    <3>1. CASE auth.prior = None /\ Goes(c, new)
      <4>1. call'[c] = new
        BY <3>1 DEF Goes, IInv, TypeOK
      <4> QED BY <3>1, <4>1 DEF Idle
    <3>2. CASE auth.prior # None /\ Recoverable(auth.prior) /\ Goes(c, more)
      <4>1. call'[c] = more
        BY <3>2 DEF Goes, IInv, TypeOK
      <4>2. more.at = "admit" /\ more.id = r /\ more.auth = auth /\ more.count = result.used
            /\ more.exact = result.exact /\ more.status = kept(result.status)
        BY DEF Idle
      <4> HIDE DEF more, result
      <4> QED BY <3>2, <4>1, <4>2 DEF Recoverable
    <3> QED BY <3>1, <3>2 DEF LookNew
  <2>2. owner'[r] = c
    BY <1>3 DEF IInv, TypeOK
  <2>3. FitsNew(c)'
    <3> HIDE DEF result
    <3>1. ASSUME auth.prior # None PROVE Closed(auth.prior)'
      BY <1>3, <2>1, <3>1 DEF Closed, Known
    <3>2. ~Known(r)'
      BY <1>3 DEF Known
    <3> QED BY <1>3, <2>1, <3>1, <3>2 DEF FitsNew, result
  <2> QED BY <2>1, <2>2, <2>3 DEF Fits
<1>7. \A d \in Calls : Fits(d)'
  BY <1>5, <1>6
<1> QED BY <1>1, <1>2, <1>7, StillKeeps

LEMMA StopKeeps == ASSUME GeoConstants, IInv, NEW c \in Calls, Stop(c) PROVE IInv'
<1>1. Still
  BY UnchangedIsStill DEF Stop
<1>2. TypeOK'
  BY StopTyped DEF IInv
<1>3. \E status : Goes(c, [call[c] EXCEPT !.at = "finish", !.status = status])
  <2>1. [call[c] EXCEPT !.at = "finish"] = [call[c] EXCEPT !.at = "finish", !.status = call[c].status]
    BY CallOf DEF IInv, Invocations
  <2> QED BY <2>1 DEF Stop
<1>4. PICK status : Goes(c, [call[c] EXCEPT !.at = "finish", !.status = status])
  BY <1>3
<1>5. ASSUME NEW d \in Calls, d # c PROVE Fits(d)'
  <2>1. call'[d] = call[d] /\ owner' = owner
    BY <1>4, <1>5, OthersWhenGoing DEF IInv, Stop
  <2> QED BY <1>1, <2>1, StillFits DEF IInv
<1>6. Fits(c)'
  <2>1. call'[c].at = "finish" /\ call'[c].id = call[c].id /\ call'[c].count = call[c].count
        /\ call'[c].exact = call[c].exact
    <3>1. call[c] \in Invocations
      BY CallOf DEF IInv
    <3>2. call'[c] = [call[c] EXCEPT !.at = "finish", !.status = status]
      BY <1>4 DEF Goes, IInv, TypeOK
    <3> QED BY <3>1, <3>2 DEF Invocations
  <2>2. call[c].id \in Requests /\ owner[call[c].id] = c /\ FitsWork(c) /\ FitsCount(c)
    BY DEF Stop, IInv, Fits
  <2>3. UNCHANGED <<request, rows, sent, owner>>
    BY DEF Stop
  <2>4. FitsWork(c)'
    BY <2>1, <2>2, <2>3, SMTT(40) DEF FitsWork, Known, Closed, Before
  <2>5. FitsCount(c)'
    BY <2>1, <2>2, <2>3 DEF FitsCount, NoneOpen, Open, Mine, Before
  <2> QED BY <2>1, <2>2, <2>3, <2>4, <2>5 DEF Fits
<1>7. \A d \in Calls : Fits(d)'
  BY <1>5, <1>6
<1> QED BY <1>1, <1>2, <1>7, StillKeeps

-----------------------------------------------------------------------------
(* Steps that move the account of one chain.                               *)

\* The account a step of the invocation of an open request may move: its own rows
\* and what was sent under its root.
Moves(r, root) ==
    /\ UNCHANGED request
    /\ r \in Requests /\ Known(r) /\ ~Closed(r) /\ root = request[r].root
    /\ \A s \in Requests \ {r} : rows'[s] = rows[s]
    /\ \A b \in Requests \ {root} : sent'[b] = sent[b]

\* What the journal counts moves by the same amount for whoever counts the request.
Counted(r, delta) ==
    \A ids \in SUBSET Requests :
        Cardinality(Reserved(rows', ids)) =
            Cardinality(Reserved(rows, ids)) + (IF r \in ids THEN delta ELSE 0)

LEMMA UsageMoves ==
    ASSUME GeoConstants, TypeOK, Families, Counts, NEW r, NEW root, Moves(r, root), NEW delta \in Int, Counted(r, delta)
    PROVE  /\ root \in Requests /\ Known(root) /\ Usage(root)' = Usage(root) + delta
           /\ Mine(r)' = Mine(r) + delta
           /\ \A b \in Requests \ {root} : Known(b) => Usage(b)' = Usage(b)
<1>0. r \in Requests /\ Known(r) /\ root = request[r].root /\ request' = request
  BY DEF Moves
<1>1. root \in Requests /\ Known(root)
  BY <1>0, RowOf DEF Families, Linked
<1>2. ASSUME NEW b \in Requests, Known(b)
      PROVE  Usage(b)' = Usage(b) + (IF b = root THEN delta ELSE 0)
  <2>1. Chain(b)' = Chain(b) /\ Chain(b) \in SUBSET Requests /\ (r \in Chain(b) <=> b = root)
    BY <1>0 DEF Chain, Known
  <2>2. Cardinality(Reserved(rows', Chain(b)')) =
          Cardinality(Reserved(rows, Chain(b))) + (IF b = root THEN delta ELSE 0)
    BY <2>1 DEF Counted
  <2>3. Cardinality(Reserved(rows, Chain(b))) \in Nat /\ request[b].baseline \in Nat
    BY <1>2, <2>1, CountsAre, RowOf
  <2>4. Usage(b)' = request[b].baseline + Cardinality(Reserved(rows', Chain(b)'))
    BY <1>0 DEF Usage
  <2>5. Usage(b) = request[b].baseline + Cardinality(Reserved(rows, Chain(b)))
    BY DEF Usage
  <2> QED BY <2>2, <2>3, <2>4, <2>5
<1>3. Mine(r)' = Mine(r) + delta
  <2>1. {r} \in SUBSET Requests /\ r \in {r}
    BY <1>0
  <2> QED BY <2>1 DEF Mine, Counted
<1>4. Usage(root)' = Usage(root) + delta
  BY <1>1, <1>2
<1>5. \A b \in Requests \ {root} : Known(b) => Usage(b)' = Usage(b)
  <2> TAKE b \in Requests \ {root}
  <2> HAVE Known(b)
  <2>1. Usage(b) \in Nat
    BY CountsAre
  <2> QED BY <1>2, <2>1
<1> QED BY <1>1, <1>3, <1>4, <1>5

\* The books of the other requests hold on.
LEMMA OtherBooks ==
    ASSUME GeoConstants, IInv, NEW r, NEW root, Moves(r, root),
           \A b \in Requests \ {root} : Known(b) => Usage(b)' = Usage(b)
    PROVE  /\ Families'
           /\ \A s \in Requests \ {r} : Known(s) => Books(s)' /\ Evident(s)'
           /\ \A b \in Requests \ {root} : IsRoot(b)' => Funds(b)'
           /\ \A b \in Requests : ~IsRoot(b)' => sent'[b] = 0
<1> USE DEF IInv
<1>0. r \in Requests /\ Known(r) /\ ~Closed(r) /\ root = request[r].root /\ request' = request
  BY DEF Moves
<1>1. /\ \A s : Known(s)' <=> Known(s)
      /\ \A s : Closed(s)' <=> Closed(s)
      /\ \A s : Tip(s)' <=> Tip(s)
      /\ \A s : IsRoot(s)' <=> IsRoot(s)
      /\ \A s : Before(s)' = Before(s)
      /\ \A s : Linked(s)' <=> Linked(s)
  BY <1>0 DEF Known, Closed, Tip, IsRoot, Before, Linked
<1>2. Families'
  <2>1. \A s \in Requests : ~Known(s) => rows'[s] = <<>>
    BY <1>0 DEF Families, Moves
  <2> QED BY <1>0, <1>1, <2>1 DEF Families
<1>3. ASSUME NEW s \in Requests \ {r}, Known(s) PROVE Books(s)'
  <2>1. Books(s)
    BY <1>3 DEF Money
  <2>2. CASE request[s].root = root
    <3>1. Closed(s) /\ ~Tip(s)
      BY <1>0, <1>3, <2>2, OpenIsTip
    <3> QED BY <3>1, <1>1 DEF Books
  <2>3. CASE request[s].root # root
    <3>1. request[s].root \in Requests \ {root} /\ Known(request[s].root)
      BY <1>3, <2>3, RowOf DEF Families, Linked
    <3>2. ASSUME NEW b, b = request[s].root PROVE sent'[b] = sent[b] /\ Usage(b)' = Usage(b)
      BY <3>1, <3>2 DEF Moves
    <3>3. rows'[s] = rows[s] /\ Mine(s)' = Mine(s)
      BY <1>3, SameMine DEF Moves
    <3>4. NoneOpen(s)' <=> NoneOpen(s)
      BY <3>3 DEF NoneOpen, Open
    <3> QED BY <2>1, <1>0, <1>1, <3>2, <3>3, <3>4 DEF Books
  <2> QED BY <2>2, <2>3
<1>4. ASSUME NEW s \in Requests \ {r}, Known(s) PROVE Evident(s)'
  <2>1. rows'[s] = rows[s] /\ Evident(s)
    BY <1>4 DEF Moves, Evidences
  <2> QED BY <1>1, <2>1 DEF Evident, Success
<1>5. ASSUME NEW b \in Requests \ {root}, IsRoot(b)' PROVE Funds(b)'
  <2>1. IsRoot(b) /\ Known(b) /\ Funds(b)
    BY <1>1, <1>5 DEF Money, IsRoot
  <2> QED BY <2>1 DEF Funds, Moves
<1>6. ASSUME NEW b \in Requests, ~IsRoot(b)' PROVE sent'[b] = 0
  <2>1. ~IsRoot(b) /\ sent[b] = 0
    BY <1>1, <1>6 DEF Money
  <2>2. IsRoot(root)
    BY <1>0, RowOf DEF Families, Linked, IsRoot
  <2> QED BY <2>1, <2>2 DEF Moves
<1> QED BY <1>2, <1>3, <1>4, <1>5, <1>6

\* The invocations of the other requests fit on.
LEMMA OtherFits ==
    ASSUME GeoConstants, IInv, NEW c \in Calls, call[c].at # "idle", NEW root, Moves(call[c].id, root),
           \A b \in Requests \ {root} : Known(b) => Usage(b)' = Usage(b),
           NEW d \in Calls, d # c, call'[d] = call[d],
           call[d].at # "idle" => owner'[call[d].id] = owner[call[d].id]
    PROVE  Fits(d)'
<1> USE DEF IInv
<1> DEFINE r == call[c].id
<1>0. r \in Requests /\ Known(r) /\ ~Closed(r) /\ root = request[r].root /\ request' = request
  BY DEF Moves
<1>1. \A s : SameRow(s)
  BY <1>0 DEF SameRow, Known
<1>2. ASSUME call[d].at # "idle" PROVE call[d].id \in Requests \ {r} /\ rows'[call[d].id] = rows[call[d].id]
  <2>1. call[d].id \in Requests /\ call[d].id # r
    BY <1>2, Alone DEF Fits
  <2> QED BY <2>1 DEF Moves
<1>3. ASSUME call[d].at \in {"send", "record"}, NEW b \in Requests, b = request[call[d].id].root
      PROVE  sent'[b] = sent[b] /\ Usage(b)' = Usage(b)
  <2>1. call[d].id \in Requests \ {r} /\ Known(call[d].id) /\ ~Closed(call[d].id)
    BY <1>2, <1>3 DEF Fits, FitsWork
  <2>2. b # root
    BY <1>0, <1>3, <2>1, OpenIsTip
  <2>3. Known(b)
    BY <1>3, <2>1 DEF Families, Linked
  <2> QED BY <2>2, <2>3 DEF Moves
<1> HIDE DEF r
<1> QED BY <1>1, <1>2, <1>3, FitsFrame

\* What is left to show of such a step.
LEMMA MovesKeep ==
    ASSUME GeoConstants, IInv, TypeOK', Counts', NEW r, NEW root, Moves(r, root),
           \A b \in Requests \ {root} : Known(b) => Usage(b)' = Usage(b),
           Books(r)', Funds(root)', Evident(r)', \A d \in Calls : Fits(d)'
    PROVE  IInv'
<1>1. /\ Families'
      /\ \A s \in Requests \ {r} : Known(s) => Books(s)' /\ Evident(s)'
      /\ \A b \in Requests \ {root} : IsRoot(b)' => Funds(b)'
      /\ \A b \in Requests : ~IsRoot(b)' => sent'[b] = 0
  BY OtherBooks
<1>2. \A s : Known(s)' <=> Known(s)
  BY DEF Moves, Known
<1>3. Money'
  BY <1>1, <1>2 DEF Money
<1>4. Evidences'
  BY <1>1, <1>2 DEF Evidences
<1> QED BY <1>1, <1>3, <1>4 DEF IInv

\* The numbers of an open request and of its chain.
LEMMA NumbersOf ==
    ASSUME GeoConstants, IInv, NEW r \in Requests, Known(r), NEW root, root = request[r].root
    PROVE  /\ root \in Requests /\ Known(root) /\ IsRoot(root) /\ Funds(root)
           /\ Usage(root) \in Nat /\ sent[root] \in Nat /\ Mine(r) \in Nat
           /\ Before(r) \in Results /\ Before(r).used \in Nat /\ Before(r).exact \in BOOLEAN
           /\ Before(r).status \in [Points -> Statuses]
<1> USE DEF IInv
<1>1. root \in Requests /\ Known(root) /\ IsRoot(root)
  BY RowOf DEF Families, Linked, IsRoot
<1>2. Funds(root)
  BY <1>1 DEF Money
<1>3. Usage(root) \in Nat /\ Mine(r) \in Nat /\ sent[root] \in Nat
  BY <1>1, CountsAre DEF TypeOK
<1>4. Before(r) \in Results
  BY BeforeType
<1> QED BY <1>1, <1>2, <1>3, <1>4, ResultFields

LEMMA ReserveKeeps == ASSUME GeoConstants, IInv, NEW c \in Calls, Reserve(c) PROVE IInv'
<1> DEFINE k == NextPoint(c)
           row == [k |-> k, reserved |-> CallCeiling, outcome |-> "open"]
           new == [call[c] EXCEPT !.at = "send", !.k = k, !.attempts = IF k = call[c].k THEN @ ELSE 0]
<1>1. PICK r \in Requests : r = call[c].id
  BY DEF Reserve, IInv, Fits
<1>2. PICK root : root = request[r].root
  OBVIOUS
<1>3. /\ call[c].at = "run" /\ k \in Points /\ call[c].status[k] # "success"
      /\ call[c].count + CallCeiling <= Ceiling /\ Usage(root) + CallCeiling <= Ceiling
      /\ rows' = [rows EXCEPT ![r] = Append(@, row)] /\ Goes(c, new) /\ UNCHANGED <<request, owner, sent>>
  <2>1. call[c].at = "run" /\ k <= Coordinates /\ call[c].count + CallCeiling <= Ceiling
        /\ rows' = [rows EXCEPT ![r] = Append(@, row)] /\ Goes(c, new) /\ UNCHANGED <<request, owner, sent>>
    BY <1>1 DEF Reserve
  <2>2. Usage(root) + CallCeiling <= Ceiling
    BY <1>1, <1>2 DEF Reserve
  <2> QED BY <2>1, <2>2, NextPointIs DEF IInv
<1>4. owner[r] = c /\ FitsWork(c) /\ FitsCount(c)
  BY <1>1, <1>3 DEF IInv, Fits
<1>5. /\ Known(r) /\ ~Closed(r) /\ call[c].exact = Before(r).exact
      /\ \A p \in Points : Has(r, p) => call[c].status[p] = "success"
      /\ NoneOpen(r) /\ call[c].count = Before(r).used + Mine(r)
  BY <1>1, <1>3, <1>4 DEF FitsWork, FitsCount
<1>6. Moves(r, root)
  BY <1>2, <1>3, <1>5 DEF Moves, IInv, TypeOK
<1>0. PICK last : last = Len(rows[r]) + 1
  OBVIOUS
<1>7. /\ Appended(rows, rows', r, row)
      /\ rows'[r] # <<>> /\ Len(rows'[r]) = last /\ rows'[r][last] = row
      /\ DOMAIN rows'[r] = DOMAIN rows[r] \cup {last} /\ last \notin DOMAIN rows[r]
      /\ \A i \in DOMAIN rows[r] : rows'[r][i] = rows[r][i]
  <2>1. rows'[r] = Append(rows[r], row) /\ rows[r] \in Seq(Rows) /\ \A s \in Requests \ {r} : rows'[s] = rows[s]
    BY <1>3, RowsOf DEF IInv, TypeOK
  <2>2. /\ rows'[r] # <<>> /\ Len(rows'[r]) = last /\ rows'[r][last] = row
        /\ DOMAIN rows'[r] = DOMAIN rows[r] \cup {last} /\ last \notin DOMAIN rows[r]
        /\ \A i \in DOMAIN rows[r] : rows'[r][i] = rows[r][i]
    <3> HIDE DEF row
    <3> QED BY <1>0, <2>1
  <2> QED BY <1>0, <2>1, <2>2 DEF Appended
<1>8. Counted(r, CallCeiling) /\ Counts'
  <2>1. rows \in Tables /\ row.reserved = CallCeiling /\ CallCeiling \in Nat
    BY RowsOf, Given DEF IInv
  <2> HIDE DEF row
  <2> QED BY <2>1, <1>7, AppendedCounts DEF IInv, Counts, Counted
<1>9. /\ Usage(root)' = Usage(root) + CallCeiling /\ Mine(r)' = Mine(r) + CallCeiling
      /\ \A b \in Requests \ {root} : Known(b) => Usage(b)' = Usage(b)
  <2>1. CallCeiling \in Int
    BY Given
  <2> QED BY <1>6, <1>8, <2>1, UsageMoves DEF IInv
<1>10. /\ Usage(root) \in Nat /\ sent[root] \in Nat /\ Mine(r) \in Nat /\ Before(r).used \in Nat
       /\ sent[root] <= Usage(root) /\ CallCeiling \in Nat
       /\ Usage(root) = Before(r).used + Mine(r) /\ (Before(r).exact => sent[root] = Usage(root))
  <2>1. Books(r)
    BY <1>5 DEF IInv, Money
  <2> QED BY <1>2, <1>5, <2>1, NumbersOf, Given DEF Books, Funds
<1>11. Before(r)' = Before(r) /\ ~Closed(r)' /\ Known(r)' /\ request'[r].root = root /\ sent' = sent
  BY <1>2, <1>3, <1>5 DEF Before, Closed, Known
<1>12. Open(r, last)' /\ (\A i \in DOMAIN rows'[r] : Open(r, i)' => i = last) /\ ~NoneOpen(r)'
  <2>1. \A i \in DOMAIN rows[r] : ~Open(r, i)'
    BY <1>5, <1>7 DEF NoneOpen, Open
  <2>2. rows'[r][last].outcome = "open"
    BY <1>7
  <2> QED BY <1>7, <2>1, <2>2 DEF NoneOpen, Open
<1>13. (\A i \in DOMAIN rows'[r] : Success(r, i)' <=> i # last /\ Success(r, i))
  <2>1. rows'[r][last].outcome = "open"
    BY <1>7
  <2> QED BY <1>7, <2>1 DEF Success
<1>14. Books(r)'
  <2>1. ASSUME NEW b, b = root PROVE Usage(b)' = Before(r)'.used + Mine(r)'
    BY <1>9, <1>10, <1>11, <2>1
  <2> QED BY <1>11, <1>12, <2>1 DEF Books
<1>15. Funds(root)'
  BY <1>3, <1>9, <1>10, <1>11 DEF Funds
<1>16. Evident(r)'
  <2>1. Evident(r)
    BY <1>5 DEF IInv, Evidences
  <2>2. ~Has(r, k)
    BY <1>3, <1>5
  <2>3. rows'[r][last].k = k
    BY <1>7
  <2> QED BY <1>7, <1>11, <1>13, <2>1, <2>2, <2>3 DEF Evident, Has
<1>17. Fits(c)'
  <2>1. /\ call'[c].at = "send" /\ call'[c].id = r /\ call'[c].k = k /\ call'[c].count = call[c].count
        /\ call'[c].exact = call[c].exact /\ call'[c].status = call[c].status
    <3>1. call[c] \in Invocations /\ call'[c] = new
      BY <1>3, CallOf DEF IInv, Goes, TypeOK
    <3> HIDE DEF k
    <3> QED BY <1>1, <3>1 DEF Invocations
  <2>2. FitsWork(c)'
    <3>1. \A p \in Points : Has(r, p)' => Has(r, p)
      <4> QED BY <1>7, <1>11, <1>13 DEF Has
    <3> QED BY <1>5, <1>11, <2>1, <3>1 DEF FitsWork
  <2>3. FitsLast(c)'
    <3>1. /\ rows'[r] # <<>> /\ rows'[r][Len(rows'[r])].k = k /\ rows'[r][Len(rows'[r])].reserved = CallCeiling
      BY <1>7
    <3>2. rows'[r][Len(rows'[r])].outcome = "open"
          /\ \A i \in DOMAIN rows'[r] : rows'[r][i].outcome = "open" => i = Len(rows'[r])
      <4>1. Len(rows'[r]) = last
        BY <1>7
      <4> QED BY <1>12, <4>1 DEF Open
    <3>3. call'[c].count + CallCeiling = Before(r)'.used + Mine(r)'
      BY <1>5, <1>9, <1>10, <1>11, <2>1
    <3>4. InFlight(c)' = 0
      BY <2>1 DEF InFlight
    <3>5. ASSUME NEW b, b = root
          PROVE  /\ sent'[b] + CallCeiling <= Usage(b)' + InFlight(c)'
                 /\ call'[c].exact => sent'[b] + CallCeiling = Usage(b)' + InFlight(c)'
      BY <1>5, <1>9, <1>10, <1>11, <2>1, <3>4, <3>5
    <3> HIDE DEF k
    <3> QED BY <1>3, <1>11, <2>1, <3>1, <3>2, <3>3, <3>5 DEF FitsLast, Open
  <2>4. owner'[r] = c
    BY <1>3, <1>4
  <2> QED BY <2>1, <2>2, <2>3, <2>4 DEF Fits
<1>18. ASSUME NEW d \in Calls PROVE Fits(d)'
  <2>1. CASE d = c
    BY <1>17, <2>1
  <2>2. CASE d # c
    <3>1. call'[d] = call[d] /\ owner' = owner
      BY <1>3, <2>2 DEF Goes, IInv, TypeOK
    <3> QED BY <1>1, <1>3, <1>6, <1>9, <2>2, <3>1, OtherFits DEF IInv
  <2> QED BY <2>1, <2>2
<1>19. TypeOK'
  BY ReserveTyped DEF IInv
<1> QED BY <1>6, <1>8, <1>9, <1>14, <1>15, <1>16, <1>18, <1>19, MovesKeep

LEMMA SendKeeps == ASSUME GeoConstants, IInv, NEW c \in Calls, Send(c) PROVE IInv'
<1>1. PICK r \in Requests : r = call[c].id
  BY DEF Send, IInv, Fits
<1>2. PICK root : root = request[r].root
  OBVIOUS
<1>3. call[c].at = "send" /\ UNCHANGED <<request, rows, owner>>
  BY DEF Send
<1>4. PICK n \in 0..CallCeiling, outcome \in Outcomes :
        /\ sent' = [sent EXCEPT ![root] = @ + n]
        /\ Goes(c, [call[c] EXCEPT !.at = "record", !.got = [n |-> n, outcome |-> outcome]])
  BY <1>1, <1>2 DEF Send
<1>5. owner[r] = c /\ FitsWork(c) /\ FitsLast(c)
  BY <1>1, <1>3 DEF IInv, Fits
<1>6. Known(r) /\ ~Closed(r) /\ call[c].exact = Before(r).exact
  BY <1>1, <1>5 DEF FitsWork
<1>7. Moves(r, root)
  BY <1>2, <1>3, <1>4, <1>6 DEF Moves, IInv, TypeOK
<1>8. \A b : Usage(b)' = Usage(b) /\ Mine(b)' = Mine(b) /\ Before(b)' = Before(b)
  BY <1>3 DEF Usage, Mine, Before, Chain, Known
<1>9. /\ Usage(root) \in Nat /\ sent[root] \in Nat /\ Mine(r) \in Nat /\ Before(r).used \in Nat
      /\ n \in Nat /\ n <= CallCeiling /\ CallCeiling \in Nat /\ Usage(root) <= Ceiling /\ Ceiling \in Nat
  BY <1>2, <1>6, NumbersOf, Given DEF Funds
<1>10. /\ sent[root] + CallCeiling <= Usage(root)
       /\ call[c].exact => sent[root] + CallCeiling = Usage(root)
  <2>1. InFlight(c) = 0
    BY <1>3 DEF InFlight
  <2> QED BY <1>1, <1>2, <1>5, <1>9, <2>1 DEF FitsLast
<1>11. sent'[root] = sent[root] + n
  BY <1>2, <1>4, <1>6, NumbersOf DEF IInv, TypeOK
<1>12. /\ call'[c].at = "record" /\ call'[c].id = r /\ call'[c].k = call[c].k /\ call'[c].count = call[c].count
       /\ call'[c].exact = call[c].exact /\ call'[c].status = call[c].status
       /\ call'[c].got.n = n
  <2>1. call[c] \in Invocations /\ call'[c] = [call[c] EXCEPT !.at = "record", !.got = [n |-> n, outcome |-> outcome]]
    BY <1>4, CallOf DEF IInv, Goes, TypeOK
  <2> QED BY <1>1, <2>1 DEF Invocations
<1>13. ~NoneOpen(r)'
  <2>1. rows[r] # <<>> /\ Open(r, Len(rows[r])) /\ rows[r] \in Seq(Rows)
    BY <1>1, <1>5, RowsOf DEF FitsLast, IInv
  <2>2. Len(rows[r]) \in DOMAIN rows[r]
    BY <2>1
  <2> QED BY <1>3, <2>1, <2>2 DEF NoneOpen, Open
<1>14. Books(r)'
  <2>1. Books(r) /\ ~Closed(r)'
    BY <1>3, <1>6 DEF IInv, Money, Closed, Known
  <2> QED BY <1>2, <1>3, <1>6, <1>8, <1>13, <2>1 DEF Books
<1>15. Funds(root)'
  BY <1>8, <1>9, <1>10, <1>11 DEF Funds
<1>16. Evident(r)'
  <2>1. Evident(r)
    BY <1>6 DEF IInv, Evidences
  <2> QED BY <1>3, <1>8, <2>1 DEF Evident, Success
<1>17. Fits(c)'
  <2>1. FitsWork(c)'
    <3>1. \A p : Has(r, p)' <=> Has(r, p)
      BY <1>3, <1>8 DEF Has, Success
    <3>2. \A p \in Points : Has(r, p) => call[c].status[p] = "success"
      BY <1>1, <1>3, <1>5 DEF FitsWork
    <3> QED BY <1>3, <1>6, <1>8, <1>12, <3>1, <3>2 DEF FitsWork, Known, Closed
  <2>2. FitsLast(c)'
    <3>1. InFlight(c)' = n
      BY <1>12 DEF InFlight
    <3>2. ASSUME NEW b, b = root
          PROVE  /\ sent'[b] + CallCeiling <= Usage(b)' + InFlight(c)'
                 /\ call'[c].exact => sent'[b] + CallCeiling = Usage(b)' + InFlight(c)'
      BY <1>8, <1>9, <1>10, <1>11, <1>12, <3>1, <3>2
    <3> QED BY <1>1, <1>2, <1>3, <1>5, <1>8, <1>12, <3>2 DEF FitsLast, Open
  <2>3. call'[c].got \in [n : 0..CallCeiling, outcome : Outcomes]
    <3>1. call[c] \in Invocations /\ call'[c] = [call[c] EXCEPT !.at = "record", !.got = [n |-> n, outcome |-> outcome]]
      BY <1>4, CallOf DEF IInv, Goes, TypeOK
    <3>2. call'[c].got = [n |-> n, outcome |-> outcome]
      BY <3>1 DEF Invocations
    <3> QED BY <3>2
  <2>4. owner'[r] = c
    BY <1>3, <1>5
  <2> QED BY <1>12, <2>1, <2>2, <2>3, <2>4 DEF Fits
<1>18. ASSUME NEW d \in Calls PROVE Fits(d)'
  <2>1. CASE d = c
    BY <1>17, <2>1
  <2>2. CASE d # c
    <3>1. call'[d] = call[d] /\ owner' = owner
      BY <1>3, <1>4, <2>2 DEF Goes, IInv, TypeOK
    <3> QED BY <1>1, <1>3, <1>7, <1>8, <2>2, <3>1, OtherFits DEF IInv
  <2> QED BY <2>1, <2>2
<1>19. TypeOK' /\ Counts'
  BY <1>3, SendTyped DEF IInv, Counts
<1> QED BY <1>7, <1>8, <1>14, <1>15, <1>16, <1>18, <1>19, MovesKeep

\* Where an invocation goes on after an outcome.
LEMMA AfterIs ==
    ASSUME TypeOK, NEW c \in Calls, NEW outcome, NEW status
    PROVE  LET next == After(c, outcome, status)
           IN /\ next.id = call[c].id /\ next.exact = call[c].exact /\ next.count = call[c].count
              /\ next.at \in {"run", "finish"}
              /\ next.at = "run" => next.status = [call[c].status EXCEPT ![call[c].k] = status]
<1> DEFINE now == [call[c] EXCEPT !.status[call[c].k] = status]
<1>1. /\ now.id = call[c].id /\ now.exact = call[c].exact /\ now.count = call[c].count
      /\ now.status = [call[c].status EXCEPT ![call[c].k] = status]
      /\ now = [now EXCEPT !.at = now.at]
  <2>1. call[c] \in Invocations
    BY CallOf
  <2> QED BY <2>1 DEF Invocations
<1>2. DOMAIN now = {"at", "id", "auth", "status", "count", "exact", "k", "attempts", "got"}
  BY CallOf DEF Invocations
<1> DEFINE one == [now EXCEPT !.at = "run", !.k = call[c].k + 1, !.attempts = 0]
           two == [now EXCEPT !.at = "run", !.attempts = @ + 1]
           three == [now EXCEPT !.at = "finish", !.status = Unattempted(@, call[c].k + 1)]
<1>3. After(c, outcome, status) \in {one, two, three}
  BY DEF After
<1> HIDE DEF now
<1>4. one.id = now.id /\ one.exact = now.exact /\ one.count = now.count /\ one.at = "run" /\ one.status = now.status
  BY <1>2
<1>5. two.id = now.id /\ two.exact = now.exact /\ two.count = now.count /\ two.at = "run" /\ two.status = now.status
  BY <1>2
<1>6. three.id = now.id /\ three.exact = now.exact /\ three.count = now.count /\ three.at = "finish"
  BY <1>2
<1> HIDE DEF one, two, three
<1> QED BY <1>1, <1>3, <1>4, <1>5, <1>6

LEMMA RecordKeeps == ASSUME GeoConstants, IInv, NEW c \in Calls, Record(c) PROVE IInv'
<1>1. PICK r \in Requests : r = call[c].id
  BY DEF Record, IInv, Fits
<1>2. PICK root : root = request[r].root
  OBVIOUS
<1>3. PICK got \in [n : 0..CallCeiling, outcome : Outcomes] : got = call[c].got
  BY DEF Record, IInv, Fits
<1>4. PICK last : last = Len(rows[r])
  OBVIOUS
<1>5. PICK k : k = call[c].k
  OBVIOUS
<1> DEFINE status == IF got.outcome # "success" /\ call[c].status[k] = "indeterminate"
                     THEN "indeterminate" ELSE StatusOf(got.outcome)
           new == [After(c, got.outcome, status) EXCEPT !.count = @ + got.n, !.got = None]
<1>6. /\ call[c].at = "record" /\ UNCHANGED <<request, sent>>
      /\ rows' = [rows EXCEPT ![r][last] = [@ EXCEPT !.reserved = got.n, !.outcome = got.outcome]]
      /\ IF got.outcome = "defect" THEN Ends(c) ELSE Goes(c, new) /\ UNCHANGED owner
  BY <1>1, <1>3, <1>4, <1>5 DEF Record
<1>7. owner[r] = c /\ FitsWork(c) /\ FitsLast(c)
  BY <1>1, <1>6 DEF IInv, Fits
<1>8. /\ Known(r) /\ ~Closed(r) /\ call[c].exact = Before(r).exact
      /\ \A p \in Points : Has(r, p) => call[c].status[p] = "success"
  BY <1>1, <1>6, <1>7 DEF FitsWork
<1>9. /\ rows[r] # <<>> /\ rows[r][last].k = k /\ rows[r][last].outcome = "open"
      /\ rows[r][last].reserved = CallCeiling
      /\ \A i \in DOMAIN rows[r] : rows[r][i].outcome = "open" => i = last
      /\ call[c].status[k] # "success" /\ call[c].count + CallCeiling = Before(r).used + Mine(r)
      /\ sent[root] + CallCeiling <= Usage(root) + got.n
      /\ call[c].exact => sent[root] + CallCeiling = Usage(root) + got.n
  <2>1. InFlight(c) = got.n
    BY <1>3, <1>6 DEF InFlight
  <2> QED BY <1>1, <1>2, <1>4, <1>5, <1>7, <2>1 DEF FitsLast, Open
<1>10. /\ got.n \in Nat /\ got.n <= CallCeiling /\ CallCeiling \in Nat /\ got.outcome \in Outcomes
       /\ got.outcome # "open"
  BY Given DEF Outcomes, Answers
<1>11. /\ last \in DOMAIN rows[r] /\ DOMAIN rows'[r] = DOMAIN rows[r]
       /\ rows'[r][last].reserved = got.n /\ rows'[r][last].outcome = got.outcome /\ rows'[r][last].k = k
       /\ \A i \in DOMAIN rows[r] \ {last} : rows'[r][i] = rows[r][i]
       /\ \A s \in Requests \ {r} : rows'[s] = rows[s]
       /\ rows[r][last] \in Rows
  <2>1. rows[r] \in Seq(Rows) /\ rows \in [Requests -> Seq(Rows)]
    BY RowsOf DEF IInv, TypeOK
  <2>2. last \in DOMAIN rows[r]
    BY <1>4, <1>9, <2>1
  <2>3. rows[r][last] \in Rows
    BY <2>2, RowsOf DEF IInv
  <2>4. rows'[r][last] = [rows[r][last] EXCEPT !.reserved = got.n, !.outcome = got.outcome]
    BY <1>6, <2>1, <2>2
  <2>7. /\ DOMAIN rows'[r] = DOMAIN rows[r]
        /\ \A i \in DOMAIN rows[r] \ {last} : rows'[r][i] = rows[r][i]
        /\ \A s \in Requests \ {r} : rows'[s] = rows[s]
    BY <1>6, <2>1, <2>2
  <2>5. rows'[r][last].reserved = got.n /\ rows'[r][last].outcome = got.outcome
        /\ rows'[r][last].k = rows[r][last].k
    BY <2>3, <2>4 DEF Rows
  <2>6. rows[r][last].k = k
    BY <1>9
  <2> QED BY <2>2, <2>3, <2>5, <2>6, <2>7
<1>12. Moves(r, root)
  BY <1>2, <1>6, <1>8, <1>11 DEF Moves
<1>13. Counted(r, got.n - CallCeiling) /\ Counts'
  <2>1. rows \in Tables
    BY RowsOf DEF IInv
  <2>2. Lowered(rows, rows', r, last, got.n)
    BY <1>11 DEF Lowered
  <2>3. /\ IsFiniteSet(Reserved(rows', Requests))
        /\ \A ids \in SUBSET Requests :
             Cardinality(Reserved(rows, ids)) =
               Cardinality(Reserved(rows', ids)) + (IF r \in ids THEN CallCeiling - got.n ELSE 0)
    BY <1>9, <1>10, <1>11, <2>1, <2>2, LoweredCounts DEF IInv, Counts
  <2>4. \A ids \in SUBSET Requests : Cardinality(Reserved(rows', ids)) \in Nat
    BY <2>3, ReservedGrows, FS_Subset, FS_CardinalityType
  <2>5. ASSUME NEW ids \in SUBSET Requests
        PROVE  Cardinality(Reserved(rows', ids)) =
                 Cardinality(Reserved(rows, ids)) + (IF r \in ids THEN got.n - CallCeiling ELSE 0)
    BY <2>3, <2>4, <1>10
  <2> QED BY <2>3, <2>5 DEF Counted, Counts
<1>14. /\ Usage(root)' = Usage(root) + (got.n - CallCeiling) /\ Mine(r)' = Mine(r) + (got.n - CallCeiling)
       /\ \A b \in Requests \ {root} : Known(b) => Usage(b)' = Usage(b)
  <2>1. got.n - CallCeiling \in Int
    BY <1>10
  <2> QED BY <1>12, <1>13, <2>1, UsageMoves DEF IInv
<1>15. /\ Usage(root) \in Nat /\ sent[root] \in Nat /\ Mine(r) \in Nat /\ Before(r).used \in Nat
       /\ Usage(root) <= Ceiling /\ Ceiling \in Nat /\ Usage(root) = Before(r).used + Mine(r)
       /\ call[c].count \in Nat
  <2>1. Books(r)
    BY <1>8 DEF IInv, Money
  <2>2. Usage(root) = Before(r).used + Mine(r)
    BY <1>2, <1>8, <2>1 DEF Books
  <2>3. /\ Usage(root) \in Nat /\ sent[root] \in Nat /\ Mine(r) \in Nat /\ Before(r).used \in Nat /\ Funds(root)
    BY <1>2, <1>8, NumbersOf
  <2> QED BY <2>2, <2>3, Given, CallOf DEF Funds, IInv
<1>16. /\ Before(r)' = Before(r) /\ ~Closed(r)' /\ Known(r)' /\ request'[r].root = root /\ sent' = sent
  BY <1>2, <1>6, <1>8 DEF Before, Closed, Known
<1>17. /\ \A i \in DOMAIN rows'[r] : Success(r, i)' <=> (Success(r, i) \/ (i = last /\ got.outcome = "success"))
       /\ \A i \in DOMAIN rows'[r] : rows'[r][i].k = rows[r][i].k
       /\ NoneOpen(r)' /\ ~Success(r, last) /\ k \in Points
  <2>1. k \in Points
    BY <1>9, <1>11 DEF Rows
  <2>2. ~Success(r, last)
    BY <1>9 DEF Success
  <2>3. \A i \in DOMAIN rows'[r] : rows'[r][i].k = rows[r][i].k
    BY <1>9, <1>11
  <2>4. \A i \in DOMAIN rows'[r] : Success(r, i)' <=> (Success(r, i) \/ (i = last /\ got.outcome = "success"))
    BY <1>11, <2>2 DEF Success
  <2>5. NoneOpen(r)'
    BY <1>9, <1>10, <1>11 DEF NoneOpen, Open
  <2> QED BY <2>1, <2>2, <2>3, <2>4, <2>5
<1>18. ~Has(r, k)
  BY <1>8, <1>9, <1>17
<1>27. /\ sent[root] + CallCeiling <= Usage(root) + got.n
       /\ Before(r).exact => sent[root] + CallCeiling = Usage(root) + got.n
       /\ call[c].count + CallCeiling = Before(r).used + Mine(r)
  BY <1>8, <1>9
<1>25. /\ sent[root] <= Usage(root) + (got.n - CallCeiling)
       /\ Usage(root) + (got.n - CallCeiling) <= Ceiling
       /\ Before(r).exact => sent[root] = Usage(root) + (got.n - CallCeiling)
       /\ call[c].count + got.n = Before(r).used + (Mine(r) + (got.n - CallCeiling))
       /\ Usage(root) + (got.n - CallCeiling) = Before(r).used + (Mine(r) + (got.n - CallCeiling))
  <2> DEFINE s == sent[root]
             u == Usage(root)
             m == Mine(r)
             b == Before(r).used
             e == Before(r).exact
             n == got.n
             t == call[c].count
  <2>1. /\ u \in Nat /\ s \in Nat /\ m \in Nat /\ b \in Nat /\ t \in Nat /\ u <= Ceiling /\ Ceiling \in Nat /\ u = b + m
    BY <1>15
  <2>2. n \in Nat /\ n <= CallCeiling /\ CallCeiling \in Nat
    BY <1>10
  <2>3. s + CallCeiling <= u + n /\ (e => s + CallCeiling = u + n) /\ t + CallCeiling = b + m
    BY <1>27
  <2> HIDE DEF s, u, m, b, e, n, t
  <2>4. /\ s <= u + (n - CallCeiling) /\ u + (n - CallCeiling) <= Ceiling
        /\ t + n = b + (m + (n - CallCeiling)) /\ u + (n - CallCeiling) = b + (m + (n - CallCeiling))
    BY <2>1, <2>2, <2>3
  <2>5. e => s = u + (n - CallCeiling)
    BY <2>1, <2>2, <2>3
  <2> QED BY <2>4, <2>5 DEF s, u, m, b, e, n, t
<1>19. Books(r)'
  <2>1. ASSUME NEW b, b = root
        PROVE  Usage(b)' = Before(r)'.used + Mine(r)' /\ (Before(r)'.exact => sent'[b] = Usage(b)')
    BY <1>14, <1>16, <1>25, <2>1
  <2> QED BY <1>16, <2>1 DEF Books
<1>20. Funds(root)'
  <2>1. sent'[root] <= Usage(root)' /\ Usage(root)' <= Ceiling
    BY <1>14, <1>16, <1>25
  <2> QED BY <2>1 DEF Funds
<1>21. Evident(r)'
  <2>1. Evident(r)
    BY <1>8 DEF IInv, Evidences
  <2>3. \A i \in DOMAIN rows[r] : i <= last
    BY <1>4, RowsOf DEF IInv
  <2>2. /\ Before(r).status[k] # "success"
        /\ \A i \in DOMAIN rows[r] : rows[r][i].k = k => ~Success(r, i)
    BY <1>18 DEF Has
  <2> QED BY <1>9, <1>11, <1>16, <1>17, <2>1, <2>2, <2>3 DEF Evident
<1>22. Fits(c)'
  <2>1. CASE Ends(c)
    BY <2>1, EndedFits DEF IInv
  <2>2. CASE Goes(c, new) /\ UNCHANGED owner
    <3> DEFINE next == After(c, got.outcome, status)
    <3>1. /\ next.id = call[c].id /\ next.exact = call[c].exact /\ next.count = call[c].count
          /\ next.at \in {"run", "finish"}
          /\ next.at = "run" => next.status = [call[c].status EXCEPT ![k] = status]
      BY <1>5, AfterIs DEF IInv
    <3>2. next \in Invocations
      <4>1. status \in Statuses
        BY DEF StatusOf, Statuses
      <4>2. call[c].k \in Points
        BY <1>5, <1>17
      <4> QED BY <4>1, <4>2, AfterTyped DEF IInv
    <3>3. call'[c] = [next EXCEPT !.count = @ + got.n, !.got = None]
      BY <2>2 DEF Goes, IInv, TypeOK
    <3> HIDE DEF next
    <3>4. /\ call'[c].at = next.at /\ call'[c].id = r /\ call'[c].exact = call[c].exact
          /\ call'[c].count = call[c].count + got.n /\ call'[c].status = next.status
      BY <1>1, <3>1, <3>2, <3>3 DEF Invocations
    <3>5. ASSUME next.at = "run", NEW p \in Points, Has(r, p)' PROVE call'[c].status[p] = "success"
      <4>1. Has(r, p) \/ (p = k /\ got.outcome = "success")
        BY <3>5, <1>9, <1>11, <1>16, <1>17 DEF Has
      <4>2. call[c].status \in [Points -> Statuses] /\ call'[c].status = [call[c].status EXCEPT ![k] = status]
        BY <3>1, <3>4, <3>5, CallOf DEF IInv
      <4>3. CASE p = k
        <5>1. got.outcome = "success"
          BY <1>18, <4>1, <4>3
        <5>2. status = "success"
          BY <5>1 DEF StatusOf
        <5> HIDE DEF status
        <5> QED BY <4>2, <4>3, <5>2
      <4>4. CASE p # k
        <5> HIDE DEF status
        <5> QED BY <1>8, <4>1, <4>2, <4>4
      <4> QED BY <4>3, <4>4
    <3>6. FitsWork(c)'
      BY <1>8, <1>16, <3>1, <3>4, <3>5 DEF FitsWork
    <3>7. FitsCount(c)'
      <4>1. call[c].count + got.n = Before(r).used + (Mine(r) + (got.n - CallCeiling))
        BY <1>25
      <4> QED BY <1>14, <1>16, <1>17, <3>4, <4>1 DEF FitsCount
    <3>8. owner'[r] = c
      BY <1>7, <2>2
    <3> QED BY <3>1, <3>4, <3>6, <3>7, <3>8 DEF Fits
  <2> QED BY <1>6, <2>1, <2>2
<1>23. ASSUME NEW d \in Calls PROVE Fits(d)'
  <2>1. CASE d = c
    BY <1>22, <2>1
  <2>2. CASE d # c
    <3>1. call'[d] = call[d] /\ (call[d].at # "idle" => owner'[call[d].id] = owner[call[d].id])
      <4>1. CASE Ends(c)
        BY <2>2, <4>1, OthersWhenEnding DEF IInv
      <4>2. CASE Goes(c, new) /\ UNCHANGED owner
        BY <2>2, <4>2 DEF Goes, IInv, TypeOK
      <4> QED BY <1>6, <4>1, <4>2
    <3> QED BY <1>1, <1>6, <1>12, <1>14, <2>2, <3>1, OtherFits DEF IInv
  <2> QED BY <2>1, <2>2
<1>24. TypeOK'
  BY RecordTyped DEF IInv
<1> QED BY <1>12, <1>13, <1>14, <1>19, <1>20, <1>21, <1>23, <1>24, MovesKeep

-----------------------------------------------------------------------------
(* Steps of the journal.                                                   *)

\* A request is concluded with a result that has the books of its chain.
LEMMA Concludes ==
    ASSUME GeoConstants, IInv, NEW r \in Requests, Known(r), ~Closed(r), NEW result \in Results,
           Complete(r, result), UNCHANGED <<rows, sent>>,
           \A root : root = request[r].root =>
             result.used = Usage(root) /\ (result.exact => sent[root] = Usage(root))
    PROVE  /\ Families' /\ Money' /\ Evidences' /\ Counts'
           /\ \A d \in Calls :
                /\ call'[d] = call[d]
                /\ call[d].at # "idle" => call[d].id # r /\ owner'[call[d].id] = owner[call[d].id]
                => Fits(d)'
<1> USE DEF IInv
<1>1. /\ \A s \in Requests \ {r} : request'[s] = request[s]
      /\ request'[r] # None /\ request'[r].root = request[r].root /\ request'[r].prior = request[r].prior
      /\ request'[r].baseline = request[r].baseline
      /\ request'[r].closed /\ request'[r].result = result
  <2>1. request[r] \in RequestRows
    BY RowOf
  <2>2. \A s \in Requests \ {r} : request'[s] = request[s]
    BY DEF Complete, TypeOK
  <2>3. request'[r] = [request[r] EXCEPT !.closed = TRUE, !.result = result]
    BY DEF Complete, TypeOK
  <2>4. request'[r] \in RequestRows
    BY <2>1, <2>3 DEF RequestRows
  <2>5. request'[r] # None
    BY <2>4, Given
  <2> QED BY <2>1, <2>2, <2>3, <2>5 DEF RequestRows
<1>2. /\ \A s \in Requests : Known(s)' <=> Known(s)
      /\ \A s \in Requests \ {r} : SameRow(s) /\ (Closed(s)' <=> Closed(s))
      /\ Closed(r)' /\ \A s \in Requests : Closed(s) => SameRow(s)
      /\ \A s \in Requests : Known(s) =>
           request'[s].root = request[s].root /\ request'[s].prior = request[s].prior
             /\ request'[s].baseline = request[s].baseline
  BY <1>1 DEF SameRow, Known, Closed
<1>3. \A s \in Requests : (Tip(s)' <=> Tip(s)) /\ (IsRoot(s)' <=> IsRoot(s))
  BY <1>2 DEF Tip, IsRoot
<1>4. \A b : Chain(b)' = Chain(b) /\ Mine(b)' = Mine(b)
  BY <1>2 DEF Chain, Mine
<1>5. \A b \in Requests : Known(b) => Usage(b)' = Usage(b)
  <2> TAKE b \in Requests
  <2> HAVE Known(b)
  <2>1. Cardinality(Reserved(rows', Chain(b)')) = Cardinality(Reserved(rows, Chain(b)))
    BY <1>4
  <2> QED BY <1>2, <2>1 DEF Usage
<1>6. ASSUME NEW s \in Requests, Known(s) PROVE Before(s)' = Before(s)
  <2>1. CASE request[s].prior = None
    BY <1>2, <1>6, <2>1 DEF Before
  <2>2. CASE request[s].prior # None
    <3>1. request[s].prior \in Requests /\ Closed(request[s].prior)
      BY <1>6, <2>2, RowOf DEF Families, Linked
    <3>2. request'[request[s].prior] = request[request[s].prior]
      BY <1>1, <3>1
    <3> QED BY <1>2, <1>6, <2>2, <3>2 DEF Before
  <2> QED BY <2>1, <2>2
<1>7. Families'
  <2>1. ASSUME NEW s \in Requests, Known(s)' PROVE Linked(s)'
    <3>1. Known(s) /\ Linked(s)
      BY <1>2, <2>1 DEF Families
    <3>2. request[s].root \in Requests /\ request[s].prior \in Requests \cup {None}
      BY <3>1, RowOf
    <3>3. request'[s].closed <=> request'[s].result # None
      <4>1. CASE s = r
        BY <1>1, <4>1, Given
      <4>2. CASE s # r
        BY <1>1, <3>1, <4>2 DEF Linked
      <4> QED BY <4>1, <4>2
    <3>4. PICK root \in Requests, prior \in Requests \cup {None} : root = request[s].root /\ prior = request[s].prior
      BY <3>2
    <3>5. /\ request'[s].root = root /\ request'[s].prior = prior /\ request'[s].baseline = request[s].baseline
          /\ prior = None => root = s
      BY <1>2, <3>1, <3>4 DEF Linked
    <3>6. Known(root)' /\ request'[root].root = root /\ request'[root].prior = None
      BY <1>2, <3>1, <3>4 DEF Linked
    <3>7. ASSUME prior # None
          PROVE  Closed(prior)' /\ request'[prior].root = root /\ request'[s].baseline = 0
      <4>1. Closed(prior) /\ request[prior].root = root /\ request[s].baseline = 0
        BY <3>1, <3>4, <3>7 DEF Linked
      <4>2. prior \in Requests \ {r} /\ Known(prior)
        BY <3>4, <3>7, <4>1 DEF Closed
      <4> QED BY <1>2, <3>5, <4>1, <4>2
    <3> QED BY <2>1, <3>3, <3>5, <3>6, <3>7 DEF Linked, Known, Closed
  <2>2. \A s \in Requests : ~Known(s)' => rows'[s] = <<>>
    BY <1>2 DEF Families
  <2>3. \A s, t \in Requests : Tip(s)' /\ Tip(t)' /\ request'[s].root = request'[t].root => s = t
    BY <1>2, <1>3 DEF Families, Tip
  <2> QED BY <2>1, <2>2, <2>3 DEF Families
<1>8. ASSUME NEW s \in Requests, Known(s) PROVE Books(s)'
  <2>1. PICK root : root = request[s].root
    OBVIOUS
  <2>2. root \in Requests /\ Known(root) /\ request'[s].root = root /\ sent' = sent
    BY <1>2, <1>8, <2>1, RowOf DEF Families, Linked
  <2>3. Usage(root)' = Usage(root)
    BY <1>5, <2>2
  <2>4. CASE s = r
    <3>1. Closed(s)' /\ request'[s].result = result
      BY <1>1, <1>2, <2>4
    <3>2. result.used = Usage(root) /\ (result.exact => sent[root] = Usage(root))
      BY <2>1, <2>4
    <3> QED BY <2>2, <2>3, <3>1, <3>2 DEF Books
  <2>5. CASE s # r
    <3>1. request'[s] = request[s] /\ (Closed(s)' <=> Closed(s)) /\ (Tip(s)' <=> Tip(s))
      BY <1>1, <1>2, <1>3, <2>5
    <3>2. Before(s)' = Before(s) /\ Mine(s)' = Mine(s) /\ (NoneOpen(s)' <=> NoneOpen(s)) /\ Books(s)
      BY <1>4, <1>6, <1>8 DEF NoneOpen, Open, Money
    <3> QED BY <2>1, <2>2, <2>3, <3>1, <3>2 DEF Books
  <2> QED BY <2>4, <2>5
<1>9. Money'
  <2>1. \A b \in Requests : IsRoot(b)' => Funds(b)'
    BY <1>3, <1>5 DEF Money, Funds, IsRoot
  <2>2. \A b \in Requests : ~IsRoot(b)' => sent'[b] = 0
    BY <1>3 DEF Money
  <2> QED BY <1>2, <1>8, <2>1, <2>2 DEF Money
<1>10. Evidences' /\ Counts'
  BY <1>2, <1>6 DEF Evidences, Evident, Success, Counts
<1>11. ASSUME NEW d \in Calls, call'[d] = call[d],
              call[d].at # "idle" => call[d].id # r /\ owner'[call[d].id] = owner[call[d].id]
       PROVE  Fits(d)'
  <2>1. call[d].at # "idle" => SameRow(call[d].id) /\ rows'[call[d].id] = rows[call[d].id]
    BY <1>2, <1>11 DEF Fits
  <2>2. ASSUME call[d].at \in {"send", "record"}, NEW b \in Requests, b = request[call[d].id].root
        PROVE  sent'[b] = sent[b] /\ Usage(b)' = Usage(b)
    <3>1. Known(b)
      BY <2>2 DEF Fits, FitsWork, Families, Linked
    <3> QED BY <1>5, <3>1
  <2> QED BY <1>2, <1>11, <2>1, <2>2, FitsFrame
<1> QED BY <1>7, <1>9, <1>10, <1>11

LEMMA FinishKeeps == ASSUME GeoConstants, IInv, NEW c \in Calls, Finish(c) PROVE IInv'
<1>1. PICK r \in Requests : r = call[c].id
  BY DEF Finish, IInv, Fits
<1> DEFINE result == [status |-> call[c].status, used |-> call[c].count, exact |-> call[c].exact]
<1>2. /\ call[c].at = "finish" /\ Complete(r, result) /\ Ends(c) /\ UNCHANGED <<rows, sent>>
  BY <1>1 DEF Finish
<1>3. owner[r] = c /\ FitsWork(c) /\ FitsCount(c)
  BY <1>1, <1>2 DEF IInv, Fits
<1>4. /\ Known(r) /\ ~Closed(r) /\ call[c].exact = Before(r).exact
      /\ NoneOpen(r) /\ call[c].count = Before(r).used + Mine(r)
  BY <1>1, <1>3 DEF FitsWork, FitsCount
<1>5. result \in Results
  BY FinishResult DEF IInv
<1>6. \A root : root = request[r].root =>
        result.used = Usage(root) /\ (result.exact => sent[root] = Usage(root))
  BY <1>4 DEF IInv, Money, Books
<1>7. ASSUME NEW d \in Calls, d # c
      PROVE  /\ call'[d] = call[d]
             /\ call[d].at # "idle" => call[d].id # r /\ owner'[call[d].id] = owner[call[d].id]
  <2>1. call'[d] = call[d] /\ (call[d].at # "idle" => owner'[call[d].id] = owner[call[d].id])
    BY <1>2, <1>7, OthersWhenEnding DEF IInv
  <2>2. call[d].at # "idle" => call[d].id # r
    BY <1>1, <1>2, <1>7, Alone DEF IInv
  <2> QED BY <2>1, <2>2
<1>8. TypeOK'
  BY FinishTyped DEF IInv
<1>9. Fits(c)'
  BY <1>2, EndedFits DEF IInv
<1> HIDE DEF result
<1>10. /\ Families' /\ Money' /\ Evidences' /\ Counts'
       /\ \A d \in Calls :
            /\ call'[d] = call[d]
            /\ call[d].at # "idle" => call[d].id # r /\ owner'[call[d].id] = owner[call[d].id]
            => Fits(d)'
  BY <1>2, <1>4, <1>5, <1>6, Concludes
<1>11. \A d \in Calls : Fits(d)'
  BY <1>7, <1>9, <1>10
<1> QED BY <1>8, <1>10, <1>11 DEF IInv

LEMMA AnswerKeeps == ASSUME GeoConstants, IInv, NEW r \in Requests, AnswerKnown(r) PROVE IInv'
<1>1. owner[r] = None /\ Known(r) /\ ~Closed(r) /\ Complete(r, Reconciled(r)) /\ UNCHANGED <<rows, owner, call, sent>>
  BY DEF AnswerKnown
<1>2. /\ Reconciled(r) \in Results /\ Reconciled(r).used = Before(r).used + Mine(r)
      /\ Reconciled(r).exact <=> Before(r).exact /\ NoneOpen(r)
  BY <1>1, ReconciledIs DEF IInv
<1>3. \A root : root = request[r].root =>
        Reconciled(r).used = Usage(root) /\ (Reconciled(r).exact => sent[root] = Usage(root))
  BY <1>1, <1>2 DEF IInv, Money, Books
<1>4. ASSUME NEW d \in Calls
      PROVE  /\ call'[d] = call[d]
             /\ call[d].at # "idle" => call[d].id # r /\ owner'[call[d].id] = owner[call[d].id]
  <2>1. call[d].at # "idle" => owner[call[d].id] = d
    BY DEF IInv, Fits
  <2> QED BY <1>1, <2>1, Given
<1>5. TypeOK'
  BY AnswerTyped DEF IInv
<1>6. /\ Families' /\ Money' /\ Evidences' /\ Counts'
      /\ \A d \in Calls :
           /\ call'[d] = call[d]
           /\ call[d].at # "idle" => call[d].id # r /\ owner'[call[d].id] = owner[call[d].id]
           => Fits(d)'
  BY <1>1, <1>2, <1>3, Concludes
<1>7. \A d \in Calls : Fits(d)'
  BY <1>4, <1>6
<1> QED BY <1>5, <1>6, <1>7 DEF IInv

\* A request that is admitted: it begins with the account of what it recovers.
LEMMA AdmittedKeeps ==
    ASSUME GeoConstants, IInv, NEW c \in Calls, Admit(c), Admissible(c),
           Goes(c, [call[c] EXCEPT !.at = "run"]), UNCHANGED owner,
           NEW r, r = call[c].id, NEW prior, prior = call[c].auth.prior,
           request' = [request EXCEPT ![r] =
             [auth |-> call[c].auth, prior |-> prior,
              root |-> IF prior = None THEN r ELSE request[prior].root,
              closed |-> FALSE, tracked |-> TRUE, baseline |-> 0, result |-> None]]
    PROVE  IInv'
<1> USE DEF IInv
<1>1. /\ r \in Requests /\ owner[r] = c /\ call[c].auth \in Authorizations /\ ~Known(r) /\ prior # r
      /\ prior = None => call[c].count = 0 /\ call[c].exact
      /\ prior # None => /\ Closed(prior)
                         /\ call[c].count = request[prior].result.used
                         /\ call[c].exact = request[prior].result.exact
                         /\ \A k \in Points : request[prior].result.status[k] = "success"
                              => call[c].status[k] = "success"
  BY DEF Admit, Fits, FitsNew
<1>2. prior \in Requests \cup {None} /\ UNCHANGED <<rows, sent>>
  BY <1>1 DEF Authorizations, Admit
<1>3. PICK root : root = IF prior = None THEN r ELSE request[prior].root
  OBVIOUS
<1>4. /\ request'[r] # None /\ request'[r].root = root /\ request'[r].prior = prior /\ ~request'[r].closed
      /\ request'[r].baseline = 0 /\ request'[r].result = None
      /\ \A s \in Requests \ {r} : request'[s] = request[s]
  <2> DEFINE row == [auth |-> call[c].auth, prior |-> prior, root |-> root,
                     closed |-> FALSE, tracked |-> TRUE, baseline |-> 0, result |-> None]
  <2>1. request' = [request EXCEPT ![r] = row]
    BY <1>3
  <2>2. row.root = root /\ row.prior = prior /\ ~row.closed /\ row.baseline = 0 /\ row.result = None
    OBVIOUS
  <2>3. root \in Requests
    BY <1>1, <1>2, <1>3, RowOf DEF Closed
  <2>4. row \in RequestRows
    BY <1>1, <1>2, <2>3 DEF RequestRows
  <2>5. row # None
    BY <2>4, Given
  <2> HIDE DEF row
  <2>6. request'[r] = row /\ \A s \in Requests \ {r} : request'[s] = request[s]
    BY <1>1, <2>1 DEF TypeOK
  <2> QED BY <2>2, <2>5, <2>6
<1>5. /\ rows[r] = <<>> /\ \A s \in Requests : Known(s) => request[s].prior # r /\ request[s].root # r
  <2>1. ASSUME NEW s \in Requests, Known(s) PROVE request[s].prior # r /\ request[s].root # r
    BY <1>1, <2>1, UnknownIsNoPrior, SMTT(40) DEF Families, Linked, Closed
  <2> QED BY <1>1, <2>1, SMTT(40) DEF Families
<1>6. prior # None => /\ \A s \in Requests : Known(s) => request[s].prior # prior
                      /\ Known(prior) /\ Tip(prior) /\ Closed(prior) /\ request[prior].root = root
                      /\ root \in Requests /\ Known(root) /\ root # r /\ prior \in Requests
  <2> SUFFICES ASSUME prior # None
               PROVE  /\ \A s \in Requests : Known(s) => request[s].prior # prior
                      /\ Known(prior) /\ Tip(prior) /\ Closed(prior) /\ request[prior].root = root
                      /\ root \in Requests /\ Known(root) /\ root # r /\ prior \in Requests
    OBVIOUS
  <2>1. \A s \in Requests : Known(s) => request[s].prior # prior
    BY SMTT(40) DEF Admissible
  <2>2. prior \in Requests /\ Closed(prior) /\ Known(prior) /\ request[prior].root = root
    BY <1>1, <1>2, <1>3 DEF Closed
  <2>3. root \in Requests /\ Known(root)
    BY <2>2, RowOf DEF Families, Linked
  <2> QED BY <1>1, <2>1, <2>2, <2>3 DEF Tip
<1>7. prior = None => root = r
  BY <1>3, SMTT(40)
<1>8. /\ \A s \in Requests : Known(s)' <=> (Known(s) \/ s = r)
      /\ \A s \in Requests : Known(s) => s # r /\ request'[s] = request[s] /\ SameRow(s)
      /\ \A s \in Requests : Closed(s)' <=> Closed(s)
      /\ \A s \in Requests \ {r} : SameRow(s)
  BY <1>1, <1>4, ZenonT(60) DEF Known, Closed, SameRow
<1>9. \A s \in Requests : Tip(s)' <=> (s = r \/ (Tip(s) /\ s # prior))
  <2>1. Tip(r)'
    <3>1. \A s \in Requests : Known(s)' => request'[s].prior # r
      BY <1>1, <1>4, <1>5, <1>8
    <3> QED BY <1>1, <1>8, <3>1 DEF Tip
  <2>2. ASSUME NEW s \in Requests, s # r PROVE Tip(s)' <=> Tip(s) /\ s # prior
    BY <1>1, <1>4, <1>8, <2>2 DEF Tip
  <2> QED BY <2>1, <2>2
<1>10. \A s \in Requests : Known(s) => Before(s)' = Before(s)
  <2> TAKE s \in Requests
  <2> HAVE Known(s)
  <2> QED BY <1>8, SameBefore DEF Closed
<1>11. /\ \A b \in Requests : Known(b) => Usage(b)' = Usage(b)
       /\ prior = None => Usage(r)' = 0
       /\ \A s : Mine(s)' = Mine(s) /\ Mine(r) = 0
  <2>1. ASSUME NEW b \in Requests, Known(b) PROVE Usage(b)' = Usage(b)
    <3>1. Chain(b)' \in {Chain(b), Chain(b) \cup {r}}
      BY <1>8 DEF Chain
    <3>2. Reserved(rows, Chain(b) \cup {r}) = Reserved(rows, Chain(b))
      <4>1. DOMAIN rows[r] = {}
        BY <1>5
      <4>2. ASSUME NEW t PROVE t \in Reserved(rows, Chain(b) \cup {r}) <=> t \in Reserved(rows, Chain(b))
        BY <4>1, ReservedUnits
      <4> QED BY <4>2
    <3>3. Reserved(rows', Chain(b)') = Reserved(rows, Chain(b))
      BY <1>2, <3>1, <3>2
    <3>4. request'[b].baseline = request[b].baseline
      BY <1>8, <2>1
    <3> QED BY <3>3, <3>4 DEF Usage
  <2>2. Reserved(rows, {r}) = {}
    BY <1>5, NothingReserved
  <2>3. ASSUME prior = None PROVE Usage(r)' = 0
    <3>1. Chain(r)' = {r}
      BY <1>1, <1>4, <1>5, <1>7, <1>8, <2>3 DEF Chain
    <3>2. Cardinality(Reserved(rows', Chain(r)')) = 0
      BY <1>2, <2>2, <3>1, FS_EmptySet
    <3> QED BY <1>4, <3>2 DEF Usage
  <2>4. \A s : Mine(s)' = Mine(s) /\ Mine(r) = 0
    BY <1>2, <2>2, FS_EmptySet DEF Mine
  <2> QED BY <2>1, <2>3, <2>4
<1>12. Families'
  <2>1. ASSUME NEW s \in Requests, Known(s) PROVE Linked(s)'
    <3>1. Linked(s) /\ SameRow(s) /\ request'[s] = request[s]
      BY <1>8, <2>1 DEF Families
    <3>2. PICK t \in Requests, p \in Requests \cup {None} : t = request[s].root /\ p = request[s].prior
      BY <2>1, RowOf
    <3>3. Known(t) /\ (p # None => Known(p))
      BY <3>1, <3>2 DEF Linked, Closed
    <3>4. request'[t] = request[t] /\ (p # None => request'[p] = request[p] /\ Closed(p)')
      BY <1>8, <3>1, <3>2, <3>3 DEF Linked
    <3> QED BY <1>8, <3>1, <3>2, <3>3, <3>4 DEF Linked
  <2>2. Linked(r)'
    <3>1. CASE prior = None
      BY <1>1, <1>4, <1>7, <1>8, <3>1, SMTT(40) DEF Linked
    <3>2. CASE prior # None
      <4>1. request'[prior] = request[prior] /\ Closed(prior)' /\ request'[root] = request[root] /\ Known(root)'
        BY <1>6, <1>8, <3>2
      <4>2. request[root].root = root /\ request[root].prior = None
        BY <1>6, <3>2 DEF Families, Linked
      <4> QED BY <1>4, <1>6, <3>2, <4>1, <4>2 DEF Linked
    <3> QED BY <3>1, <3>2
  <2>3. \A s \in Requests : ~Known(s)' => rows'[s] = <<>>
    BY <1>2, <1>8 DEF Families
  <2>4. ASSUME NEW s \in Requests, s # r, Tip(s)', request'[s].root = root PROVE FALSE
    <3>1. Tip(s) /\ s # prior /\ Known(s) /\ request[s].root = root
      BY <1>8, <1>9, <2>4 DEF Tip
    <3> QED BY <1>5, <1>6, <1>7, <3>1 DEF Families
  <2>5. ASSUME NEW s \in Requests, NEW t \in Requests, Tip(s)', Tip(t)', request'[s].root = request'[t].root PROVE s = t
    <3>1. CASE s # r /\ t # r
      <4>1. Tip(s) /\ Tip(t) /\ request'[s] = request[s] /\ request'[t] = request[t]
        BY <1>8, <1>9, <2>5, <3>1 DEF Tip
      <4> QED BY <2>5, <4>1 DEF Families
    <3>2. CASE s = r \/ t = r
      BY <1>4, <2>4, <2>5, <3>2
    <3> QED BY <3>1, <3>2
  <2>6. \A s \in Requests : Known(s)' => Linked(s)'
    BY <1>8, <2>1, <2>2
  <2> QED BY <2>3, <2>5, <2>6, SMTT(40) DEF Families
<1>13. /\ Before(r)' = IF prior = None THEN NoResult ELSE request[prior].result
  BY <1>4, <1>6, <1>8 DEF Before
<1>14. Books(r)' /\ (prior = None => Funds(r)')
  <2>1. ASSUME NEW b, b = root
        PROVE  Usage(b)' = Before(r)'.used + Mine(r)' /\ (Before(r)'.exact => sent'[b] = Usage(b)')
    <3>1. CASE prior = None
      <4>1. b = r /\ Usage(b)' = 0
        BY <1>7, <1>11, <2>1, <3>1
      <4>2. sent'[r] = 0
        BY <1>1, <1>2 DEF Money, IsRoot
      <4>3. Before(r)'.used = 0 /\ Mine(r)' = 0
        BY <1>11, <1>13, <3>1 DEF NoResult
      <4> QED BY <4>1, <4>2, <4>3
    <3>2. CASE prior # None
      <4>1. Books(prior)
        BY <1>6, <3>2 DEF Money
      <4>2. /\ request[prior].result.used = Usage(b)
            /\ request[prior].result.exact => sent[b] = Usage(b)
        BY <1>6, <2>1, <3>2, <4>1 DEF Books
      <4>3. Usage(b)' = Usage(b) /\ Usage(b) \in Nat /\ Mine(r)' = 0
        BY <1>6, <1>11, <2>1, <3>2, CountsAre
      <4> QED BY <1>2, <1>13, <3>2, <4>2, <4>3
    <3> QED BY <3>1, <3>2
  <2>2. ~Closed(r)' /\ request'[r].root = root
    BY <1>4 DEF Closed
  <2>3. Books(r)'
    BY <2>1, <2>2 DEF Books
  <2>4. prior = None => Funds(r)'
    <3>1. sent'[r] = 0
      BY <1>1, <1>2, SMTT(40) DEF Money, IsRoot
    <3> QED BY <1>11, <3>1, Given DEF Funds
  <2> QED BY <2>3, <2>4
<1>15. ASSUME NEW s \in Requests, Known(s) PROVE Books(s)'
  <2>1. PICK b : b = request[s].root
    OBVIOUS
  <2>2. b \in Requests /\ Known(b) /\ request'[s] = request[s] /\ sent' = sent /\ Books(s)
    BY <1>2, <1>8, <1>15, <2>1, RowOf DEF Families, Linked, Money
  <2>3. Usage(b)' = Usage(b) /\ Before(s)' = Before(s) /\ Mine(s)' = Mine(s)
    BY <1>10, <1>11, <1>15, <2>2
  <2>4. (Closed(s)' <=> Closed(s)) /\ (Tip(s)' => Tip(s)) /\ (NoneOpen(s)' <=> NoneOpen(s))
    BY <1>2, <1>8, <1>9, <1>15 DEF NoneOpen, Open
  <2> QED BY <2>1, <2>2, <2>3, <2>4 DEF Books
<1>16. Money'
  <2>1. \A s \in Requests : Known(s)' => Books(s)'
    BY <1>8, <1>14, <1>15
  <2>2. \A s \in Requests : IsRoot(s)' <=> (IsRoot(s) \/ (s = r /\ prior = None))
    BY <1>4, <1>6, <1>7, <1>8 DEF IsRoot
  <2>3. \A s \in Requests : IsRoot(s) => Funds(s)'
    BY <1>2, <1>11 DEF Money, Funds, IsRoot
  <2>4. \A s \in Requests : IsRoot(s)' => Funds(s)'
    BY <1>14, <2>2, <2>3
  <2>5. \A s \in Requests : ~IsRoot(s)' => sent'[s] = 0
    BY <1>2, <2>2 DEF Money
  <2> QED BY <2>1, <2>4, <2>5 DEF Money
<1>17. Evidences' /\ Counts'
  <2>1. Evident(r)'
    BY <1>2, <1>5 DEF Evident
  <2>2. \A s \in Requests : Known(s) => Evident(s)'
    BY <1>2, <1>10 DEF Evidences, Evident, Success
  <2> QED BY <1>2, <1>8, <2>1, <2>2 DEF Evidences, Counts
<1>18. ASSUME NEW d \in Calls, d # c PROVE Fits(d)'
  <2>1. call'[d] = call[d] /\ owner' = owner
    BY <1>18 DEF Goes, TypeOK
  <2>2. call[d].at # "idle" => call[d].id \in Requests \ {r}
    BY <1>1, <1>18 DEF Fits
  <2>3. call[d].at # "idle" => SameRow(call[d].id) /\ rows'[call[d].id] = rows[call[d].id]
    BY <1>2, <1>8, <2>2
  <2>4. \A s \in Requests : Closed(s) => SameRow(s)
    BY <1>8 DEF Closed
  <2>5. ASSUME call[d].at \in {"send", "record"}, NEW b \in Requests, b = request[call[d].id].root
        PROVE  sent'[b] = sent[b] /\ Usage(b)' = Usage(b)
    <3>1. Known(b)
      BY <2>5 DEF Fits, FitsWork, Families, Linked
    <3> QED BY <1>2, <1>11, <3>1
  <2> QED BY <2>1, <2>3, <2>4, <2>5, FitsFrame
<1>19. Fits(c)'
  <2>1. /\ call'[c].at = "run" /\ call'[c].id = r /\ call'[c].count = call[c].count
        /\ call'[c].exact = call[c].exact /\ call'[c].status = call[c].status
    <3>1. call[c] \in Invocations /\ call'[c] = [call[c] EXCEPT !.at = "run"]
      BY CallOf DEF Goes, TypeOK
    <3> QED BY <3>1 DEF Invocations
  <2>2. FitsWork(c)'
    <3>1. \A k \in Points : Has(r, k)' => call[c].status[k] = "success"
      <4> TAKE k \in Points
      <4> HAVE Has(r, k)'
      <4>1. Before(r)'.status[k] = "success"
        BY <1>2, <1>5 DEF Has
      <4>2. prior # None
        BY <1>13, <4>1 DEF NoResult, Untried
      <4> QED BY <1>1, <1>13, <4>1, <4>2
    <3>2. call[c].exact = Before(r)'.exact
      <4>1. CASE prior = None
        <5>1. call[c].exact \in BOOLEAN /\ call[c].exact
          BY <1>1, <4>1, CallOf
        <5>2. call[c].exact = TRUE
          BY <5>1
        <5>3. Before(r)'.exact = TRUE
          BY <1>13, <4>1 DEF NoResult
        <5> QED BY <5>2, <5>3
      <4>2. CASE prior # None
        BY <1>1, <1>13, <4>2, SMTT(40)
      <4> QED BY <4>1, <4>2
    <3>3. Known(r)' /\ ~Closed(r)'
      BY <1>1, <1>4, <1>8 DEF Closed
    <3> QED BY <2>1, <3>1, <3>2, <3>3 DEF FitsWork
  <2>3. FitsCount(c)'
    <3>1. NoneOpen(r)'
      BY <1>2, <1>5 DEF NoneOpen
    <3>2. call[c].count = Before(r)'.used + Mine(r)'
      <4>1. Mine(r)' = 0 /\ call[c].count \in Nat
        BY <1>11, CallOf
      <4>2. Before(r)'.used = call[c].count
        BY <1>1, <1>13 DEF NoResult
      <4> QED BY <4>1, <4>2
    <3> QED BY <2>1, <3>1, <3>2 DEF FitsCount
  <2>4. owner'[r] = c
    BY <1>1
  <2> QED BY <1>1, <2>1, <2>2, <2>3, <2>4 DEF Fits
<1>20. TypeOK'
  BY AdmitTyped
<1>21. \A d \in Calls : Fits(d)'
  BY <1>18, <1>19
<1> QED BY <1>12, <1>16, <1>17, <1>20, <1>21, SMTT(40)

LEMMA AdmitKeeps == ASSUME GeoConstants, IInv, NEW c \in Calls, Admit(c) PROVE IInv'
<1>1. TypeOK' /\ UNCHANGED <<rows, sent>>
  BY AdmitTyped DEF IInv, Admit
<1>2. CASE Ends(c) /\ UNCHANGED request
  BY <1>1, <1>2, EndsKeeps
<1>3. CASE ~(Ends(c) /\ UNCHANGED request)
  <2>1. PICK r, prior : r = call[c].id /\ prior = call[c].auth.prior
    OBVIOUS
  <2>2. /\ Admissible(c) /\ Goes(c, [call[c] EXCEPT !.at = "run"]) /\ UNCHANGED owner
        /\ request' = [request EXCEPT ![r] =
             [auth |-> call[c].auth, prior |-> prior,
              root |-> IF prior = None THEN r ELSE request[prior].root,
              closed |-> FALSE, tracked |-> TRUE, baseline |-> 0, result |-> None]]
    BY <1>3, <2>1 DEF Admit
  <2> QED BY <2>1, <2>2, AdmittedKeeps
<1> QED BY <1>2, <1>3

-----------------------------------------------------------------------------
(* The invariant, and what follows from it.                                *)

LEMMA StartsSound == ASSUME GeoConstants, Init PROVE IInv
<1>1. PICK done \in SUBSET Legacy, status \in [Points -> {"success", "failed"}], used \in 1..Ceiling :
        /\ request = [r \in Requests |-> IF r \in done
                        THEN OldRequest(r, [status |-> status, used |-> used, exact |-> TRUE]) ELSE None]
        /\ sent = [r \in Requests |-> IF r \in done THEN used ELSE 0]
  BY DEF Init
<1>2. /\ rows = [r \in Requests |-> <<>>] /\ owner = [r \in Requests |-> None]
      /\ call = [c \in Calls |-> Idle]
  BY DEF Init
<1>3. used \in Nat /\ used <= Ceiling /\ done \subseteq Requests
  BY Given
<1> DEFINE old == [status |-> status, used |-> used, exact |-> TRUE]
<1>4. old \in Results
  <2>1. status \in [Points -> Statuses]
    BY DEF Statuses
  <2> QED BY <1>3, <2>1 DEF Results
<1>5. ASSUME NEW r \in Requests
      PROVE  /\ OldRequest(r, old) \in RequestRows /\ OldRequest(r, old).root = r
             /\ OldRequest(r, old).prior = None /\ OldRequest(r, old).closed
             /\ OldRequest(r, old).baseline = used /\ OldRequest(r, old).result = old
  <2>1. \E a \in Authorizations : a.prior = None
    <3>1. PICK g \in Grants : TRUE
      BY Given
    <3>2. [prior |-> None, grant |-> g] \in Authorizations
      BY DEF Authorizations
    <3> QED BY <3>2
  <2> DEFINE a == CHOOSE a \in Authorizations : a.prior = None
  <2>2. a \in Authorizations
    BY <2>1
  <2>3. OldRequest(r, old) = [auth |-> a, root |-> r, prior |-> None, closed |-> TRUE, tracked |-> FALSE,
                              baseline |-> old.used, result |-> old]
    BY DEF OldRequest
  <2>4. old.used = used
    OBVIOUS
  <2> HIDE DEF a, old
  <2> QED BY <1>3, <1>4, <2>2, <2>3, <2>4 DEF RequestRows
<1> HIDE DEF old
<1>6. /\ \A r \in Requests : Known(r) <=> r \in done
      /\ \A r \in Requests : Known(r) => request[r] = OldRequest(r, old)
  <2>1. \A r \in Requests : request[r] = IF r \in done THEN OldRequest(r, old) ELSE None
    BY <1>1 DEF old
  <2> QED BY <1>5, <2>1, Given DEF Known
<1>7. TypeOK
  <2>1. request \in [Requests -> RequestRows \cup {None}]
    BY <1>1, <1>5 DEF old
  <2>2. rows \in [Requests -> Seq(Rows)] /\ owner \in [Requests -> Calls \cup {None}]
    BY <1>2
  <2>3. call \in [Calls -> Invocations]
    BY <1>2, IdleTyped
  <2>4. sent \in [Requests -> Nat]
    BY <1>1, <1>3
  <2> QED BY <2>1, <2>2, <2>3, <2>4 DEF TypeOK
<1>8. ASSUME NEW r \in Requests, Known(r)
      PROVE  /\ request[r].root = r /\ request[r].prior = None /\ request[r].closed /\ Closed(r)
             /\ request[r].baseline = used /\ request[r].result = old /\ old # None
  BY <1>4, <1>5, <1>6, <1>8, Given DEF Closed
<1>9. Families
  <2>1. \A r \in Requests : Known(r) => Linked(r)
    BY <1>8 DEF Linked
  <2>2. \A r, s \in Requests : Tip(r) /\ Tip(s) /\ request[r].root = request[s].root => r = s
    BY <1>8 DEF Tip
  <2> QED BY <1>2, <2>1, <2>2 DEF Families
<1>10. \A ids \in SUBSET Requests : Reserved(rows, ids) = {}
  <2> TAKE ids \in SUBSET Requests
  <2>1. \A r \in ids : DOMAIN rows[r] = {}
    BY <1>2
  <2>2. ASSUME NEW t PROVE t \notin Reserved(rows, ids)
    BY <2>1, ReservedUnits
  <2> QED BY <2>2
<1>11. Counts
  BY <1>10, FS_EmptySet DEF Counts
<1>12. ASSUME NEW r \in Requests, Known(r) PROVE Usage(r) = used
  <2>1. Cardinality(Reserved(rows, Chain(r))) = 0
    BY <1>10, FS_EmptySet DEF Chain
  <2> QED BY <1>3, <1>8, <1>12, <2>1 DEF Usage
<1>13. Money
  <2>0. /\ \A r \in Requests : Known(r) => sent[r] = used
        /\ \A r \in Requests : ~Known(r) => sent[r] = 0
    BY <1>1, <1>6
  <2>1. ASSUME NEW r \in Requests, Known(r) PROVE Books(r)
    <3>1. old.used = used
      BY DEF old
    <3> QED BY <1>8, <1>12, <2>0, <2>1, <3>1 DEF Books
  <2>2. \A r \in Requests : IsRoot(r) => Funds(r)
    BY <1>3, <1>12, <2>0 DEF IsRoot, Funds
  <2>3. \A r \in Requests : ~IsRoot(r) => sent[r] = 0
    BY <1>8, <2>0 DEF IsRoot
  <2> QED BY <2>1, <2>2, <2>3 DEF Money
<1>14. Evidences
  <2>1. \A r \in Requests : DOMAIN rows[r] = {}
    BY <1>2
  <2> QED BY <2>1 DEF Evidences, Evident
<1>15. \A c \in Calls : Fits(c)
  BY <1>2 DEF Fits, Idle
<1> QED BY <1>7, <1>9, <1>11, <1>13, <1>14, <1>15 DEF IInv

LEMMA StepsKeep == ASSUME GeoConstants, IInv, [Next]_vars PROVE IInv'
<1>1. ASSUME NEW c \in Calls, Step(c) PROVE IInv'
  BY <1>1, AdmitKeeps, ReserveKeeps, StopKeeps, SendKeeps, RecordKeeps, FinishKeeps, DiesKeeps DEF Step
<1>2. ASSUME NEW c \in Calls, NEW r \in Requests, NEW auth \in Authorizations, LookNew(c, r, auth) PROVE IInv'
  BY <1>2, LookNewKeeps
<1>3. ASSUME NEW r \in Requests, AnswerKnown(r) \/ AdoptLegacy(r) PROVE IInv'
  BY <1>3, AnswerKeeps, AdoptKeeps
<1>4. ASSUME UNCHANGED vars PROVE IInv'
  <2>1. UNCHANGED request /\ UNCHANGED rows /\ UNCHANGED owner /\ UNCHANGED call /\ UNCHANGED sent
    BY <1>4 DEF vars
  <2>2. Still
    BY <2>1, UnchangedIsStill
  <2>3. TypeOK'
    BY <2>1 DEF IInv, TypeOK
  <2>4. \A d \in Calls : Fits(d)'
    BY <2>1, <2>2, StillFits DEF IInv
  <2> QED BY <2>2, <2>3, <2>4, StillKeeps
<1> QED BY <1>1, <1>2, <1>3, <1>4 DEF Next

\* The invariant holds of every behaviour (capabilities/geo).
THEOREM AccountInvariant == ASSUME GeoConstants PROVE Spec => []IInv
<1>1. Init => IInv
  BY StartsSound
<1>2. IInv /\ [Next]_vars => IInv'
  BY StepsKeep
<1> QED BY <1>1, <1>2, PTL DEF Spec

\* Every part of the journal and of an execution keeps its type (geo/journal.py).
THEOREM TypeCorrect == ASSUME GeoConstants PROVE Spec => []TypeOK
<1>1. IInv => TypeOK
  BY DEF IInv
<1> QED BY <1>1, AccountInvariant, PTL

\* However often an execution dies, is reconciled and is recovered, what was really
\* sent under an authorization stays within the ceiling that was accepted first
\* (geo/journal.py: reserve, before each call).
THEOREM CeilingAlwaysHolds == ASSUME GeoConstants PROVE Spec => []CeilingHolds
<1>1. ASSUME IInv PROVE CeilingHolds
  <2> SUFFICES ASSUME NEW r \in Requests PROVE sent[r] <= Ceiling
    BY DEF CeilingHolds
  <2>1. sent[r] \in Nat /\ Ceiling \in Nat
    BY <1>1, Given DEF IInv, TypeOK
  <2>2. CASE IsRoot(r)
    <3>1. Usage(r) \in Nat
      BY <1>1, <2>2, CountsAre DEF IInv, IsRoot
    <3> QED BY <1>1, <2>1, <2>2, <3>1 DEF IInv, Money, Funds
  <2>3. CASE ~IsRoot(r)
    BY <1>1, <2>1, <2>3 DEF IInv, Money
  <2> QED BY <2>2, <2>3
<1> QED BY <1>1, AccountInvariant, PTL

\* The last result of a chain accounts for every request that was sent, and says
\* truly whether it does so exactly (record_execution, reconcile, invoke).
THEOREM ResultsAccount == ASSUME GeoConstants PROVE Spec => []ResultAccountsForAll
<1>1. ASSUME IInv PROVE ResultAccountsForAll
  <2> SUFFICES ASSUME NEW r \in Requests, Closed(r),
                      \A s \in Requests : Known(s) => request[s].prior # r
               PROVE  LET result == request[r].result
                          really == sent[request[r].root]
                      IN really <= result.used /\ (result.exact => really = result.used)
    BY DEF ResultAccountsForAll
  <2>1. Known(r) /\ Tip(r)
    BY DEF Closed, Tip
  <2>2. PICK root : root = request[r].root
    OBVIOUS
  <2>3. Funds(root)
    BY <1>1, <2>1, <2>2, NumbersOf
  <2>4. Books(r)
    BY <1>1, <2>1 DEF IInv, Money
  <2> QED BY <2>1, <2>2, <2>3, <2>4 DEF Books, Funds
<1> QED BY <1>1, AccountInvariant, PTL

\* A request does not ask for what it has evidence for, its own or in the result it
\* recovers (geo/service.py: remaining_request and invoke).
THEOREM EvidenceOnce == ASSUME GeoConstants PROVE Spec => []EvidenceAskedOnce
<1>1. ASSUME IInv PROVE EvidenceAskedOnce
  <2> SUFFICES ASSUME NEW r \in Requests, Known(r), NEW i \in DOMAIN rows[r]
               PROVE  /\ Before(r).status[rows[r][i].k] # "success"
                      /\ \A j \in 1..i - 1 : ~(rows[r][j].k = rows[r][i].k /\ rows[r][j].outcome = "success")
    BY DEF EvidenceAskedOnce
  <2>1. Evident(r)
    BY <1>1 DEF IInv, Evidences
  <2>2. rows[r] \in Seq(Rows)
    BY <1>1, RowsOf DEF IInv
  <2>3. ASSUME NEW j \in 1..i - 1 PROVE j \in DOMAIN rows[r] /\ ~(i <= j)
    BY <2>2
  <2> QED BY <2>1, <2>3 DEF Evident, Success
<1> QED BY <1>1, AccountInvariant, PTL

\* Together: what an authorization pays for is bounded and accounted for, and nothing is
\* asked for that is in the request's own journal or in the result it recovers, whatever
\* dies between two steps (geo/journal.py, service.py, _checkpoint.py).
THEOREM LookupsStayAccountedFor == ASSUME GeoConstants PROVE Spec => []LookupsAreAccountedFor
<1>1. TypeOK /\ CeilingHolds /\ ResultAccountsForAll /\ EvidenceAskedOnce => LookupsAreAccountedFor
  BY DEF LookupsAreAccountedFor
<1> QED BY <1>1, TypeCorrect, CeilingAlwaysHolds, ResultsAccount, EvidenceOnce, PTL
=============================================================================
