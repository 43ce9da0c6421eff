------------------------- MODULE Preparation_proofs -------------------------
(***************************************************************************)
(* Theorems about Preparation for any number of Runs, callers, requests,   *)
(* items and places, and any number of changes of the user's volumes; and  *)
(* about the opening of the Dataset (D) for any number of Hosts, opens and *)
(* changes of the volume.                                                  *)
(***************************************************************************)
EXTENDS Preparation, NaturalsInduction, WellFoundedInduction, TLAPS

CONSTANTS Hosts, MaxOpens, MaxChanges
VARIABLES workspace, writable, opening, opened, opens, changes

\* Before anything is prepared, a Host has opened the Dataset of the source.
D == INSTANCE DatasetOpen WITH call <- opening

-----------------------------------------------------------------------------
(* Types.                                                                  *)

Identities == [items : [Items -> Item], findings : SUBSET Codes]

RunRow ==
    [state : States, request : Requests \cup {None}, rewinds : Runs \cup {None},
     scope : SUBSET Items, items : [Items -> Item], findings : SUBSET Codes,
     identity : Identities \cup {None}, receipt : [Items -> Item] \cup {None}]

CallRow ==
    [step : Steps, after : {0} \cup Items, todo : SUBSET Items, saw : Nodes \cup {None},
     problem : {"none", "target", "item"}]

Volumes ==
    /\ at \in [Places -> Nodes \cup {None}] /\ good \subseteq Nodes
    /\ mounted \in BOOLEAN /\ drift \in 0..MaxDrift

Typed ==
    /\ Volumes
    /\ run \in [Runs -> RunRow]
    /\ call \in [Runs -> [Callers -> CallRow \cup {None}]]
    /\ overlapped \subseteq Runs
    /\ authorized \in [Runs -> Identities \cup {None}]

-----------------------------------------------------------------------------
(* What is known of every Run, whatever calls overlap at it.               *)

\* The items a call at the Run is about.
Subject(r) == IF run[r].rewinds = None THEN Wanted[run[r].request] ELSE run[r].scope

\* A row that has an object has its places, and what was moved is an object.
Placed(items) ==
    \A i \in Items :
        /\ items[i].done => items[i].node # None
        /\ items[i].node # None => items[i].from \in Places /\ items[i].to \in Places

\* What a call is about to look at or to record belongs to its Run.
Fitting(r, c) ==
    call[r][c] # None =>
        /\ run[r].state # "unused" /\ r # Earlier
        /\ call[r][c].todo \subseteq Subject(r)
        /\ call[r][c].step = "record" =>
              /\ call[r][c].after \in Subject(r)
              /\ call[r][c].problem = "none" => call[r][c].saw \in Nodes

\* A Run is of a request, or it rewinds another; Earlier was there at the start.
Asked(r) ==
    /\ r = Earlier => run[r].state = "closed" /\ run[r].rewinds = None /\ r \notin overlapped
    /\ run[r].state = "unused" => run[r] = NoRun /\ authorized[r] = None
    /\ run[r].state # "unused" /\ run[r].rewinds = None /\ r # Earlier =>
          run[r].request \in Requests /\ run[r].scope \subseteq Wanted[run[r].request]

\* What a rewind takes back a Receipt says was moved.
OfAReceipt(r) ==
    run[r].rewinds # None =>
        /\ run[r].rewinds \in Runs
        /\ run[run[r].rewinds].receipt # None /\ run[run[r].rewinds].rewinds = None
        /\ \A i \in run[r].scope : run[run[r].rewinds].receipt[i].done

Based(r) ==
    /\ Asked(r) /\ OfAReceipt(r)
    /\ Placed(run[r].items) /\ (run[r].receipt # None => Placed(run[r].receipt))
    /\ \A c \in Callers : Fitting(r, c)

-----------------------------------------------------------------------------
(* What is known of a Run at which no calls overlapped: the calls at it.   *)

Lone(r) == \A c, d \in Callers : call[r][c] # None /\ call[r][d] # None => c = d

\* The states in which a call may be at work; a cancel does not end it.
Unsettled == {"preparing", "blocked", "cancelled"}

\* The states in which a Run's rows are no longer prepared.
Settled == {"ready", "executing", "closed"}

\* The steps to which a call comes when the items are staged.
PastStage == {"resume", "bindings", "keep", "items", "record", "finalize"}

\* A rewind's call has all that is pending before it, from its first look on.
Advanced(r, c) ==
    LET k == call[r][c]
    IN  /\ k.step = "finalize" => \A i \in run[r].scope : run[r].items[i].prep # "pending"
        /\ k.step = "record" \/ (k.step = "items" /\ (k.after # 0 \/ k.todo # {})) =>
              \A i \in run[r].scope : run[r].items[i].prep = "pending" =>
                  i \in k.todo \/ (k.step = "record" /\ i = k.after)

AtWork(r, c) ==
    call[r][c] # None =>
        /\ run[r].state \in Unsettled
        /\ run[r].rewinds = None /\ call[r][c].step \in PastStage =>
              run[r].scope = Wanted[run[r].request]
        /\ run[r].rewinds # None => Advanced(r, c)
        /\ run[r].rewinds # None /\ call[r][c].step = "record" /\ call[r][c].problem = "none" =>
              call[r][c].saw = run[run[r].rewinds].receipt[call[r][c].after].node

-----------------------------------------------------------------------------
(* Its rows.                                                               *)

\* A Receipt says what the rows of the closed Run say, and only what is
\* authorized is executed.
Sealed(r) ==
    /\ run[r].receipt = IF run[r].state = "closed" THEN run[r].items ELSE None
    /\ r # Earlier /\ authorized[r] # None => run[r].state \in {"executing", "closed"}

Staged(r) ==
    run[r].rewinds = None /\ r # Earlier /\ run[r].state \in Settled \cup {"blocked"} =>
        run[r].scope = Wanted[run[r].request]

\* A rewind takes back what the closed Run moved, object by object, to where
\* it was found.
OfItsReceipt(r) ==
    run[r].rewinds # None =>
        LET of == run[run[r].rewinds]
        IN  /\ run[r].rewinds \notin overlapped
            /\ \A i \in Items : run[r].items[i].prep = "verified" =>
                  /\ i \in run[r].scope
                  /\ run[r].items[i].node = of.receipt[i].node
                  /\ run[r].items[i].to = of.receipt[i].from

\* What a verified row says.
RowsHold(r) ==
    \A i \in Items : run[r].items[i].prep = "verified" =>
        /\ run[r].items[i].node \in Nodes /\ run[r].items[i].to \in Places
        /\ run[r].rewinds = None => run[r].items[i].from = Source[i]

\* What is blocked has a finding.
Reported(r) == \A i \in Items : run[r].items[i].prep = "blocked" => run[r].findings # {}

TargetsApart(r) ==
    \A i, j \in Items :
        i # j /\ run[r].items[i].prep = "verified" /\ run[r].items[j].prep = "verified"
        => run[r].items[i].to # run[r].items[j].to

ObjectsApart(r) ==
    \A i, j \in Items :
        i # j /\ run[r].items[i].prep = "verified" /\ run[r].items[j].prep = "verified"
        => run[r].items[i].node # run[r].items[j].node

Whole(r) ==
    run[r].state \in Settled =>
        /\ run[r].findings = {} /\ ObjectsApart(r)
        /\ \A i \in run[r].scope : run[r].items[i].prep = "verified"

Offered(r) == run[r].state = "ready" => run[r].identity = Identity(run[r])

\* Only what is executed moves.
MovesInExecution(r) ==
    \A i \in Items : run[r].items[i].done =>
        i \in run[r].scope /\ run[r].state \in {"executing", "closed"}

Confirmed(r) ==
    r # Earlier /\ run[r].state \in {"executing", "closed"} =>
        /\ authorized[r].findings = {}
        /\ \A i \in Items : authorized[r].items[i] = [run[r].items[i] EXCEPT !.done = FALSE]

Rows(r) ==
    /\ Sealed(r) /\ Staged(r) /\ OfItsReceipt(r) /\ RowsHold(r) /\ Reported(r)
    /\ TargetsApart(r) /\ Whole(r) /\ Offered(r) /\ MovesInExecution(r) /\ Confirmed(r)

Sound(r) == Lone(r) /\ Rows(r) /\ \A c \in Callers : AtWork(r, c)

Inv ==
    /\ Typed
    /\ \A r \in Runs : Based(r)
    /\ \A r \in Undisturbed : Sound(r)
    /\ ForwardsExclude

-----------------------------------------------------------------------------
(* Operators the model is built from.                                      *)

LEMMA ItemNumbers == Items \subseteq Nat /\ \A i \in Items : i > 0
BY PreparationConstants DEF Nodes

\* What is left has a first item.
LEMMA LeastItem ==
    ASSUME NEW S \in SUBSET Items, S # {}
    PROVE  \E i \in S : \A j \in S : i <= j
<1>1. S \subseteq Nat
  BY PreparationConstants DEF Nodes
<1>2. PICK m \in S : \A k \in S : <<k, m>> \notin OpToRel(<, Nat)
  BY <1>1, NatLessThanWellFounded, WFMin
<1>3. ASSUME NEW k \in S PROVE m <= k
  <2>1. k \in Nat /\ m \in Nat /\ ~(k < m)
    BY <1>1, <1>2 DEF OpToRel
  <2> QED BY <2>1
<1> QED BY <1>3

\* The end of a forward preparation misses none of the items that are pending.
LEMMA NoneMissing ==
    ASSUME NEW r \in Runs, run[r].scope \subseteq Items, Missing(r) = {}
    PROVE  \A i \in run[r].scope : run[r].items[i].prep # "pending"
<1> DEFINE pending == {i \in run[r].scope : run[r].items[i].prep = "pending"}
<1> SUFFICES ASSUME pending # {} PROVE FALSE
  OBVIOUS
<1>1. PICK i \in pending : \A j \in pending : i <= j
  <2>1. pending \in SUBSET Items
    OBVIOUS
  <2> HIDE DEF pending
  <2> QED BY <2>1, LeastItem
<1>2. \A j \in run[r].scope : run[r].items[j].prep = "pending" => i <= j
  BY <1>1
<1> QED BY <1>1, <1>2 DEF Missing

LEMMA FoundType ==
    ASSUME Volumes, NEW p \in Places
    PROVE  Found(p) \in Nodes \cup {None}
BY DEF Volumes, Found

\* The items a call is about are items.
LEMMA SubjectIsItems ==
    ASSUME Typed, NEW r \in Runs, Based(r), run[r].state # "unused", r # Earlier
    PROVE  /\ Subject(r) \subseteq Items /\ run[r].scope \subseteq Subject(r)
           /\ run[r].rewinds = None => Wanted[run[r].request] \subseteq Items
<1>1. run[r].scope \subseteq Items
  BY DEF Typed, RunRow
<1>2. CASE run[r].rewinds = None
  <2>1. run[r].request \in Requests /\ run[r].scope \subseteq Wanted[run[r].request]
    BY <1>2 DEF Based, Asked
  <2>2. Wanted[run[r].request] \subseteq Items
    BY <2>1, PreparationConstants
  <2> QED BY <1>2, <2>1, <2>2 DEF Subject
<1>3. CASE run[r].rewinds # None
  BY <1>1, <1>3 DEF Subject
<1> QED BY <1>2, <1>3

\* The way of an item the Run is about is a way between places.
LEMMA WayIsKnown ==
    ASSUME Typed, NEW r \in Runs, \A s \in Runs : Based(s), run[r].state # "unused", r # Earlier,
           NEW i \in Subject(r)
    PROVE  /\ Way(r, i).from \in Places /\ Way(r, i).to \in Places
           /\ run[r].rewinds = None => Way(r, i).from = Source[i]
           /\ run[r].rewinds # None => Way(r, i).to = run[run[r].rewinds].receipt[i].from
<1>1. i \in Items
  BY SubjectIsItems
<1>2. CASE run[r].rewinds = None
  <2>1. run[r].request \in Requests
    BY <1>2 DEF Based, Asked
  <2>2. Target[run[r].request][i] \in Places /\ Source[i] \in Places
    BY <1>1, <1>2, <2>1, PreparationConstants DEF Subject
  <2> QED BY <1>2, <2>2 DEF Way
<1>3. CASE run[r].rewinds # None
  <2>1. PICK o \in Runs : o = run[r].rewinds
    BY <1>3 DEF Based, OfAReceipt
  <2>2. run[o].receipt # None /\ run[o].receipt[i].done
    BY <1>3, <2>1 DEF Based, OfAReceipt, Subject
  <2>3. run[o].receipt[i].from \in Places /\ run[o].receipt[i].to \in Places
    BY <1>1, <2>2 DEF Based, Placed
  <2> QED BY <1>3, <2>1, <2>3 DEF Way
<1> QED BY <1>2, <1>3

-----------------------------------------------------------------------------
(* A step is about one Run.                                                *)

\* All the other Runs are left as they are, and no Receipt is touched.
Alone(r) ==
    /\ run[r].state # "closed" \/ r \in overlapped
    /\ run[r].receipt # None =>
          run'[r].receipt = run[r].receipt /\ run'[r].rewinds = run[r].rewinds
    /\ overlapped \subseteq overlapped' /\ overlapped' \subseteq overlapped \cup {r}
    /\ \A s \in Runs \ {r} :
          run'[s] = run[s] /\ call'[s] = call[s] /\ authorized'[s] = authorized[s]

\* A step about r keeps what is known of it.
Holds(r) == Typed' /\ Alone(r) /\ Based(r)' /\ (r \notin overlapped' => Sound(r)')

\* The Run whose Receipt is taken back is another one, and stays as it is known.
LEMMA ReceiptStays ==
    ASSUME Inv, NEW r \in Runs, Alone(r), NEW s \in Runs, run[s].rewinds # None
    PROVE  LET o == run[s].rewinds
           IN  /\ o \in Runs /\ run[o].receipt # None /\ run[o].rewinds = None
               /\ run'[o].receipt = run[o].receipt /\ run'[o].rewinds = None
               /\ o # s
<1>1. PICK o \in Runs : o = run[s].rewinds
  BY DEF Inv, Based, OfAReceipt
<1>2. run[o].receipt # None /\ run[o].rewinds = None
  BY <1>1 DEF Inv, Based, OfAReceipt
<1>3. run'[o].receipt = run[o].receipt /\ run'[o].rewinds = None
  BY <1>2 DEF Alone
<1> QED BY <1>1, <1>2, <1>3

\* The Receipt of a Run that no calls disturbed is that of one that is closed.
LEMMA ReceiptIsClosed ==
    ASSUME Inv, NEW o \in Undisturbed, run[o].receipt # None
    PROVE  run[o].state = "closed" /\ run[o].receipt = run[o].items
BY DEF Inv, Sound, Rows, Sealed

LEMMA OthersStay ==
    ASSUME Inv, NEW r \in Runs, Alone(r), NEW s \in Runs \ {r}
    PROVE  Based(s)' /\ (s \notin overlapped' => Sound(s)')
<1>1. /\ run'[s] = run[s] /\ call'[s] = call[s] /\ authorized'[s] = authorized[s]
      /\ (s \in overlapped' <=> s \in overlapped)
  BY DEF Alone
<1>2. Based(s)'
  <2>1. Based(s)
    BY DEF Inv
  <2>2. Asked(s)'
    BY <1>1, <2>1 DEF Based, Asked
  <2>3. OfAReceipt(s)'
    BY <1>1, <2>1, ReceiptStays DEF Based, OfAReceipt
  <2>4. Placed(run[s].items)' /\ (run'[s].receipt # None => Placed(run[s].receipt)')
    BY <1>1, <2>1 DEF Based, Placed
  <2>5. \A c \in Callers : Fitting(s, c)'
    BY <1>1, <2>1 DEF Based, Fitting, Subject
  <2> QED BY <2>2, <2>3, <2>4, <2>5 DEF Based
<1>3. ASSUME s \notin overlapped' PROVE Sound(s)'
  <2>1. Sound(s)
    BY <1>1, <1>3 DEF Inv, Undisturbed
  <2>2. ASSUME run[s].rewinds # None
        PROVE  /\ run'[run[s].rewinds].receipt = run[run[s].rewinds].receipt
               /\ run[s].rewinds \notin overlapped'
    <3>1. PICK o \in Runs : o = run[s].rewinds /\ run[o].receipt # None /\ run'[o].receipt = run[o].receipt
      BY <2>2, ReceiptStays
    <3>2. o \notin overlapped
      BY <2>1, <2>2, <3>1 DEF Sound, Rows, OfItsReceipt
    <3>3. run[o].state = "closed"
      BY <3>1, <3>2, ReceiptIsClosed DEF Undisturbed
    <3>4. o # r
      BY <3>2, <3>3 DEF Alone
    <3> QED BY <3>1, <3>2, <3>4 DEF Alone
  <2>3. Lone(s)' /\ Sealed(s)' /\ Staged(s)' /\ RowsHold(s)' /\ Reported(s)' /\ TargetsApart(s)'
    BY <1>1, <2>1 DEF Sound, Rows, Lone, Sealed, Staged, RowsHold, Reported, TargetsApart
  <2>4. OfItsReceipt(s)'
    BY <1>1, <2>1, <2>2 DEF Sound, Rows, OfItsReceipt
  <2>5. Whole(s)' /\ Offered(s)' /\ MovesInExecution(s)' /\ Confirmed(s)'
    BY <1>1, <2>1 DEF Sound, Rows, Whole, ObjectsApart, Offered, Identity, MovesInExecution, Confirmed
  <2>6. \A c \in Callers : AtWork(s, c)'
    BY <1>1, <2>1, <2>2 DEF Sound, AtWork, Advanced
  <2> QED BY <2>3, <2>4, <2>5, <2>6 DEF Sound, Rows
<1> QED BY <1>2, <1>3

\* The Run keeps what is known of every Run when its scope and its rows do.
LEMMA BasedStays ==
    ASSUME Inv, NEW r \in Runs, Alone(r), run[r].state # "unused", run'[r].state # "unused",
           r # Earlier,
           run'[r].rewinds = run[r].rewinds, run'[r].request = run[r].request,
           \/ run'[r].scope = run[r].scope
           \/ run[r].rewinds = None /\ run'[r].scope = Wanted[run[r].request],
           Placed(run'[r].items), run'[r].receipt # None => Placed(run'[r].receipt),
           \A c \in Callers : call'[r][c] = call[r][c] \/ Fitting(r, c)'
    PROVE  Based(r)'
<1>1. Based(r)
  BY DEF Inv
<1>2. Asked(r)'
  BY <1>1 DEF Based, Asked
<1>3. OfAReceipt(r)'
  BY <1>1, ReceiptStays DEF Based, OfAReceipt
<1>4. Placed(run[r].items)' /\ (run'[r].receipt # None => Placed(run[r].receipt)')
  BY DEF Placed
<1>5. \A c \in Callers : Fitting(r, c)'
  <2>1. Subject(r)' = Subject(r)
    BY DEF Subject
  <2> QED BY <1>1, <2>1 DEF Based, Fitting
<1> QED BY <1>2, <1>3, <1>4, <1>5 DEF Based

\* An undisturbed Run whose rows stay keeps what follows from them.
LEMMA RowsStay ==
    ASSUME Inv, NEW r \in Undisturbed, Alone(r), overlapped' = overlapped,
           run'[r].items = run[r].items, run'[r].rewinds = run[r].rewinds,
           run'[r].scope = run[r].scope \/ run[r].rewinds = None,
           run[r].findings \subseteq run'[r].findings
    PROVE  /\ OfItsReceipt(r)' /\ RowsHold(r)' /\ Reported(r)' /\ TargetsApart(r)'
           /\ ObjectsApart(r) => ObjectsApart(r)'
<1>1. Rows(r) /\ r \in Runs
  BY DEF Inv, Sound, Undisturbed
<1>2. run[r].rewinds # None => run'[run[r].rewinds].receipt = run[run[r].rewinds].receipt
  BY <1>1, ReceiptStays
<1>3. OfItsReceipt(r)'
  BY <1>1, <1>2 DEF Rows, OfItsReceipt
<1>4. RowsHold(r)' /\ Reported(r)' /\ TargetsApart(r)' /\ (ObjectsApart(r) => ObjectsApart(r)')
  BY <1>1 DEF Rows, RowsHold, Reported, TargetsApart, ObjectsApart
<1> QED BY <1>3, <1>4

-----------------------------------------------------------------------------
(* A step of a call.                                                       *)

\* What is known of a call that is at work.
LEMMA AtCall ==
    ASSUME Inv, NEW r \in Runs, NEW c \in Callers, call[r][c] # None
    PROVE  /\ run[r] \in RunRow /\ call[r][c] \in CallRow
           /\ r # Earlier /\ run[r].state # "unused" /\ Based(r)
           /\ Subject(r) \subseteq Items /\ run[r].scope \subseteq Subject(r)
           /\ run[r].rewinds = None => Wanted[run[r].request] \subseteq Items
           /\ call[r][c].todo \subseteq Subject(r)
           /\ r \notin overlapped =>
                /\ r \in Undisturbed /\ Rows(r) /\ AtWork(r, c) /\ run[r].state \in Unsettled
                /\ \A i \in Items : ~run[r].items[i].done
                /\ run[r].receipt = None /\ authorized[r] = None
                /\ \A d \in Callers \ {c} : call[r][d] = None
<1>1. Based(r) /\ Typed
  BY DEF Inv
<1>2. run[r] \in RunRow /\ call[r][c] \in CallRow
  BY <1>1 DEF Typed
<1>3. r # Earlier /\ run[r].state # "unused" /\ call[r][c].todo \subseteq Subject(r)
  BY <1>1 DEF Based, Fitting
<1>4. ASSUME r \notin overlapped
      PROVE  /\ r \in Undisturbed /\ Rows(r) /\ AtWork(r, c) /\ run[r].state \in Unsettled
             /\ \A i \in Items : ~run[r].items[i].done
             /\ run[r].receipt = None /\ authorized[r] = None
             /\ \A d \in Callers \ {c} : call[r][d] = None
  <2>1. r \in Undisturbed /\ Sound(r)
    BY <1>4 DEF Inv, Undisturbed
  <2>2. run[r].state \in Unsettled /\ Rows(r) /\ AtWork(r, c)
    BY <2>1 DEF Sound, AtWork
  <2>3. \A i \in Items : ~run[r].items[i].done
    BY <2>2 DEF Rows, MovesInExecution, Unsettled
  <2>4. run[r].receipt = None /\ authorized[r] = None
    BY <1>3, <2>2 DEF Rows, Sealed, Unsettled
  <2>5. \A d \in Callers \ {c} : call[r][d] = None
    BY <2>1 DEF Sound, Lone
  <2> QED BY <2>1, <2>2, <2>3, <2>4, <2>5
<1> QED BY <1>1, <1>2, <1>3, <1>4, SubjectIsItems

\* A step that writes a row and moves its call on.
LEMMA Becomes ==
    ASSUME Inv, NEW r \in Runs, NEW c \in Callers, call[r][c] # None,
           NEW row \in RunRow, NEW new \in CallRow \cup {None},
           run' = [run EXCEPT ![r] = row], call' = [call EXCEPT ![r][c] = new],
           UNCHANGED <<at, good, mounted, overlapped, authorized, drift>>,
           row.rewinds = run[r].rewinds, row.receipt = run[r].receipt
    PROVE  /\ Typed' /\ Alone(r) /\ overlapped' = overlapped /\ authorized' = authorized
           /\ run'[r] = row /\ call'[r][c] = new
           /\ \A d \in Callers \ {c} : call'[r][d] = call[r][d]
<1>1. /\ run \in [Runs -> RunRow] /\ call \in [Runs -> [Callers -> CallRow \cup {None}]]
      /\ overlapped \subseteq Runs
  BY DEF Inv, Typed
<1>2. /\ run'[r] = row /\ call'[r][c] = new
      /\ \A d \in Callers \ {c} : call'[r][d] = call[r][d]
      /\ \A s \in Runs \ {r} : run'[s] = run[s] /\ call'[s] = call[s]
  BY <1>1
<1>3. Typed'
  <2>1. run' \in [Runs -> RunRow]
    BY <1>1
  <2>2. call' \in [Runs -> [Callers -> CallRow \cup {None}]]
    BY <1>1
  <2> QED BY <2>1, <2>2 DEF Inv, Typed, Volumes
<1>4. run[r].state # "closed" \/ r \in overlapped
  BY AtCall DEF Unsettled
<1>5. Alone(r)
  BY <1>2, <1>4 DEF Alone
<1> QED BY <1>2, <1>3, <1>5

\* It is enough to know the new row and the one call.
LEMMA GoesOn ==
    ASSUME Inv, NEW r \in Runs, NEW c \in Callers, call[r][c] # None,
           Typed', Alone(r), overlapped' = overlapped,
           \A d \in Callers \ {c} : call'[r][d] = call[r][d],
           run'[r].state # "unused",
           run'[r].rewinds = run[r].rewinds, run'[r].request = run[r].request,
           run'[r].receipt = run[r].receipt,
           \/ run'[r].scope = run[r].scope
           \/ run[r].rewinds = None /\ run'[r].scope = Wanted[run[r].request],
           Placed(run'[r].items), Fitting(r, c)',
           r \notin overlapped => Rows(r)' /\ AtWork(r, c)'
    PROVE  Holds(r)
<1>1. r # Earlier /\ run[r].state # "unused" /\ Based(r)
  BY AtCall
<1>2. run'[r].receipt # None => Placed(run'[r].receipt)
  BY <1>1 DEF Based
<1>3. \A d \in Callers : call'[r][d] = call[r][d] \/ Fitting(r, d)'
  OBVIOUS
<1>4. Based(r)'
  BY <1>1, <1>2, <1>3, BasedStays
<1>5. ASSUME r \notin overlapped' PROVE Sound(r)'
  <2>1. \A d \in Callers \ {c} : call'[r][d] = None
    BY <1>5, AtCall, SMTT(40)
  <2>2. Lone(r)' /\ \A d \in Callers : AtWork(r, d)'
    BY <1>5, <2>1 DEF Lone, AtWork
  <2> QED BY <1>5, <2>2 DEF Sound
<1> QED BY <1>4, <1>5 DEF Holds

\* The rows of a Run that is still prepared, or cancelled.
LEMMA RowsInWork ==
    ASSUME Inv, NEW r \in Undisturbed, NEW c \in Callers, call[r][c] # None,
           authorized' = authorized, run'[r].state \in Unsettled, run'[r].receipt = run[r].receipt,
           \A i \in Items : ~run'[r].items[i].done,
           Staged(r)', OfItsReceipt(r)', RowsHold(r)', Reported(r)', TargetsApart(r)'
    PROVE  Rows(r)'
<1>1. run[r].receipt = None /\ authorized[r] = None
  BY AtCall DEF Undisturbed
<1>2. Sealed(r)' /\ Whole(r)' /\ Offered(r)' /\ MovesInExecution(r)' /\ Confirmed(r)'
  BY <1>1 DEF Sealed, Whole, Offered, MovesInExecution, Confirmed, Unsettled, Settled
<1> QED BY <1>2 DEF Rows

\* A call that moves on without writing.
LEMMA CallGoesOn ==
    ASSUME Inv, NEW r \in Runs, NEW c \in Callers, call[r][c] # None,
           NEW new \in CallRow \cup {None}, run' = run, call' = [call EXCEPT ![r][c] = new],
           UNCHANGED <<at, good, mounted, overlapped, authorized, drift>>,
           Fitting(r, c)', r \notin overlapped => AtWork(r, c)'
    PROVE  Holds(r)
<1>1. /\ run \in [Runs -> RunRow] /\ call \in [Runs -> [Callers -> CallRow \cup {None}]]
      /\ overlapped \subseteq Runs
  BY DEF Inv, Typed
<1>2. /\ Typed' /\ Alone(r) /\ overlapped' = overlapped
      /\ \A d \in Callers \ {c} : call'[r][d] = call[r][d]
  <2>1. /\ call' \in [Runs -> [Callers -> CallRow \cup {None}]]
        /\ \A d \in Callers \ {c} : call'[r][d] = call[r][d]
        /\ \A s \in Runs \ {r} : call'[s] = call[s]
    BY <1>1
  <2>2. Typed'
    BY <1>1, <2>1 DEF Inv, Typed, Volumes
  <2>3. run[r].state # "closed" \/ r \in overlapped
    BY AtCall DEF Unsettled
  <2>4. Alone(r)
    BY <2>1, <2>3 DEF Alone
  <2> QED BY <2>1, <2>2, <2>4
<1>3. Placed(run[r].items) /\ run[r].state # "unused"
  BY AtCall DEF Based
<1>4. ASSUME r \notin overlapped PROVE Rows(r)'
  <2>1. r \in Undisturbed /\ Rows(r) /\ run[r].state \in Unsettled /\ \A i \in Items : ~run[r].items[i].done
    BY <1>4, AtCall
  <2>2. OfItsReceipt(r)' /\ RowsHold(r)' /\ Reported(r)' /\ TargetsApart(r)'
    BY <1>2, <2>1, RowsStay
  <2>3. Staged(r)'
    BY <2>1 DEF Rows, Staged
  <2> QED BY <2>1, <2>2, <2>3, RowsInWork
<1> QED BY <1>2, <1>3, <1>4, GoesOn

-----------------------------------------------------------------------------
(* The request and the begin of the call.                                  *)

LEMMA BeginIsCall ==
    ASSUME NEW step \in Steps
    PROVE  /\ Begin(step) \in CallRow /\ Begin(step).step = step
           /\ Begin(step).after = 0 /\ Begin(step).todo = {}
           /\ Begin(step).saw = None /\ Begin(step).problem = "none"
BY DEF Begin, CallRow

\* A call that begins has nothing before it.
LEMMA JoinsSound ==
    ASSUME Inv, NEW r \in Runs, NEW c \in Callers, NEW step \in {"stage", "reopen", "resume"},
           Joins(r, c, step), UNCHANGED <<at, good, mounted, run, authorized, drift>>,
           run[r].state \in {"preparing", "blocked"}, step = "resume" => run[r].state = "blocked"
    PROVE  Holds(r)
<1>1. /\ call[r][c] = None /\ call' = [call EXCEPT ![r][c] = Begin(step)]
      /\ overlapped \subseteq overlapped' /\ overlapped' \subseteq overlapped \cup {r}
      /\ r \notin overlapped' => r \notin overlapped /\ \A d \in Callers : call[r][d] = None
  BY DEF Joins, Goes
<1>2. Begin(step) \in CallRow /\ Begin(step).step = step /\ Begin(step).todo = {}
  BY BeginIsCall DEF Steps
<1>3. /\ run \in [Runs -> RunRow] /\ call \in [Runs -> [Callers -> CallRow \cup {None}]]
      /\ overlapped \subseteq Runs /\ Based(r)
  BY DEF Inv, Typed
<1>4. /\ call'[r][c] = Begin(step) /\ \A d \in Callers \ {c} : call'[r][d] = call[r][d]
      /\ \A s \in Runs \ {r} : call'[s] = call[s]
      /\ call' \in [Runs -> [Callers -> CallRow \cup {None}]]
  BY <1>1, <1>2, <1>3
<1>5. Typed'
  BY <1>1, <1>3, <1>4 DEF Inv, Typed, Volumes
<1>6. Alone(r)
  BY <1>1, <1>4 DEF Alone
<1>7. r # Earlier
  BY <1>3 DEF Based, Asked
<1>8. Fitting(r, c)'
  BY <1>2, <1>4, <1>7 DEF Fitting
<1>9. Based(r)'
  <2>1. \A d \in Callers : call'[r][d] = call[r][d] \/ Fitting(r, d)'
    BY <1>4, <1>8
  <2>2. Placed(run[r].items) /\ (run[r].receipt # None => Placed(run[r].receipt))
    BY <1>3 DEF Based
  <2> QED BY <1>6, <1>7, <2>1, <2>2, BasedStays
<1>10. ASSUME r \notin overlapped' PROVE Sound(r)'
  <2>1. Sound(r) /\ r \in Undisturbed /\ overlapped' = overlapped
    BY <1>1, <1>10 DEF Inv, Undisturbed
  <2>2. OfItsReceipt(r)' /\ RowsHold(r)' /\ Reported(r)' /\ TargetsApart(r)'
    BY <1>6, <2>1, RowsStay
  <2>3. Sealed(r)' /\ Staged(r)' /\ Whole(r)' /\ Offered(r)' /\ MovesInExecution(r)' /\ Confirmed(r)'
    BY <2>1 DEF Sound, Rows, Sealed, Staged, Whole, Offered, MovesInExecution, Confirmed, Settled
  <2>4. Staged(r)
    BY <2>1 DEF Sound, Rows
  <2>5. AtWork(r, c)'
    BY <1>2, <1>4, <1>7, <2>4 DEF AtWork, Advanced, PastStage, Unsettled, Staged
  <2>6. \A d \in Callers \ {c} : call'[r][d] = None
    BY <1>1, <1>4, <1>10
  <2>7. Lone(r)' /\ \A d \in Callers : AtWork(r, d)'
    BY <2>5, <2>6 DEF Lone, AtWork
  <2> QED BY <2>2, <2>3, <2>7 DEF Sound, Rows
<1> QED BY <1>5, <1>6, <1>9, <1>10 DEF Holds

LEMMA RepeatRequestSound ==
    ASSUME Inv, NEW r \in Runs, NEW c \in Callers, RepeatRequest(r, c)
    PROVE  Holds(r)
<1>1. CASE run[r].state = "preparing" /\ Joins(r, c, "stage")
  BY <1>1, JoinsSound DEF RepeatRequest
<1>2. CASE run[r].state = "blocked" /\ Joins(r, c, "reopen")
  BY <1>2, JoinsSound DEF RepeatRequest
<1> QED BY <1>1, <1>2 DEF RepeatRequest

LEMMA ResumeSound ==
    ASSUME Inv, NEW r \in Runs, NEW c \in Callers, Resume(r, c)
    PROVE  Holds(r)
BY JoinsSound DEF Resume

\* A Run that was not there is undone.
LEMMA Unused ==
    ASSUME Inv, NEW r \in Runs, run[r].state = "unused"
    PROVE  /\ run[r] = NoRun /\ authorized[r] = None /\ \A c \in Callers : call[r][c] = None
           /\ NoRun \in RunRow /\ NoRun.items \in [Items -> Item] /\ Placed(NoRun.items)
           /\ \A i \in Items : NoRun.items[i] = NoItem /\ NoItem.prep = "pending" /\ ~NoItem.done
           /\ NoRun.rewinds = None /\ NoRun.receipt = None /\ NoRun.scope = {} /\ NoRun.findings = {}
           /\ r # Earlier
<1>1. NoItem \in Item /\ NoItem.prep = "pending" /\ ~NoItem.done /\ NoItem.node = None
  BY DEF NoItem, Item
<1>2. /\ NoRun \in RunRow /\ NoRun.rewinds = None /\ NoRun.receipt = None /\ NoRun.scope = {}
      /\ NoRun.findings = {} /\ \A i \in Items : NoRun.items[i] = NoItem
      /\ NoRun.items \in [Items -> Item]
  BY <1>1 DEF NoRun, RunRow, States
<1>3. Placed(NoRun.items)
  BY <1>1, <1>2 DEF Placed
<1>4. Based(r)
  BY DEF Inv
<1>5. run[r] = NoRun /\ authorized[r] = None /\ r # Earlier
  BY <1>4 DEF Based, Asked
<1>6. \A c \in Callers : call[r][c] = None
  BY <1>4 DEF Based, Fitting
<1> QED BY <1>1, <1>2, <1>3, <1>5, <1>6

LEMMA CreateRunSound ==
    ASSUME Inv, NEW q \in Requests, NEW c \in Callers, CreateRun(q, c)
    PROVE  \E r \in Runs : run'[r].state = "preparing" /\ Holds(r)
<1>1. PICK r \in Runs :
        /\ run[r].state = "unused"
        /\ run' = [run EXCEPT ![r].state = "preparing", ![r].request = q]
        /\ call' = [call EXCEPT ![r][c] = Begin("stage")]
        /\ UNCHANGED <<at, good, mounted, overlapped, authorized, drift>>
  BY DEF CreateRun, Goes
<1> DEFINE row == [NoRun EXCEPT !.state = "preparing", !.request = q]
<1>2. /\ run[r] = NoRun /\ NoRun \in RunRow /\ r # Earlier
      /\ authorized[r] = None /\ \A d \in Callers : call[r][d] = None
      /\ NoRun.rewinds = None /\ NoRun.receipt = None /\ NoRun.scope = {} /\ NoRun.findings = {}
      /\ \A i \in Items : NoRun.items[i].prep = "pending" /\ ~NoRun.items[i].done
      /\ Placed(NoRun.items)
  BY <1>1, Unused
<1>3. /\ row \in RunRow /\ row.state = "preparing" /\ row.request = q /\ row.items = NoRun.items
      /\ row.rewinds = None /\ row.receipt = None /\ row.scope = {} /\ row.findings = {}
  BY <1>2 DEF RunRow, States
<1>4. /\ run \in [Runs -> RunRow] /\ call \in [Runs -> [Callers -> CallRow \cup {None}]]
      /\ overlapped \subseteq Runs
  BY DEF Inv, Typed
<1>5. run' = [run EXCEPT ![r] = row]
  BY <1>1, <1>2, <1>4
<1> HIDE DEF row
<1>6. Begin("stage") \in CallRow /\ Begin("stage").step = "stage" /\ Begin("stage").todo = {}
  BY BeginIsCall DEF Steps
<1>7. /\ run'[r] = row /\ run' \in [Runs -> RunRow] /\ \A s \in Runs \ {r} : run'[s] = run[s]
  BY <1>3, <1>4, <1>5
<1>8. /\ call'[r][c] = Begin("stage") /\ \A d \in Callers \ {c} : call'[r][d] = None
      /\ \A s \in Runs \ {r} : call'[s] = call[s]
      /\ call' \in [Runs -> [Callers -> CallRow \cup {None}]]
  BY <1>1, <1>2, <1>4, <1>6
<1>9. Typed'
  BY <1>1, <1>4, <1>7, <1>8 DEF Inv, Typed, Volumes
<1>10. Alone(r)
  BY <1>1, <1>2, <1>7, <1>8 DEF Alone
<1>11. Based(r)'
  <2>1. Asked(r)' /\ OfAReceipt(r)'
    BY <1>2, <1>3, <1>7 DEF Asked, OfAReceipt
  <2>2. Placed(run[r].items)' /\ run'[r].receipt = None
    BY <1>2, <1>3, <1>7 DEF Placed
  <2>3. \A d \in Callers : Fitting(r, d)'
    BY <1>2, <1>3, <1>6, <1>7, <1>8 DEF Fitting
  <2> QED BY <2>1, <2>2, <2>3 DEF Based
<1>12. Sound(r)'
  <2>1. Sealed(r)' /\ Staged(r)' /\ OfItsReceipt(r)' /\ RowsHold(r)' /\ Reported(r)'
    BY <1>1, <1>2, <1>3, <1>7 DEF Sealed, Staged, Settled, OfItsReceipt, RowsHold, Reported
  <2>2. TargetsApart(r)' /\ Whole(r)' /\ Offered(r)' /\ MovesInExecution(r)' /\ Confirmed(r)'
    BY <1>2, <1>3, <1>7 DEF TargetsApart, Whole, Settled, Offered, MovesInExecution, Confirmed
  <2>3. Lone(r)' /\ \A d \in Callers : AtWork(r, d)'
    BY <1>3, <1>6, <1>7, <1>8 DEF Lone, AtWork, Unsettled, PastStage
  <2> QED BY <2>1, <2>2, <2>3 DEF Sound, Rows
<1> QED BY <1>3, <1>7, <1>9, <1>10, <1>11, <1>12 DEF Holds

LEMMA ReopenSound ==
    ASSUME Inv, NEW r \in Runs, NEW c \in Callers, Reopen(r, c)
    PROVE  Holds(r) /\ run'[r].state = "preparing"
<1> DEFINE step == IF call[r][c].step = "resume" THEN "bindings" ELSE "stage"
           items == [i \in Items |-> IF run[r].items[i].prep = "blocked"
                                     THEN [run[r].items[i] EXCEPT !.prep = "pending"]
                                     ELSE run[r].items[i]]
           row == [run[r] EXCEPT !.state = "preparing", !.findings = {}, !.identity = None,
                                 !.items = items]
<1>1. call[r][c] # None /\ (call[r][c].step = "reopen" \/ call[r][c].step = "resume")
  BY DEF Reopen, At
<1>2. run[r] \in RunRow /\ Based(r)
  BY <1>1, AtCall
<1>3. /\ run' = [run EXCEPT ![r] = row] /\ call' = [call EXCEPT ![r][c] = Begin(step)]
      /\ UNCHANGED <<at, good, mounted, overlapped, authorized, drift>>
  BY DEF Reopen, Goes
<1>4. items \in [Items -> Item]
  BY <1>2 DEF RunRow, Item
<1>5. \A i \in Items :
         /\ items[i].prep # "blocked" /\ items[i].done = run[r].items[i].done
         /\ items[i].node = run[r].items[i].node
         /\ items[i].from = run[r].items[i].from /\ items[i].to = run[r].items[i].to
         /\ items[i].prep = "verified" => items[i] = run[r].items[i]
  BY <1>2 DEF RunRow, Item
<1> HIDE DEF items
<1>6. /\ row \in RunRow /\ row.state = "preparing" /\ row.findings = {} /\ row.items = items
      /\ row.scope = run[r].scope /\ row.rewinds = run[r].rewinds /\ row.request = run[r].request
      /\ row.receipt = run[r].receipt
  BY <1>2, <1>4 DEF RunRow, States
<1>7. step \in {"bindings", "stage"} /\ (step = "bindings" => call[r][c].step = "resume")
  OBVIOUS
<1> HIDE DEF row, step
<1>8. Begin(step) \in CallRow /\ Begin(step).step = step /\ Begin(step).todo = {}
  BY <1>7, BeginIsCall DEF Steps
<1>9. /\ Typed' /\ Alone(r) /\ overlapped' = overlapped /\ authorized' = authorized
      /\ run'[r] = row /\ call'[r][c] = Begin(step)
      /\ \A d \in Callers \ {c} : call'[r][d] = call[r][d]
  BY <1>1, <1>3, <1>6, <1>8, Becomes
<1>10. Placed(run'[r].items)
  BY <1>2, <1>5, <1>6, <1>9 DEF Based, Placed
<1>11. Fitting(r, c)'
  BY <1>1, <1>6, <1>7, <1>8, <1>9, AtCall DEF Fitting
<1>12. ASSUME r \notin overlapped PROVE Rows(r)' /\ AtWork(r, c)'
  <2>1. /\ r \in Undisturbed /\ Rows(r) /\ AtWork(r, c) /\ \A i \in Items : ~run[r].items[i].done
    BY <1>1, <1>12, AtCall
  <2>2. run[r].rewinds # None => run'[run[r].rewinds].receipt = run[run[r].rewinds].receipt
    BY <1>9, ReceiptStays
  <2>3. RowsHold(r)' /\ Reported(r)' /\ TargetsApart(r)'
    BY <1>5, <1>6, <1>9, <2>1 DEF Rows, RowsHold, Reported, TargetsApart
  <2>4. OfItsReceipt(r)'
    BY <1>5, <1>6, <1>9, <2>1, <2>2, SMTT(40) DEF Rows, OfItsReceipt
  <2>5. Staged(r)'
    BY <1>6, <1>9 DEF Staged, Settled
  <2>6. Rows(r)'
    BY <1>1, <1>5, <1>6, <1>9, <2>1, <2>3, <2>4, <2>5, RowsInWork DEF Unsettled
  <2>7. AtWork(r, c)'
    BY <1>1, <1>6, <1>7, <1>8, <1>9, <2>1 DEF AtWork, Advanced, Unsettled, PastStage
  <2> QED BY <2>6, <2>7
<1>13. Holds(r)
  BY <1>1, <1>6, <1>9, <1>10, <1>11, <1>12, GoesOn
<1> QED BY <1>6, <1>9, <1>13

LEMMA CheckBindingsSound ==
    ASSUME Inv, NEW r \in Runs, NEW c \in Callers, CheckBindings(r, c)
    PROVE  Holds(r) /\ run'[r].state = run[r].state
<1>1. /\ call[r][c] # None /\ call[r][c].step = "bindings"
      /\ UNCHANGED <<at, good, mounted, overlapped, authorized, drift>>
  BY DEF CheckBindings, At
<1>2. run[r] \in RunRow /\ Based(r) /\ r # Earlier /\ run[r].state # "unused"
  BY <1>1, AtCall
<1>3. CASE run[r].rewinds = None /\ ~mounted
  <2> DEFINE row == [run[r] EXCEPT !.findings = run[r].findings \cup {<<"root", 0>>}]
  <2>1. run' = [run EXCEPT ![r] = row] /\ call' = [call EXCEPT ![r][c] = Begin("keep")]
    BY <1>3 DEF CheckBindings, Goes
  <2>2. <<"root", 0>> \in Codes
    BY DEF Codes
  <2>3. /\ row \in RunRow /\ row.state = run[r].state /\ run[r].findings \subseteq row.findings
        /\ row.items = run[r].items /\ row.scope = run[r].scope /\ row.rewinds = run[r].rewinds
        /\ row.request = run[r].request /\ row.receipt = run[r].receipt
    BY <1>2, <2>2 DEF RunRow
  <2> HIDE DEF row
  <2>4. Begin("keep") \in CallRow /\ Begin("keep").step = "keep" /\ Begin("keep").todo = {}
    BY BeginIsCall DEF Steps
  <2>5. /\ Typed' /\ Alone(r) /\ overlapped' = overlapped /\ authorized' = authorized
        /\ run'[r] = row /\ call'[r][c] = Begin("keep")
        /\ \A d \in Callers \ {c} : call'[r][d] = call[r][d]
    BY <1>1, <2>1, <2>3, <2>4, Becomes
  <2>6. Placed(run'[r].items)
    BY <1>2, <2>3, <2>5 DEF Based
  <2>7. Fitting(r, c)'
    BY <1>2, <2>3, <2>4, <2>5 DEF Fitting
  <2>8. ASSUME r \notin overlapped PROVE Rows(r)' /\ AtWork(r, c)'
    <3>1. /\ r \in Undisturbed /\ Rows(r) /\ AtWork(r, c) /\ run[r].state \in Unsettled
          /\ \A i \in Items : ~run[r].items[i].done
      BY <1>1, <2>8, AtCall
    <3>2. OfItsReceipt(r)' /\ RowsHold(r)' /\ Reported(r)' /\ TargetsApart(r)'
      BY <2>3, <2>5, <3>1, RowsStay
    <3>3. Staged(r)'
      BY <2>3, <2>5, <3>1 DEF Rows, Staged
    <3>4. Rows(r)'
      BY <1>1, <2>3, <2>5, <3>1, <3>2, <3>3, RowsInWork
    <3>5. AtWork(r, c)'
      BY <1>1, <1>3, <2>3, <2>4, <2>5, <3>1 DEF AtWork, PastStage
    <3> QED BY <3>4, <3>5
  <2>9. Holds(r)
    BY <1>1, <1>2, <2>3, <2>5, <2>6, <2>7, <2>8, GoesOn
  <2> QED BY <2>3, <2>5, <2>9
<1>4. CASE ~(run[r].rewinds = None /\ ~mounted)
  <2>1. run' = run /\ call' = [call EXCEPT ![r][c] = Begin("items")]
    BY <1>4 DEF CheckBindings, Goes
  <2>2. /\ Begin("items") \in CallRow /\ Begin("items").step = "items" /\ Begin("items").todo = {}
        /\ Begin("items").after = 0
    BY BeginIsCall DEF Steps
  <2>3. call'[r][c] = Begin("items")
    BY <2>1 DEF Inv, Typed
  <2>4. Fitting(r, c)'
    BY <1>2, <2>1, <2>2, <2>3 DEF Fitting
  <2>5. ASSUME r \notin overlapped PROVE AtWork(r, c)'
    <3>1. AtWork(r, c)
      BY <1>1, <2>5, AtCall
    <3> QED BY <1>1, <2>1, <2>2, <2>3, <3>1 DEF AtWork, Advanced, PastStage
  <2>6. Holds(r)
    BY <1>1, <2>1, <2>2, <2>4, <2>5, CallGoesOn
  <2> QED BY <2>1, <2>6
<1> QED BY <1>3, <1>4

LEMMA KeepBlockedSound ==
    ASSUME Inv, NEW r \in Runs, NEW c \in Callers, KeepBlocked(r, c)
    PROVE  Holds(r) /\ run'[r].state = "blocked"
<1> DEFINE row == [run[r] EXCEPT !.state = "blocked"]
<1>1. /\ call[r][c] # None /\ call[r][c].step = "keep"
      /\ UNCHANGED <<at, good, mounted, overlapped, authorized, drift>>
      /\ run' = [run EXCEPT ![r] = row] /\ call' = [call EXCEPT ![r][c] = None]
  BY DEF KeepBlocked, At, Ends
<1>2. run[r] \in RunRow /\ Based(r)
  BY <1>1, AtCall
<1>3. /\ row \in RunRow /\ row.state = "blocked" /\ run[r].findings \subseteq row.findings
      /\ row.items = run[r].items /\ row.scope = run[r].scope /\ row.rewinds = run[r].rewinds
      /\ row.request = run[r].request /\ row.receipt = run[r].receipt
  BY <1>2 DEF RunRow, States
<1> HIDE DEF row
<1>4. /\ Typed' /\ Alone(r) /\ overlapped' = overlapped /\ authorized' = authorized
      /\ run'[r] = row /\ call'[r][c] = None
      /\ \A d \in Callers \ {c} : call'[r][d] = call[r][d]
  BY <1>1, <1>3, Becomes
<1>5. Placed(run'[r].items)
  BY <1>2, <1>3, <1>4 DEF Based
<1>6. Fitting(r, c)'
  BY <1>4 DEF Fitting
<1>7. ASSUME r \notin overlapped PROVE Rows(r)' /\ AtWork(r, c)'
  <2>1. /\ r \in Undisturbed /\ AtWork(r, c) /\ \A i \in Items : ~run[r].items[i].done
    BY <1>1, <1>7, AtCall
  <2>2. OfItsReceipt(r)' /\ RowsHold(r)' /\ Reported(r)' /\ TargetsApart(r)'
    BY <1>3, <1>4, <2>1, RowsStay
  <2>3. Staged(r)'
    BY <1>1, <1>3, <1>4, <2>1 DEF AtWork, PastStage, Staged
  <2>4. Rows(r)'
    BY <1>1, <1>3, <1>4, <2>1, <2>2, <2>3, RowsInWork DEF Unsettled
  <2>5. AtWork(r, c)'
    BY <1>4 DEF AtWork
  <2> QED BY <2>4, <2>5
<1>8. Holds(r)
  BY <1>1, <1>3, <1>4, <1>5, <1>6, <1>7, GoesOn
<1> QED BY <1>3, <1>4, <1>8

LEMMA StageSound ==
    ASSUME Inv, NEW r \in Runs, NEW c \in Callers, Stage(r, c)
    PROVE  Holds(r) /\ run'[r].state = run[r].state
<1> DEFINE scope == IF run[r].rewinds = None THEN Wanted[run[r].request] ELSE run[r].scope
           row == [run[r] EXCEPT !.scope = scope]
<1>1. /\ call[r][c] # None /\ call[r][c].step = "stage"
      /\ UNCHANGED <<at, good, mounted, overlapped, authorized, drift>>
      /\ call' = [call EXCEPT ![r][c] = Begin("items")]
  BY DEF Stage, At, Goes
<1>2. /\ run[r] \in RunRow /\ Based(r) /\ r # Earlier /\ run[r].state # "unused"
      /\ run[r].rewinds = None => Wanted[run[r].request] \subseteq Items
  BY <1>1, AtCall
<1>3. scope \in SUBSET Items
  BY <1>2 DEF RunRow
<1>4. run[r].rewinds = None => scope = Wanted[run[r].request]
  OBVIOUS
<1>5. scope = run[r].scope \/ (run[r].rewinds = None /\ scope = Wanted[run[r].request])
  OBVIOUS
<1>6. run' = [run EXCEPT ![r] = row]
  <2>1. CASE run[r].rewinds = None
    BY <2>1 DEF Stage
  <2>2. CASE run[r].rewinds # None
    BY <1>2, <2>2 DEF Stage, Inv, Typed, RunRow
  <2> QED BY <2>1, <2>2
<1> HIDE DEF scope
<1>7. /\ row \in RunRow /\ row.scope = scope /\ row.state = run[r].state /\ row.items = run[r].items
      /\ run[r].findings \subseteq row.findings /\ row.rewinds = run[r].rewinds
      /\ row.request = run[r].request /\ row.receipt = run[r].receipt
  BY <1>2, <1>3 DEF RunRow
<1> HIDE DEF row
<1>8. /\ Begin("items") \in CallRow /\ Begin("items").step = "items" /\ Begin("items").todo = {}
      /\ Begin("items").after = 0
  BY BeginIsCall DEF Steps
<1>9. /\ Typed' /\ Alone(r) /\ overlapped' = overlapped /\ authorized' = authorized
      /\ run'[r] = row /\ call'[r][c] = Begin("items")
      /\ \A d \in Callers \ {c} : call'[r][d] = call[r][d]
  BY <1>1, <1>6, <1>7, <1>8, Becomes
<1>10. Placed(run'[r].items)
  BY <1>2, <1>7, <1>9 DEF Based
<1>11. Fitting(r, c)'
  BY <1>2, <1>7, <1>8, <1>9 DEF Fitting
<1>12. ASSUME r \notin overlapped PROVE Rows(r)' /\ AtWork(r, c)'
  <2>1. /\ r \in Undisturbed /\ AtWork(r, c) /\ run[r].state \in Unsettled
        /\ \A i \in Items : ~run[r].items[i].done
    BY <1>1, <1>12, AtCall
  <2>2. OfItsReceipt(r)' /\ RowsHold(r)' /\ Reported(r)' /\ TargetsApart(r)'
    BY <1>5, <1>7, <1>9, <2>1, RowsStay
  <2>3. Staged(r)'
    BY <1>4, <1>7, <1>9 DEF Staged
  <2>4. Rows(r)'
    BY <1>1, <1>7, <1>9, <2>1, <2>2, <2>3, RowsInWork
  <2>5. AtWork(r, c)'
    BY <1>4, <1>7, <1>8, <1>9, <2>1 DEF AtWork, Advanced
  <2> QED BY <2>4, <2>5
<1>13. Holds(r)
  BY <1>1, <1>2, <1>5, <1>7, <1>9, <1>10, <1>11, <1>12, GoesOn
<1> QED BY <1>7, <1>9, <1>13

-----------------------------------------------------------------------------
(* The items.                                                              *)

LEMMA BatchSound ==
    ASSUME Inv, NEW r \in Runs, NEW c \in Callers, Batch(r, c)
    PROVE  Holds(r)
<1>1. PICK todo \in SUBSET Left(r, c) :
        /\ run[r].rewinds # None => todo = Left(r, c)
        /\ call' = [call EXCEPT ![r][c].todo = todo,
                                ![r][c].step = IF todo = {} THEN "finalize" ELSE "items"]
  BY DEF Batch
<1> DEFINE step == IF todo = {} THEN "finalize" ELSE "items"
           new == [call[r][c] EXCEPT !.todo = todo, !.step = step]
<1>2. /\ call[r][c] # None /\ call[r][c].step = "items" /\ call[r][c].todo = {}
      /\ UNCHANGED <<at, good, mounted, run, overlapped, authorized, drift>>
  BY DEF Batch, At
<1>3. /\ run[r] \in RunRow /\ call[r][c] \in CallRow /\ r # Earlier /\ run[r].state # "unused"
      /\ Subject(r) \subseteq Items /\ run[r].scope \subseteq Subject(r)
  BY <1>2, AtCall
<1>4. /\ todo \subseteq run[r].scope
      /\ run[r].rewinds # None =>
           todo = {i \in run[r].scope : call[r][c].after = 0 /\ run[r].items[i].prep = "pending"}
  BY <1>1 DEF Left
<1>5. step \in {"finalize", "items"} /\ (step = "finalize" => todo = {})
  OBVIOUS
<1>6. call' = [call EXCEPT ![r][c] = new]
  <2>1. call \in [Runs -> [Callers -> CallRow \cup {None}]]
    BY DEF Inv, Typed
  <2> QED BY <1>1, <1>3, <2>1 DEF CallRow
<1> HIDE DEF step
<1>7. new \in CallRow /\ new.step = step /\ new.todo = todo /\ new.after = call[r][c].after
  BY <1>3, <1>4, <1>5 DEF CallRow, Steps
<1> HIDE DEF new
<1>8. call'[r][c] = new
  BY <1>6 DEF Inv, Typed
<1>9. Fitting(r, c)'
  BY <1>2, <1>3, <1>4, <1>5, <1>7, <1>8 DEF Fitting, Subject
<1>10. ASSUME r \notin overlapped PROVE AtWork(r, c)'
  <2>1. AtWork(r, c)
    BY <1>2, <1>10, AtCall
  <2>2. ASSUME run[r].rewinds # None
        PROVE  \A i \in run[r].scope : run[r].items[i].prep = "pending" => i \in todo
    <3>1. CASE call[r][c].after = 0
      BY <1>4, <2>2, <3>1
    <3>2. CASE call[r][c].after # 0
      BY <1>2, <2>1, <2>2, <3>2 DEF AtWork, Advanced
    <3> QED BY <3>1, <3>2
  <2>3. run[r].rewinds # None => Advanced(r, c)'
    BY <1>2, <1>5, <1>7, <1>8, <2>2 DEF Advanced
  <2> QED BY <1>2, <1>5, <1>7, <1>8, <2>1, <2>3 DEF AtWork, PastStage
<1> QED BY <1>2, <1>6, <1>7, <1>9, <1>10, CallGoesOn

\* A call that has looked at an item.
LEMMA PassesSound ==
    ASSUME Inv, NEW r \in Runs, NEW c \in Callers, At(r, c, "items"),
           NEW i \in Items, IsNext(r, c, i), NEW to \in CallRow, Passes(r, c, i, to),
           UNCHANGED <<at, good, mounted, run, overlapped, authorized, drift>>,
           to.step \in {"items", "record"}, to.step = "items" => run[r].rewinds = None,
           to.step = "record" /\ to.problem = "none" =>
              /\ to.saw \in Nodes
              /\ run[r].rewinds # None => to.saw = run[run[r].rewinds].receipt[i].node
    PROVE  Holds(r)
<1> DEFINE new == [to EXCEPT !.after = i, !.todo = call[r][c].todo \ {i}]
<1>1. /\ call[r][c] # None /\ call[r][c].step = "items" /\ i \in call[r][c].todo
      /\ call' = [call EXCEPT ![r][c] = new]
  BY DEF At, IsNext, Passes
<1>2. /\ call[r][c] \in CallRow /\ r # Earlier /\ run[r].state # "unused"
      /\ call[r][c].todo \subseteq Subject(r) /\ Subject(r) \subseteq Items
  BY <1>1, AtCall
<1>3. /\ new \in CallRow /\ new.after = i /\ new.todo = call[r][c].todo \ {i}
      /\ new.step = to.step /\ new.saw = to.saw /\ new.problem = to.problem
  BY <1>2 DEF CallRow
<1> HIDE DEF new
<1>4. call'[r][c] = new
  BY <1>1 DEF Inv, Typed
<1>5. Fitting(r, c)'
  BY <1>1, <1>2, <1>3, <1>4 DEF Fitting, Subject
<1>6. ASSUME r \notin overlapped PROVE AtWork(r, c)'
  <2>1. AtWork(r, c)
    BY <1>1, <1>6, AtCall
  <2>2. ASSUME run[r].rewinds # None
        PROVE  \A j \in run[r].scope : run[r].items[j].prep = "pending" => j \in call[r][c].todo
    BY <1>1, <2>1, <2>2 DEF AtWork, Advanced
  <2>3. run[r].rewinds # None => Advanced(r, c)'
    BY <1>3, <1>4, <2>2 DEF Advanced
  <2> QED BY <1>1, <1>3, <1>4, <2>1, <2>3 DEF AtWork, PastStage
<1> QED BY <1>1, <1>3, <1>5, <1>6, CallGoesOn

LEMMA LookSound ==
    ASSUME Inv, NEW r \in Runs, NEW c \in Callers, Look(r, c)
    PROVE  Holds(r)
<1>1. PICK i \in Items :
        /\ IsNext(r, c, i)
        /\ IF run[r].rewinds = None /\ run[r].items[i].prep = "verified"
           THEN Passes(r, c, i, Begin("items"))
           ELSE Passes(r, c, i, [Begin("record") EXCEPT !.saw = Found(Way(r, i).from),
                                                        !.problem = Problem(r, i)])
  BY DEF Look
<1>2. /\ At(r, c, "items")
      /\ UNCHANGED <<at, good, mounted, run, overlapped, authorized, drift>>
  BY DEF Look
<1>3. CASE run[r].rewinds = None /\ run[r].items[i].prep = "verified"
  <2>1. Begin("items") \in CallRow /\ Begin("items").step = "items"
    BY BeginIsCall DEF Steps
  <2> QED BY <1>1, <1>2, <1>3, <2>1, PassesSound
<1>4. CASE ~(run[r].rewinds = None /\ run[r].items[i].prep = "verified")
  <2> DEFINE saw == Found(Way(r, i).from)
             problem == Problem(r, i)
             to == [Begin("record") EXCEPT !.saw = saw, !.problem = problem]
  <2>1. Passes(r, c, i, to)
    BY <1>1, <1>4
  <2>2. i \in Subject(r) /\ run[r].state # "unused" /\ r # Earlier
    BY <1>1, <1>2, AtCall DEF At, IsNext
  <2>3. Way(r, i).from \in Places
    <3>1. Typed /\ \A s \in Runs : Based(s)
      BY DEF Inv
    <3> QED BY <2>2, <3>1, WayIsKnown
  <2>4. saw \in Nodes \cup {None}
    <3>1. Volumes
      BY DEF Inv, Typed
    <3> QED BY <2>3, <3>1, FoundType
  <2>5. problem \in {"none", "target", "item"}
    BY DEF Problem
  <2>6. problem = "none" =>
          saw \in Nodes /\ (run[r].rewinds # None => saw = run[run[r].rewinds].receipt[i].node)
    BY DEF Problem, Fits, Inv, Typed, Volumes
  <2> HIDE DEF saw, problem
  <2>7. to \in CallRow /\ to.step = "record" /\ to.saw = saw /\ to.problem = problem
    BY <2>4, <2>5 DEF Begin, CallRow, Steps
  <2> HIDE DEF to
  <2> QED BY <1>1, <1>2, <2>1, <2>6, <2>7, PassesSound
<1> QED BY <1>3, <1>4

LEMMA EvidenceFailsSound ==
    ASSUME Inv, NEW r \in Runs, NEW c \in Callers, EvidenceFails(r, c)
    PROVE  Holds(r)
<1> DEFINE to == [Begin("record") EXCEPT !.problem = "item"]
<1>1. PICK i \in Items : IsNext(r, c, i) /\ Passes(r, c, i, to)
  BY DEF EvidenceFails
<1>2. /\ At(r, c, "items") /\ run[r].rewinds = None
      /\ UNCHANGED <<at, good, mounted, run, overlapped, authorized, drift>>
  BY DEF EvidenceFails
<1>3. to \in CallRow /\ to.step = "record" /\ to.problem = "item"
  BY DEF Begin, CallRow, Steps
<1> HIDE DEF to
<1> QED BY <1>1, <1>2, <1>3, PassesSound

LEMMA RecordItemSound ==
    ASSUME Inv, NEW r \in Runs, NEW c \in Callers, RecordItem(r, c)
    PROVE  Holds(r) /\ run'[r].state = run[r].state
<1> DEFINE i == call[r][c].after
           p == Way(r, i)
           taken == TargetTaken(run[r].items, i, p.to)
           fails == call[r][c].problem # "none" \/ taken
           code == IF call[r][c].problem # "none" THEN call[r][c].problem ELSE "target"
           item == IF fails THEN [run[r].items[i] EXCEPT !.prep = "blocked"]
                   ELSE [prep |-> "verified", node |-> call[r][c].saw, done |-> run[r].items[i].done,
                         from |-> p.from, to |-> p.to]
           found == IF fails THEN run[r].findings \cup {<<code, i>>} ELSE run[r].findings
           row == [run[r] EXCEPT !.items[i] = item, !.findings = found]
           new == [call[r][c] EXCEPT !.step = "items", !.saw = None, !.problem = "none"]
<1>1. /\ call[r][c] # None /\ call[r][c].step = "record"
      /\ UNCHANGED <<at, good, mounted, overlapped, authorized, drift>>
      /\ call' = [call EXCEPT ![r][c].step = "items", ![r][c].saw = None, ![r][c].problem = "none"]
  BY DEF RecordItem, At
<1>2. /\ run[r] \in RunRow /\ call[r][c] \in CallRow /\ r # Earlier /\ run[r].state # "unused"
      /\ Subject(r) \subseteq Items /\ call[r][c].todo \subseteq Subject(r) /\ Based(r)
  BY <1>1, AtCall
<1>3. /\ i \in Subject(r) /\ i \in Items
      /\ call[r][c].problem = "none" => call[r][c].saw \in Nodes
  BY <1>1, <1>2 DEF Based, Fitting
<1>4. /\ p.from \in Places /\ p.to \in Places
      /\ run[r].rewinds = None => p.from = Source[i]
      /\ run[r].rewinds # None => p.to = run[run[r].rewinds].receipt[i].from
  <2>1. Typed /\ \A s \in Runs : Based(s)
    BY DEF Inv
  <2> QED BY <1>2, <1>3, <2>1, WayIsKnown
<1>5. run[r].items[i] \in Item
  <2>1. run[r].items \in [Items -> Item]
    BY <1>2, ZenonT(60) DEF RunRow
  <2> QED BY <1>3, <2>1
<1>6. item \in Item
  <2>1. ~fails => call[r][c].saw \in Nodes
    BY <1>3
  <2> QED BY <1>4, <1>5, <2>1 DEF Item
<1>7. found \in SUBSET Codes
  <2>1. code \in {"item", "target"}
    BY <1>2 DEF CallRow
  <2>2. <<code, i>> \in Codes
    BY <1>3, <2>1 DEF Codes
  <2> QED BY <1>2, <2>2 DEF RunRow
<1>8. run' = [run EXCEPT ![r] = row]
  <2>1. CASE call[r][c].problem # "none"
    BY <1>2, <2>1 DEF RecordItem, Block, Inv, Typed, RunRow
  <2>2. CASE call[r][c].problem = "none" /\ taken
    BY <1>2, <2>2 DEF RecordItem, Block, Inv, Typed, RunRow
  <2>3. CASE call[r][c].problem = "none" /\ ~taken
    BY <1>2, <2>3 DEF RecordItem, Verify, Inv, Typed, RunRow
  <2> QED BY <2>1, <2>2, <2>3
<1>9. call' = [call EXCEPT ![r][c] = new]
  <2>1. call \in [Runs -> [Callers -> CallRow \cup {None}]]
    BY DEF Inv, Typed
  <2> QED BY <1>1, <1>2, <2>1 DEF CallRow
<1>10. /\ item.prep = (IF fails THEN "blocked" ELSE "verified")
       /\ item.done = run[r].items[i].done
       /\ fails => /\ item.node = run[r].items[i].node /\ item.from = run[r].items[i].from
                   /\ item.to = run[r].items[i].to
  BY <1>5 DEF Item
<1>11. ~fails => /\ item.node = call[r][c].saw /\ item.from = p.from /\ item.to = p.to
                 /\ call[r][c].problem = "none" /\ call[r][c].saw \in Nodes
                 /\ ~TargetTaken(run[r].items, i, p.to)
  BY <1>3
<1>12. fails => found # {}
  OBVIOUS
<1>13. run[r].findings \subseteq found
  OBVIOUS
<1> HIDE DEF taken, fails, code, item, found
<1>14. /\ row \in RunRow /\ row.state = run[r].state /\ row.scope = run[r].scope
       /\ row.rewinds = run[r].rewinds /\ row.request = run[r].request /\ row.findings = found
       /\ row.receipt = run[r].receipt /\ row.items = [run[r].items EXCEPT ![i] = item]
  BY <1>2, <1>6, <1>7 DEF RunRow
<1>15. /\ new \in CallRow /\ new.step = "items" /\ new.after = i /\ new.todo = call[r][c].todo
  BY <1>2 DEF CallRow, Steps
<1> HIDE DEF row, new, i, p
<1>16. /\ Typed' /\ Alone(r) /\ overlapped' = overlapped /\ authorized' = authorized
       /\ run'[r] = row /\ call'[r][c] = new
       /\ \A d \in Callers \ {c} : call'[r][d] = call[r][d]
  BY <1>1, <1>8, <1>9, <1>14, <1>15, Becomes
<1>17. /\ \A j \in Items \ {i} : row.items[j] = run[r].items[j]
       /\ row.items[i] = item
  BY <1>2, <1>3, <1>14 DEF RunRow
<1>18. Placed(run'[r].items)
  <2>1. Placed(run[r].items)
    BY <1>2 DEF Based
  <2>2. /\ item.done => item.node # None
        /\ item.node # None => item.from \in Places /\ item.to \in Places
    <3>1. CASE fails
      BY <1>3, <1>10, <2>1, <3>1 DEF Placed
    <3>2. CASE ~fails
      <4>1. item.node \in Nodes /\ item.from \in Places /\ item.to \in Places
        BY <1>4, <1>11, <3>2
      <4> QED BY <4>1, PreparationConstants
    <3> QED BY <3>1, <3>2
  <2> QED BY <1>16, <1>17, <2>1, <2>2 DEF Placed
<1>19. Fitting(r, c)'
  <2>1. Subject(r)' = Subject(r)
    BY <1>14, <1>16 DEF Subject
  <2> QED BY <1>2, <1>14, <1>15, <1>16, <2>1 DEF Fitting
<1>20. ASSUME r \notin overlapped PROVE Rows(r)' /\ AtWork(r, c)'
  <2>1. /\ r \in Undisturbed /\ Rows(r) /\ AtWork(r, c) /\ run[r].state \in Unsettled
        /\ \A j \in Items : ~run[r].items[j].done
    BY <1>1, <1>20, AtCall
  <2>2. run[r].rewinds # None => run'[run[r].rewinds].receipt = run[run[r].rewinds].receipt
    BY <1>16, ReceiptStays
  <2>3. RowsHold(r)'
    <3>1. RowsHold(r)
      BY <2>1 DEF Rows
    <3>2. ASSUME NEW j \in Items \ {i}, row.items[j].prep = "verified"
          PROVE  /\ row.items[j].node \in Nodes /\ row.items[j].to \in Places
                 /\ run[r].rewinds = None => row.items[j].from = Source[j]
      BY <1>17, <3>1, <3>2 DEF RowsHold
    <3>3. row.items[i].prep = "verified" =>
            /\ row.items[i].node \in Nodes /\ row.items[i].to \in Places
            /\ run[r].rewinds = None => row.items[i].from = Source[i]
      BY <1>4, <1>10, <1>11, <1>17
    <3> QED BY <1>14, <1>16, <3>2, <3>3 DEF RowsHold
  <2>4. Reported(r)'
    BY <1>10, <1>12, <1>13, <1>14, <1>16, <1>17, <2>1 DEF Rows, Reported
  <2>5. TargetsApart(r)'
    <3>1. TargetsApart(r)
      BY <2>1 DEF Rows
    <3>2. ~fails => \A j \in Items \ {i} : run[r].items[j].to # item.to
      BY <1>11 DEF TargetTaken
    <3> QED BY <1>3, <1>10, <1>16, <1>17, <3>1, <3>2 DEF TargetsApart
  <2>6. OfItsReceipt(r)'
    <3>1. OfItsReceipt(r)
      BY <2>1, ZenonT(60) DEF Rows
    <3>2. run[r].rewinds # None /\ ~fails =>
            /\ i \in run[r].scope
            /\ item.node = run[run[r].rewinds].receipt[i].node
            /\ item.to = run[run[r].rewinds].receipt[i].from
      BY <1>1, <1>3, <1>4, <1>11, <2>1 DEF AtWork, Subject, i
    <3>3. ASSUME NEW j \in Items, run[r].rewinds # None, row.items[j].prep = "verified"
          PROVE  /\ j \in run[r].scope
                 /\ row.items[j].node = run[run[r].rewinds].receipt[j].node
                 /\ row.items[j].to = run[run[r].rewinds].receipt[j].from
      <4>1. CASE j = i
        BY <1>10, <1>17, <3>2, <3>3, <4>1
      <4>2. CASE j # i
        BY <1>17, <3>1, <3>3, <4>2 DEF OfItsReceipt
      <4> QED BY <4>1, <4>2
    <3>4. run'[r].rewinds = run[r].rewinds /\ run'[r].scope = run[r].scope /\ run'[r].items = row.items
      BY <1>14, <1>16
    <3>5. ASSUME run[r].rewinds # None PROVE OfItsReceipt(r)'
      BY <1>16, <2>2, <3>1, <3>3, <3>4, <3>5 DEF OfItsReceipt
    <3> QED BY <3>4, <3>5 DEF OfItsReceipt
  <2>7. Staged(r)'
    BY <1>14, <1>16, <2>1 DEF Rows, Staged
  <2>8. \A j \in Items : ~row.items[j].done
    BY <1>10, <1>17, <2>1
  <2>9. Rows(r)'
    BY <1>1, <1>14, <1>16, <2>1, <2>3, <2>4, <2>5, <2>6, <2>7, <2>8, RowsInWork
  <2>10. run[r].rewinds # None => Advanced(r, c)'
    <3>1. ASSUME run[r].rewinds # None, NEW j \in run[r].scope, row.items[j].prep = "pending"
          PROVE  j \in call[r][c].todo
      <4>1. j \in Items
        BY <1>2 DEF RunRow
      <4>2. j # i
        BY <1>10, <1>17, <3>1
      <4>3. run[r].items[j].prep = "pending"
        BY <1>17, <3>1, <4>1, <4>2, SMTT(40)
      <4> QED BY <1>1, <2>1, <3>1, <4>2, <4>3 DEF AtWork, Advanced, i
    <3> QED BY <1>14, <1>15, <1>16, <3>1 DEF Advanced
  <2>11. AtWork(r, c)'
    BY <1>1, <1>14, <1>15, <1>16, <2>1, <2>10 DEF AtWork, PastStage
  <2> QED BY <2>9, <2>11
<1>21. Holds(r)
  BY <1>1, <1>2, <1>14, <1>16, <1>18, <1>19, <1>20, GoesOn
<1> QED BY <1>14, <1>16, <1>21

-----------------------------------------------------------------------------
(* The end of the preparation.                                             *)

\* What Finalize makes of the row.
LEMMA FinalizedRow ==
    ASSUME Inv, NEW r \in Runs, NEW c \in Callers, Finalize(r, c)
    PROVE  LET found == run[r].findings \cup Findings(r)
           IN  /\ run' = [run EXCEPT ![r] =
                             [run[r] EXCEPT !.findings = found,
                                            !.state = IF found = {} THEN "ready" ELSE "blocked",
                                            !.identity = [items |-> run[r].items, findings |-> found]]]
               /\ found \in SUBSET Codes
<1> DEFINE found == run[r].findings \cup Findings(r)
<1>1. run[r] \in RunRow
  BY DEF Inv, Typed
<1>2. found \in SUBSET Codes
  <2>1. Missing(r) \in SUBSET Codes
    BY <1>1 DEF Missing, Codes, RunRow
  <2> QED BY <1>1, <2>1 DEF Findings, Codes, RunRow
<1>3. run' = [run EXCEPT ![r] = Ended([run[r] EXCEPT !.findings = found])]
  BY DEF Finalize
<1> HIDE DEF found
<1>4. Ended([run[r] EXCEPT !.findings = found])
        = [run[r] EXCEPT !.findings = found,
                         !.state = IF found = {} THEN "ready" ELSE "blocked",
                         !.identity = [items |-> run[r].items, findings |-> found]]
  BY <1>1 DEF Ended, Identity, RunRow
<1> QED BY <1>2, <1>3, <1>4 DEF found

\* What an undisturbed Run has moved, its Receipt tells by object and places.
LEMMA MovedIsKnown ==
    ASSUME Inv, NEW of \in Undisturbed, run[of].receipt # None, run[of].rewinds = None,
           NEW i \in Items, run[of].receipt[i].done
    PROVE  /\ run[of].receipt[i] = run[of].items[i] /\ run[of].items[i].prep = "verified"
           /\ run[of].receipt[i].from = Source[i] /\ ObjectsApart(of)
<1>1. Rows(of) /\ run[of].state = "closed" /\ run[of].receipt = run[of].items
  BY ReceiptIsClosed DEF Inv, Sound
<1>2. run[of].items[i].prep = "verified" /\ ObjectsApart(of)
  BY <1>1 DEF Rows, MovesInExecution, Whole, Settled
<1> QED BY <1>1, <1>2 DEF Rows, RowsHold

\* No two objects of a Run are one when its preparation ends without a finding:
\* a forward Run has looked for aliases, a rewind takes the objects of its Receipt.
LEMMA ObjectsWereCompared ==
    ASSUME Inv, NEW r \in Undisturbed, Findings(r) = {}
    PROVE  ObjectsApart(r)
<1>1. CASE run[r].rewinds = None
  <2>1. ~Alias(run[r].items)
    BY <1>1 DEF Findings
  <2> QED BY <2>1 DEF Alias, ObjectsApart
<1>2. CASE run[r].rewinds # None
  <2>1. PICK o \in Undisturbed : o = run[r].rewinds /\ run[o].receipt # None /\ run[o].rewinds = None
    BY <1>2 DEF Inv, Based, OfAReceipt, Sound, Rows, OfItsReceipt, Undisturbed
  <2>2. ASSUME NEW i \in Items, run[r].items[i].prep = "verified"
        PROVE  /\ run[o].items[i].prep = "verified" /\ run[r].items[i].node = run[o].items[i].node
               /\ ObjectsApart(o)
    <3>1. i \in run[r].scope /\ run[r].items[i].node = run[o].receipt[i].node
      BY <1>2, <2>1, <2>2 DEF Inv, Sound, Rows, OfItsReceipt
    <3>2. run[o].receipt[i].done
      BY <1>2, <2>1, <3>1 DEF Inv, Based, OfAReceipt, Undisturbed
    <3> QED BY <2>1, <3>1, <3>2, MovedIsKnown
  <2> QED BY <2>2 DEF ObjectsApart
<1> QED BY <1>1, <1>2

LEMMA FinalizeSound ==
    ASSUME Inv, NEW r \in Runs, NEW c \in Callers, Finalize(r, c)
    PROVE  Holds(r) /\ overlapped' = overlapped
<1> DEFINE found == run[r].findings \cup Findings(r)
           state == IF found = {} THEN "ready" ELSE "blocked"
           identity == [items |-> run[r].items, findings |-> found]
           row == [run[r] EXCEPT !.findings = found, !.state = state, !.identity = identity]
<1>1. /\ call[r][c] # None /\ call[r][c].step = "finalize" /\ call' = [call EXCEPT ![r][c] = None]
      /\ UNCHANGED <<at, good, mounted, overlapped, authorized, drift>>
  BY DEF Finalize, At, Ends
<1>2. run' = [run EXCEPT ![r] = row] /\ found \in SUBSET Codes
  BY FinalizedRow
<1>3. run[r] \in RunRow /\ Based(r)
  BY <1>1, AtCall
<1>4. /\ state \in {"ready", "blocked"} /\ (state = "ready" => found = {})
      /\ run[r].findings \subseteq found
  OBVIOUS
<1>5. found = {} => Findings(r) = {} /\ run[r].findings = {}
  OBVIOUS
<1> HIDE DEF found, state
<1>6. /\ row \in RunRow /\ row.state = state /\ row.findings = found /\ row.identity = Identity(row)
      /\ row.items = run[r].items /\ row.scope = run[r].scope /\ row.rewinds = run[r].rewinds
      /\ row.request = run[r].request /\ row.receipt = run[r].receipt
  <2>1. identity \in Identities
    BY <1>2, <1>3 DEF Identities, RunRow
  <2>2. row \in RunRow
    BY <1>2, <1>3, <1>4, <2>1 DEF RunRow, States
  <2> QED BY <1>3, <2>2 DEF RunRow, Identity
<1> HIDE DEF row
<1>7. /\ Typed' /\ Alone(r) /\ overlapped' = overlapped /\ authorized' = authorized
      /\ run'[r] = row /\ call'[r][c] = None
      /\ \A d \in Callers \ {c} : call'[r][d] = call[r][d]
  BY <1>1, <1>2, <1>6, Becomes
<1>8. Placed(run'[r].items)
  BY <1>3, <1>6, <1>7 DEF Based
<1>9. Fitting(r, c)' /\ AtWork(r, c)'
  BY <1>7 DEF Fitting, AtWork
<1>10. ASSUME r \notin overlapped PROVE Rows(r)'
  <2>1. /\ r \in Undisturbed /\ Rows(r) /\ AtWork(r, c) /\ \A i \in Items : ~run[r].items[i].done
        /\ run[r].receipt = None /\ authorized[r] = None
    BY <1>1, <1>10, AtCall
  <2>2. /\ OfItsReceipt(r)' /\ RowsHold(r)' /\ Reported(r)' /\ TargetsApart(r)'
        /\ ObjectsApart(r) => ObjectsApart(r)'
    BY <1>4, <1>6, <1>7, <2>1, RowsStay
  <2>3. Whole(r)'
    <3> SUFFICES ASSUME found = {} PROVE Whole(r)'
      BY <1>4, <1>6, <1>7 DEF Whole, Settled
    <3>1. ObjectsApart(r)'
      BY <1>5, <2>1, <2>2, ObjectsWereCompared
    <3>2. \A i \in run[r].scope : run[r].items[i].prep # "pending"
      <4>1. CASE run[r].rewinds = None
        <5>1. Missing(r) = {}
          BY <1>5, <4>1 DEF Findings
        <5> QED BY <1>3, <5>1, NoneMissing DEF RunRow
      <4>2. CASE run[r].rewinds # None
        BY <1>1, <2>1, <4>2 DEF AtWork, Advanced
      <4> QED BY <4>1, <4>2
    <3>3. ASSUME NEW i \in run[r].scope PROVE run[r].items[i].prep = "verified"
      <4>1. run[r].items[i].prep # "blocked"
        BY <1>3, <1>5, <2>1 DEF Rows, Reported, RunRow
      <4>2. run[r].items[i].prep \in {"pending", "verified", "blocked"}
        BY <1>3 DEF RunRow, Item
      <4> QED BY <3>2, <4>1, <4>2
    <3> QED BY <1>6, <1>7, <3>1, <3>3 DEF Whole
  <2>4. Staged(r)'
    BY <1>1, <1>6, <1>7, <2>1 DEF AtWork, PastStage, Staged
  <2>5. Offered(r)'
    BY <1>3, <1>6, <1>7 DEF Offered, Identity
  <2>6. Sealed(r)' /\ MovesInExecution(r)' /\ Confirmed(r)'
    BY <1>4, <1>6, <1>7, <2>1 DEF Sealed, MovesInExecution, Confirmed
  <2> QED BY <2>2, <2>3, <2>4, <2>5, <2>6 DEF Rows
<1>11. run'[r].state # "unused"
  BY <1>4, <1>6, <1>7
<1>12. Holds(r)
  BY <1>1, <1>6, <1>7, <1>8, <1>9, <1>10, <1>11, GoesOn
<1> QED BY <1>7, <1>12

LEMMA CrashSound ==
    ASSUME Inv, NEW r \in Runs, NEW c \in Callers, Crash(r, c)
    PROVE  Holds(r)
<1>1. /\ call[r][c] # None /\ call' = [call EXCEPT ![r][c] = None]
      /\ UNCHANGED <<at, good, mounted, run, overlapped, authorized, drift>>
  BY DEF Crash, Ends
<1>2. call'[r][c] = None
  BY <1>1 DEF Inv, Typed
<1>3. Fitting(r, c)' /\ AtWork(r, c)'
  BY <1>2 DEF Fitting, AtWork
<1> QED BY <1>1, <1>3, CallGoesOn

LEMMA PrepareRewindSound ==
    ASSUME Inv, NEW r \in Runs, NEW of \in Runs, PrepareRewind(r, of)
    PROVE  Holds(r) /\ run'[r].rewinds # None
<1> DEFINE back == {i \in Items : run[of].receipt[i].done}
           items == [i \in Items |-> IF i \in back THEN Rewound(of, i) ELSE NoItem]
           found == {<<"item", i>> : i \in {j \in back : items[j].prep = "blocked"}}
           row == Ended([NoRun EXCEPT !.rewinds = of, !.scope = back, !.items = items, !.findings = found])
<1>1. /\ run[r].state = "unused" /\ run[of].receipt # None /\ run[of].rewinds = None
      /\ run' = [run EXCEPT ![r] = row]
      /\ overlapped' = IF of \in overlapped THEN overlapped \cup {r} ELSE overlapped
      /\ UNCHANGED <<at, good, mounted, call, authorized, drift>>
  BY DEF PrepareRewind
<1>2. /\ run[r] = NoRun /\ NoRun \in RunRow /\ NoRun.receipt = None /\ r # Earlier /\ r # of
      /\ authorized[r] = None /\ \A c \in Callers : call[r][c] = None
  BY <1>1, Unused
<1>3. ASSUME NEW i \in back
      PROVE  /\ items[i] \in Item /\ items[i].prep \in {"verified", "blocked"} /\ ~items[i].done
             /\ items[i].prep = "verified" =>
                  items[i].node = run[of].receipt[i].node /\ items[i].node \in Nodes
             /\ items[i].to = run[of].receipt[i].from
             /\ items[i].from \in Places /\ items[i].to \in Places
  <2>1. run[of].receipt[i].from \in Places /\ run[of].receipt[i].to \in Places
    BY <1>1 DEF Inv, Based, Placed
  <2>2. items[i] = Rewound(of, i)
    OBVIOUS
  <2>3. good \subseteq Nodes
    BY DEF Inv, Typed, Volumes
  <2>4. /\ Rewound(of, i) \in Item /\ Rewound(of, i).prep \in {"verified", "blocked"}
        /\ ~Rewound(of, i).done
        /\ Rewound(of, i).prep = "verified" =>
             Rewound(of, i).node = run[of].receipt[i].node /\ Rewound(of, i).node \in Nodes
        /\ Rewound(of, i).to = run[of].receipt[i].from /\ Rewound(of, i).from \in Places
    BY <2>1, <2>3 DEF Rewound, Item
  <2> HIDE DEF items
  <2> QED BY <2>1, <2>2, <2>4
<1>4. ASSUME NEW i \in Items \ back
      PROVE  items[i] \in Item /\ items[i].prep = "pending" /\ ~items[i].done /\ items[i].node = None
  BY DEF NoItem, Item
<1>5. items \in [Items -> Item]
  <2>1. \A i \in Items : items[i] \in Item
    BY <1>3, <1>4
  <2> QED BY <2>1
<1>6. found \in SUBSET Codes
  <2>1. \A i \in Items : <<"item", i>> \in Codes
    BY DEF Codes
  <2> HIDE DEF items
  <2> QED BY <2>1
<1>7. \A i \in Items : items[i].prep = "blocked" => i \in back /\ found # {}
  BY <1>4
<1>8. back \in SUBSET Items /\ \A i \in back : run[of].receipt[i].done
  OBVIOUS
<1> HIDE DEF back, items, found
<1>9. /\ row \in RunRow /\ row.state = (IF found = {} THEN "ready" ELSE "blocked")
      /\ row.findings = found /\ row.items = items /\ row.scope = back /\ row.rewinds = of
      /\ row.identity = Identity(row) /\ row.receipt = None
  <2> DEFINE new == [NoRun EXCEPT !.rewinds = of, !.scope = back, !.items = items, !.findings = found]
             whole == [new EXCEPT !.state = IF found = {} THEN "ready" ELSE "blocked",
                                  !.identity = [items |-> items, findings |-> found]]
  <2>1. /\ new \in RunRow /\ new.findings = found /\ new.items = items /\ new.scope = back
        /\ new.rewinds = of /\ new.receipt = None
    BY <1>2, <1>5, <1>6, <1>8 DEF RunRow
  <2> HIDE DEF new
  <2>2. row = whole
    BY <2>1 DEF Ended, Identity, new
  <2>3. [items |-> items, findings |-> found] \in Identities
    BY <1>5, <1>6 DEF Identities
  <2>4. whole \in RunRow
    BY <2>1, <2>3, ZenonT(60) DEF RunRow, States
  <2> HIDE DEF row
  <2> QED BY <2>1, <2>2, <2>4 DEF Identity, RunRow
<1> HIDE DEF row
<1>10. /\ run \in [Runs -> RunRow] /\ call \in [Runs -> [Callers -> CallRow \cup {None}]]
       /\ overlapped \subseteq Runs
  BY DEF Inv, Typed
<1>11. /\ run'[r] = row /\ run' \in [Runs -> RunRow] /\ \A s \in Runs \ {r} : run'[s] = run[s]
       /\ overlapped' \subseteq overlapped \cup {r} /\ overlapped \subseteq overlapped'
       /\ \A c \in Callers : call'[r][c] = None
  BY <1>1, <1>2, <1>9, <1>10
<1>12. Typed'
  BY <1>1, <1>10, <1>11 DEF Inv, Typed, Volumes
<1>13. Alone(r)
  BY <1>1, <1>2, <1>11 DEF Alone
<1>14. run'[of] = run[of] /\ of # None
  BY <1>2, <1>11, PreparationConstants
<1>15. Based(r)'
  <2>1. Asked(r)'
    BY <1>2, <1>9, <1>11, <1>14 DEF Asked
  <2>2. OfAReceipt(r)'
    BY <1>1, <1>8, <1>9, <1>11, <1>14 DEF OfAReceipt
  <2>3. Placed(run[r].items)' /\ run'[r].receipt = None
    BY <1>3, <1>4, <1>9, <1>11 DEF Placed
  <2>4. \A c \in Callers : Fitting(r, c)'
    BY <1>11 DEF Fitting
  <2> QED BY <2>1, <2>2, <2>3, <2>4 DEF Based
<1>16. ASSUME r \notin overlapped' PROVE Sound(r)'
  <2>1. of \in Undisturbed /\ of \notin overlapped'
    BY <1>1, <1>2, <1>16 DEF Undisturbed
  <2>2. \A i \in Items : items[i].prep = "verified" => i \in back
    BY <1>4
  <2>3. ASSUME NEW i \in back
        PROVE  /\ run[of].items[i].prep = "verified" /\ run[of].receipt[i].from = Source[i]
               /\ run[of].receipt[i].node = run[of].items[i].node /\ ObjectsApart(of)
    <3>1. i \in Items /\ run[of].receipt[i].done
      BY <1>8, <2>3
    <3> QED BY <1>1, <2>1, <3>1, MovedIsKnown
  <2>4. OfItsReceipt(r)'
    BY <1>3, <1>9, <1>11, <1>14, <2>1, <2>2 DEF OfItsReceipt
  <2>5. RowsHold(r)'
    BY <1>3, <1>9, <1>11, <1>14, <2>2 DEF RowsHold
  <2>6. Reported(r)'
    BY <1>7, <1>9, <1>11 DEF Reported
  <2>7. TargetsApart(r)'
    <3>1. \A i \in back : items[i].to = Source[i]
      BY <1>3, <2>3
    <3> QED BY <1>8, <1>9, <1>11, <2>2, <3>1, PreparationConstants DEF TargetsApart
  <2>8. Whole(r)'
    <3>1. ASSUME NEW i \in Items, NEW j \in Items, i # j,
                 items[i].prep = "verified", items[j].prep = "verified"
          PROVE  items[i].node # items[j].node
      <4>1. i \in back /\ j \in back
        BY <2>2, <3>1
      <4>2. /\ items[i].node = run[of].items[i].node /\ items[j].node = run[of].items[j].node
            /\ run[of].items[i].prep = "verified" /\ run[of].items[j].prep = "verified"
            /\ ObjectsApart(of)
        BY <1>3, <2>3, <3>1, <4>1
      <4> QED BY <3>1, <4>2 DEF ObjectsApart
    <3>2. ObjectsApart(r)'
      BY <1>9, <1>11, <3>1 DEF ObjectsApart
    <3>3. found = {} => \A i \in back : items[i].prep = "verified"
      BY <1>3, <1>7, <1>8
    <3> QED BY <1>9, <1>11, <3>2, <3>3 DEF Whole, Settled
  <2>9. \A i \in Items : ~items[i].done
    BY <1>3, <1>4
  <2>10. Sealed(r)' /\ Staged(r)' /\ Offered(r)' /\ MovesInExecution(r)' /\ Confirmed(r)'
    BY <1>1, <1>2, <1>9, <1>11, <1>14, <2>9
       DEF Sealed, Staged, Offered, Identity, MovesInExecution, Confirmed
  <2>11. Lone(r)' /\ \A c \in Callers : AtWork(r, c)'
    BY <1>11 DEF Lone, AtWork
  <2> QED BY <2>4, <2>5, <2>6, <2>7, <2>8, <2>10, <2>11 DEF Sound, Rows
<1>17. run'[r].rewinds # None
  BY <1>9, <1>11, <1>14
<1> QED BY <1>12, <1>13, <1>15, <1>16, <1>17 DEF Holds

-----------------------------------------------------------------------------
(* What is done with a prepared Run.                                       *)

\* A step that writes a row beside the calls.
LEMMA RowBecomes ==
    ASSUME Inv, NEW r \in Runs, NEW row \in RunRow, run' = [run EXCEPT ![r] = row],
           call' = call, overlapped' = overlapped, Volumes',
           authorized' \in [Runs -> Identities \cup {None}],
           \A s \in Runs \ {r} : authorized'[s] = authorized[s],
           r # Earlier, run[r].state # "unused", row.state # "unused",
           run[r].state # "closed" \/ r \in overlapped,
           row.rewinds = run[r].rewinds, row.request = run[r].request, row.scope = run[r].scope,
           run[r].receipt # None => row.receipt = run[r].receipt,
           Placed(row.items), row.receipt # None => Placed(row.receipt)
    PROVE  Typed' /\ Alone(r) /\ Based(r)' /\ run'[r] = row
<1>1. /\ run \in [Runs -> RunRow] /\ call \in [Runs -> [Callers -> CallRow \cup {None}]]
      /\ overlapped \subseteq Runs
  BY DEF Inv, Typed
<1>2. /\ run'[r] = row /\ run' \in [Runs -> RunRow] /\ \A s \in Runs \ {r} : run'[s] = run[s]
  BY <1>1
<1>3. Typed'
  BY <1>1, <1>2 DEF Typed
<1>4. Alone(r)
  BY <1>2 DEF Alone
<1>5. Based(r)'
  <2>1. \A c \in Callers : call'[r][c] = call[r][c]
    OBVIOUS
  <2> QED BY <1>2, <1>4, <2>1, BasedStays
<1> QED BY <1>2, <1>3, <1>4, <1>5

\* At a Run whose rows are settled no call is at work.
LEMMA SettledIsCalm ==
    ASSUME Inv, NEW r \in Undisturbed, run[r].state \in Settled
    PROVE  \A c \in Callers : call[r][c] = None
BY DEF Inv, Sound, AtWork, Settled, Unsettled

LEMMA CancelSound ==
    ASSUME Inv, NEW r \in Runs, CancelBeforeExecution(r)
    PROVE  Holds(r) /\ run'[r].state = "cancelled"
<1> DEFINE row == [run[r] EXCEPT !.state = "cancelled"]
<1>1. /\ run[r].state \in {"preparing", "ready", "blocked"} /\ run' = [run EXCEPT ![r] = row]
      /\ UNCHANGED <<at, good, mounted, call, overlapped, authorized, drift>>
  BY DEF CancelBeforeExecution
<1>2. run[r] \in RunRow /\ Based(r) /\ r # Earlier
  BY <1>1 DEF Inv, Typed, Based, Asked
<1>3. /\ row \in RunRow /\ row.state = "cancelled" /\ row.items = run[r].items
      /\ row.scope = run[r].scope /\ row.rewinds = run[r].rewinds /\ row.request = run[r].request
      /\ run[r].findings \subseteq row.findings /\ row.receipt = run[r].receipt
  BY <1>2 DEF RunRow, States
<1> HIDE DEF row
<1>4. Typed' /\ Alone(r) /\ Based(r)' /\ run'[r] = row
  <2>1. Volumes' /\ authorized' \in [Runs -> Identities \cup {None}]
    BY <1>1 DEF Inv, Typed, Volumes
  <2>2. Placed(row.items) /\ (row.receipt # None => Placed(row.receipt))
    BY <1>2, <1>3 DEF Based
  <2> QED BY <1>1, <1>2, <1>3, <2>1, <2>2, RowBecomes
<1>5. ASSUME r \notin overlapped' PROVE Sound(r)'
  <2>1. r \in Undisturbed /\ Sound(r)
    BY <1>1, <1>5 DEF Inv, Undisturbed
  <2>2. OfItsReceipt(r)' /\ RowsHold(r)' /\ Reported(r)' /\ TargetsApart(r)'
    BY <1>1, <1>3, <1>4, <2>1, RowsStay
  <2>3. /\ Sealed(r)' /\ Staged(r)' /\ Whole(r)' /\ Offered(r)' /\ MovesInExecution(r)'
        /\ Confirmed(r)'
    BY <1>1, <1>3, <1>4, <2>1
       DEF Sound, Rows, Sealed, Staged, Whole, Offered, MovesInExecution, Confirmed, Settled
  <2>4. run[r].rewinds # None => run'[run[r].rewinds].receipt = run[run[r].rewinds].receipt
    BY <1>4, ReceiptStays, SMTT(40)
  <2>5. \A c \in Callers : AtWork(r, c)'
    BY <1>1, <1>3, <1>4, <2>1, <2>4 DEF Sound, AtWork, Advanced, Unsettled
  <2>6. Lone(r)'
    BY <1>1, <2>1 DEF Sound, Lone
  <2> QED BY <2>2, <2>3, <2>5, <2>6 DEF Sound, Rows
<1> QED BY <1>3, <1>4, <1>5 DEF Holds

LEMMA AuthorizeSound ==
    ASSUME Inv, NEW r \in Runs, Authorize(r)
    PROVE  /\ Holds(r) /\ overlapped' = overlapped
           /\ run'[r].items = run[r].items /\ run'[r].scope = run[r].scope
           /\ run'[r].rewinds = run[r].rewinds
<1> DEFINE row == [run[r] EXCEPT !.state = "executing"]
<1>1. /\ run[r].state = "ready" /\ run' = [run EXCEPT ![r] = row]
      /\ authorized' = [authorized EXCEPT ![r] = run[r].identity]
      /\ UNCHANGED <<at, good, mounted, call, overlapped, drift>>
  BY DEF Authorize
<1>2. run[r] \in RunRow /\ Based(r) /\ r # Earlier
  BY <1>1 DEF Inv, Typed, Based, Asked
<1>3. /\ row \in RunRow /\ row.state = "executing" /\ row.items = run[r].items
      /\ row.scope = run[r].scope /\ row.rewinds = run[r].rewinds /\ row.request = run[r].request
      /\ row.findings = run[r].findings /\ row.receipt = run[r].receipt
  BY <1>2 DEF RunRow, States
<1> HIDE DEF row
<1>4. /\ authorized' \in [Runs -> Identities \cup {None}] /\ authorized'[r] = run[r].identity
      /\ \A s \in Runs \ {r} : authorized'[s] = authorized[s]
  BY <1>1, <1>2 DEF Inv, Typed, RunRow
<1>5. Typed' /\ Alone(r) /\ Based(r)' /\ run'[r] = row
  <2>1. Volumes'
    BY <1>1 DEF Inv, Typed, Volumes
  <2>2. Placed(row.items) /\ (row.receipt # None => Placed(row.receipt))
    BY <1>2, <1>3 DEF Based
  <2> QED BY <1>1, <1>2, <1>3, <1>4, <2>1, <2>2, RowBecomes
<1>6. ASSUME r \notin overlapped' PROVE Sound(r)'
  <2>1. r \in Undisturbed /\ Sound(r) /\ \A c \in Callers : call[r][c] = None
    BY <1>1, <1>6, SettledIsCalm DEF Inv, Undisturbed, Settled
  <2>2. /\ OfItsReceipt(r)' /\ RowsHold(r)' /\ Reported(r)' /\ TargetsApart(r)'
        /\ ObjectsApart(r) => ObjectsApart(r)'
    BY <1>1, <1>3, <1>5, <2>1, RowsStay
  <2>3. run[r].identity = [items |-> run[r].items, findings |-> {}]
    BY <1>1, <2>1 DEF Sound, Rows, Whole, Offered, Identity, Settled
  <2>4. \A i \in Items : ~run[r].items[i].done
    BY <1>1, <2>1 DEF Sound, Rows, MovesInExecution
  <2>5. Confirmed(r)'
    <3>1. ASSUME NEW i \in Items PROVE run[r].items[i] = [run[r].items[i] EXCEPT !.done = FALSE]
      <4>1. run[r].items[i] \in Item /\ run[r].items[i].done = FALSE
        BY <1>2, <2>4 DEF RunRow, Item
      <4> QED BY <4>1 DEF Item
    <3> QED BY <1>3, <1>4, <1>5, <2>3, <3>1 DEF Confirmed
  <2>6. Sealed(r)' /\ Staged(r)' /\ Whole(r)' /\ Offered(r)' /\ MovesInExecution(r)'
    BY <1>1, <1>3, <1>5, <2>1, <2>2, <2>4
       DEF Sound, Rows, Sealed, Staged, Whole, Offered, MovesInExecution, Settled
  <2>7. Lone(r)' /\ \A c \in Callers : AtWork(r, c)'
    BY <1>1, <2>1 DEF Lone, AtWork
  <2> QED BY <2>2, <2>5, <2>6, <2>7 DEF Sound, Rows
<1> QED BY <1>1, <1>3, <1>5, <1>6 DEF Holds

\* Where no calls overlap only a Run that is being executed has an executor.
LEMMA ExecutingIsKnown ==
    ASSUME Inv, NEW r \in Runs, Executing(r)
    PROVE  /\ r # Earlier /\ run[r].state # "unused" /\ run[r].receipt = None
           /\ run[r].state # "closed" \/ r \in overlapped
           /\ r \notin overlapped =>
                /\ r \in Undisturbed /\ Sound(r) /\ run[r].state = "executing"
                /\ \A c \in Callers : call[r][c] = None
<1>1. authorized[r] # None /\ run[r].receipt = None
  BY DEF Executing
<1>2. run[r].items # None
  BY NoneIsNothing DEF Inv, Typed, RunRow
<1>3. ASSUME r \notin overlapped
      PROVE  r \in Undisturbed /\ Sound(r) /\ run[r].state # "closed"
  BY <1>1, <1>2, <1>3 DEF Inv, Undisturbed, Sound, Rows, Sealed
<1>4. r # Earlier /\ run[r].state # "unused"
  BY <1>1, <1>3 DEF Inv, Based, Asked
<1>5. r \notin overlapped => run[r].state = "executing"
  BY <1>1, <1>3, <1>4 DEF Sound, Rows, Sealed
<1>6. r \notin overlapped => \A c \in Callers : call[r][c] = None
  BY <1>3, <1>5, SettledIsCalm DEF Settled
<1> QED BY <1>1, <1>3, <1>4, <1>5, <1>6

LEMMA MoveSound ==
    ASSUME Inv, NEW r \in Runs, NEW i \in Items, Move(r, i)
    PROVE  /\ Holds(r) /\ overlapped' = overlapped
           /\ run'[r].scope = run[r].scope /\ run'[r].rewinds = run[r].rewinds
           /\ \A j \in Items : run'[r].items[j].node = run[r].items[j].node
                               /\ run'[r].items[j].to = run[r].items[j].to
<1> DEFINE item == [run[r].items[i] EXCEPT !.done = TRUE]
           row == [run[r] EXCEPT !.items[i] = item]
<1>1. /\ Executing(r) /\ i \in run[r].scope /\ run[r].items[i].node # None
      /\ run' = [run EXCEPT ![r].items[i].done = TRUE]
      /\ at' = [at EXCEPT ![run[r].items[i].from] = None, ![run[r].items[i].to] = run[r].items[i].node]
      /\ UNCHANGED <<good, mounted, call, overlapped, authorized, drift>>
  BY DEF Move
<1>2. /\ run[r] \in RunRow /\ Based(r) /\ run[r].items[i] \in Item
      /\ run \in [Runs -> RunRow]
  BY DEF Inv, Typed, RunRow
<1>3. run' = [run EXCEPT ![r] = row]
  BY <1>1, <1>2 DEF RunRow
<1>4. /\ item \in Item /\ item.prep = run[r].items[i].prep /\ item.node = run[r].items[i].node
      /\ item.from = run[r].items[i].from /\ item.to = run[r].items[i].to
      /\ [item EXCEPT !.done = FALSE] = [run[r].items[i] EXCEPT !.done = FALSE]
  BY <1>2 DEF Item
<1> HIDE DEF item
<1>5. /\ row \in RunRow /\ row.state = run[r].state /\ row.scope = run[r].scope
      /\ row.rewinds = run[r].rewinds /\ row.request = run[r].request /\ row.findings = run[r].findings
      /\ row.receipt = run[r].receipt
      /\ row.items[i] = item /\ \A j \in Items \ {i} : row.items[j] = run[r].items[j]
  BY <1>2, <1>4 DEF RunRow
<1> HIDE DEF row
<1>6. \A j \in Items : /\ row.items[j].prep = run[r].items[j].prep /\ row.items[j].node = run[r].items[j].node
                       /\ row.items[j].from = run[r].items[j].from /\ row.items[j].to = run[r].items[j].to
  BY <1>4, <1>5
<1>7. \A j \in Items : [row.items[j] EXCEPT !.done = FALSE] = [run[r].items[j] EXCEPT !.done = FALSE]
  BY <1>4, <1>5
<1>8. /\ r # Earlier /\ run[r].state # "unused" /\ run[r].receipt = None
      /\ run[r].state # "closed" \/ r \in overlapped
  BY <1>1, ExecutingIsKnown
<1>9. Typed' /\ Alone(r) /\ Based(r)' /\ run'[r] = row
  <2>1. run[r].items[i].node \in Nodes
    BY <1>1, <1>2 DEF Item
  <2>2. Volumes' /\ authorized' \in [Runs -> Identities \cup {None}]
    BY <1>1, <2>1 DEF Inv, Typed, Volumes
  <2>3. Placed(row.items)
    BY <1>1, <1>2, <1>5, <1>6 DEF Based, Placed
  <2> QED BY <1>1, <1>3, <1>5, <1>8, <2>2, <2>3, RowBecomes
<1>10. ASSUME r \notin overlapped' PROVE Sound(r)'
  <2>1. /\ r \in Undisturbed /\ Sound(r) /\ run[r].state = "executing"
        /\ \A c \in Callers : call[r][c] = None
    BY <1>1, <1>10, ExecutingIsKnown
  <2>2. run[r].rewinds # None => run'[run[r].rewinds].receipt = run[run[r].rewinds].receipt
    BY <1>9, ReceiptStays
  <2>3. RowsHold(r)'
    BY <1>5, <1>6, <1>9, <2>1 DEF Sound, Rows, RowsHold
  <2>4. Reported(r)'
    BY <1>5, <1>6, <1>9, <2>1 DEF Sound, Rows, Reported
  <2>5. TargetsApart(r)'
    BY <1>5, <1>6, <1>9, <2>1 DEF Sound, Rows, TargetsApart
  <2>6. OfItsReceipt(r)'
    <3>1. OfItsReceipt(r)
      BY <2>1 DEF Sound, Rows
    <3> QED BY <1>1, <1>5, <1>6, <1>9, <2>2, <3>1 DEF OfItsReceipt
  <2>7. Whole(r)'
    <3>1. ObjectsApart(r)'
      BY <1>5, <1>6, <1>9, <2>1 DEF Sound, Rows, Whole, ObjectsApart, Settled
    <3>2. \A j \in run[r].scope : j \in Items
      BY <1>2 DEF RunRow
    <3> QED BY <1>5, <1>6, <1>9, <2>1, <3>1, <3>2 DEF Sound, Rows, Whole, Settled
  <2>8. Confirmed(r)'
    BY <1>1, <1>7, <1>9, <2>1 DEF Sound, Rows, Confirmed
  <2>9. MovesInExecution(r)'
    BY <1>1, <1>5, <1>9, <2>1 DEF Sound, Rows, MovesInExecution
  <2>10. Sealed(r)' /\ Staged(r)' /\ Offered(r)'
    BY <1>1, <1>5, <1>8, <1>9, <2>1 DEF Sound, Rows, Sealed, Staged, Offered
  <2>11. Lone(r)' /\ \A c \in Callers : AtWork(r, c)'
    BY <1>1, <2>1 DEF Lone, AtWork
  <2> QED BY <2>3, <2>4, <2>5, <2>6, <2>7, <2>8, <2>9, <2>10, <2>11 DEF Sound, Rows
<1> QED BY <1>1, <1>5, <1>6, <1>9, <1>10 DEF Holds

LEMMA CloseSound ==
    ASSUME Inv, NEW r \in Runs, Close(r)
    PROVE  Holds(r) /\ run'[r].state = "closed"
<1> DEFINE row == [run[r] EXCEPT !.state = "closed", !.receipt = run[r].items]
<1>1. /\ Executing(r) /\ run' = [run EXCEPT ![r] = row]
      /\ UNCHANGED <<at, good, mounted, call, overlapped, authorized, drift>>
  BY DEF Close
<1>2. run[r] \in RunRow /\ Based(r)
  BY DEF Inv, Typed
<1>3. /\ row \in RunRow /\ row.state = "closed" /\ row.items = run[r].items
      /\ row.scope = run[r].scope /\ row.rewinds = run[r].rewinds /\ row.request = run[r].request
      /\ row.findings = run[r].findings /\ row.receipt = run[r].items
  BY <1>2 DEF RunRow, States
<1> HIDE DEF row
<1>4. /\ r # Earlier /\ run[r].state # "unused" /\ run[r].receipt = None
      /\ run[r].state # "closed" \/ r \in overlapped
  BY <1>1, ExecutingIsKnown
<1>5. Typed' /\ Alone(r) /\ Based(r)' /\ run'[r] = row
  <2>1. Volumes' /\ authorized' \in [Runs -> Identities \cup {None}]
    BY <1>1 DEF Inv, Typed, Volumes
  <2>2. Placed(row.items) /\ Placed(row.receipt)
    BY <1>2, <1>3 DEF Based
  <2> QED BY <1>1, <1>3, <1>4, <2>1, <2>2, RowBecomes
<1>6. ASSUME r \notin overlapped' PROVE Sound(r)'
  <2>1. /\ r \in Undisturbed /\ Sound(r) /\ run[r].state = "executing"
        /\ \A c \in Callers : call[r][c] = None
    BY <1>1, <1>6, ExecutingIsKnown
  <2>2. /\ OfItsReceipt(r)' /\ RowsHold(r)' /\ Reported(r)' /\ TargetsApart(r)'
        /\ ObjectsApart(r) => ObjectsApart(r)'
    BY <1>1, <1>3, <1>5, <2>1, RowsStay
  <2>3. /\ Sealed(r)' /\ Staged(r)' /\ Whole(r)' /\ Offered(r)' /\ MovesInExecution(r)'
        /\ Confirmed(r)'
    BY <1>1, <1>3, <1>5, <2>1, <2>2
       DEF Sound, Rows, Sealed, Staged, Whole, Offered, MovesInExecution, Confirmed, Settled
  <2>4. Lone(r)' /\ \A c \in Callers : AtWork(r, c)'
    BY <1>1, <2>1 DEF Lone, AtWork
  <2> QED BY <2>2, <2>3, <2>4 DEF Sound, Rows
<1> QED BY <1>3, <1>5, <1>6 DEF Holds

-----------------------------------------------------------------------------
(* Forward Runs exclude each other.                                        *)

\* Only what the Run of the step has come to can break the exclusion.
LEMMA ExclusionStays ==
    ASSUME Inv, NEW r \in Runs, Alone(r),
           \A o \in Runs \ {r} : r \notin overlapped' /\ o \notin overlapped /\ Compete(r, o)'
                                 => run'[r].rewinds # None \/ run'[o].rewinds # None
    PROVE  ForwardsExclude'
<1> SUFFICES ASSUME NEW a \in Runs, NEW b \in Runs, a \notin overlapped', b \notin overlapped',
                    Compete(a, b)'
             PROVE  run'[a].rewinds # None \/ run'[b].rewinds # None
  BY DEF ForwardsExclude, Undisturbed
<1>1. a # b /\ Compete(b, a)'
  BY DEF Compete
<1>2. a \notin overlapped /\ b \notin overlapped
  BY DEF Alone
<1>3. CASE a = r
  BY <1>1, <1>2, <1>3
<1>4. CASE b = r
  BY <1>1, <1>2, <1>4
<1>5. CASE a # r /\ b # r
  <2>1. run'[a] = run[a] /\ run'[b] = run[b]
    BY <1>5 DEF Alone
  <2>2. Compete(a, b)
    BY <2>1 DEF Compete
  <2> QED BY <1>2, <2>1, <2>2 DEF Inv, ForwardsExclude, Undisturbed
<1> QED BY <1>3, <1>4, <1>5

\* A Run that may not be executed, or at which calls overlapped, competes with none.
LEMMA OutOfCompetition ==
    ASSUME Inv, NEW r \in Runs, Alone(r),
           run'[r].state \in {"ready", "executing"} => r \in overlapped'
    PROVE  ForwardsExclude'
<1>1. \A o \in Runs \ {r} : r \notin overlapped' => ~Compete(r, o)'
  BY DEF Compete
<1> QED BY <1>1, ExclusionStays

\* A Run that could be executed before, and is about the same objects and places.
LEMMA SameCompetition ==
    ASSUME Inv, NEW r \in Runs, Alone(r),
           r \notin overlapped => run[r].state \in {"ready", "executing"},
           run'[r].scope = run[r].scope, run'[r].rewinds = run[r].rewinds,
           \A i \in run[r].scope : /\ run'[r].items[i].node = run[r].items[i].node
                                   /\ run'[r].items[i].to = run[r].items[i].to
    PROVE  ForwardsExclude'
<1>1. ASSUME NEW o \in Runs \ {r}, r \notin overlapped', o \notin overlapped, Compete(r, o)'
      PROVE  run'[r].rewinds # None \/ run'[o].rewinds # None
  <2>1. run'[o] = run[o] /\ r \notin overlapped
    BY <1>1 DEF Alone
  <2>2. Compete(r, o)
    BY <1>1, <2>1 DEF Compete
  <2> QED BY <1>1, <2>1, <2>2 DEF Inv, ForwardsExclude, Undisturbed
<1> QED BY <1>1, ExclusionStays

\* The end of a forward preparation has compared the Run with all that are active.
LEMMA FinalizeExcludes ==
    ASSUME Inv, NEW r \in Runs, NEW c \in Callers, Finalize(r, c)
    PROVE  ForwardsExclude'
<1> DEFINE found == run[r].findings \cup Findings(r)
<1>1. Holds(r) /\ Alone(r)
  BY FinalizeSound DEF Holds
<1>2. run[r] \in RunRow
  BY DEF Inv, Typed
<1>3. run' = [run EXCEPT ![r] =
                 [run[r] EXCEPT !.findings = found,
                                !.state = IF found = {} THEN "ready" ELSE "blocked",
                                !.identity = [items |-> run[r].items, findings |-> found]]]
  BY FinalizedRow
<1>4. found = {} => Findings(r) = {}
  OBVIOUS
<1> HIDE DEF found
<1>5. /\ run'[r].items = run[r].items /\ run'[r].scope = run[r].scope
      /\ run'[r].rewinds = run[r].rewinds
      /\ run'[r].state = IF found = {} THEN "ready" ELSE "blocked"
  BY <1>2, <1>3 DEF Inv, Typed, RunRow
<1>6. CASE found # {}
  BY <1>1, <1>5, <1>6, OutOfCompetition
<1>7. CASE found = {}
  <2>1. ASSUME NEW o \in Runs \ {r}, r \notin overlapped', Compete(r, o)', run[r].rewinds = None
        PROVE  FALSE
    <3>1. run'[o] = run[o]
      BY <1>1 DEF Alone
    <3>2. run[o].state \in {"ready", "executing"}
      BY <2>1, <3>1 DEF Compete
    <3>3. ~Conflicts(r)
      BY <1>4, <1>7, <2>1 DEF Findings
    <3>4. ~Overlap(run[r].items, run[o].items)
      BY <3>2, <3>3 DEF Conflicts, Active
    <3>5. PICK i \in run[r].scope, j \in run[o].scope :
            \/ run[r].items[i].node = run[o].items[j].node
            \/ run[r].items[i].to = run[o].items[j].to
      BY <1>5, <2>1, <3>1 DEF Compete
    <3>6. i \in Items /\ j \in Items
      BY <1>2 DEF Inv, Typed, RunRow
    <3>7. Rows(r)' /\ run'[r].items[i].prep = "verified"
      BY <1>1, <1>5, <1>7, <2>1 DEF Holds, Sound, Rows, Whole, Settled
    <3>8. run[r].items[i].node \in Nodes /\ run[r].items[i].to \in Places
      BY <1>5, <3>6, <3>7 DEF Rows, RowsHold
    <3>9. run[r].items[i].node # None /\ run[r].items[i].to # None
      BY <3>8, PreparationConstants
    <3> QED BY <3>4, <3>5, <3>6, <3>9 DEF Overlap
  <2> QED BY <1>1, <1>5, <2>1, ExclusionStays
<1> QED BY <1>6, <1>7

-----------------------------------------------------------------------------
(* All together.                                                           *)

\* What changes the volumes only.
LEMMA VolumesChange ==
    ASSUME Inv, Volumes', UNCHANGED <<run, call, overlapped, authorized>>
    PROVE  Inv'
<1>1. Typed'
  BY DEF Inv, Typed
<1>2. ASSUME NEW r \in Runs PROVE Based(r)'
  <2>1. Based(r)
    BY DEF Inv
  <2> QED BY <2>1 DEF Based, Asked, OfAReceipt, Placed, Fitting, Subject
<1>3. ASSUME NEW r \in Runs, r \notin overlapped' PROVE Sound(r)'
  <2>1. Sound(r)
    BY <1>3 DEF Inv, Undisturbed
  <2>2. OfItsReceipt(r)' /\ RowsHold(r)' /\ Reported(r)' /\ TargetsApart(r)'
    BY <2>1 DEF Sound, Rows, OfItsReceipt, RowsHold, Reported, TargetsApart
  <2>3. Sealed(r)' /\ Staged(r)' /\ Whole(r)' /\ Offered(r)'
    BY <2>1 DEF Sound, Rows, Sealed, Staged, Whole, ObjectsApart, Offered, Identity
  <2>4. MovesInExecution(r)' /\ Confirmed(r)'
    BY <2>1 DEF Sound, Rows, MovesInExecution, Confirmed
  <2>5. Lone(r)' /\ \A c \in Callers : AtWork(r, c)'
    BY <2>1 DEF Sound, Lone, AtWork, Advanced
  <2> QED BY <2>2, <2>3, <2>4, <2>5 DEF Sound, Rows
<1>4. ForwardsExclude'
  BY DEF Inv, ForwardsExclude, Undisturbed, Compete
<1> QED BY <1>1, <1>2, <1>3, <1>4 DEF Inv, Undisturbed

LEMMA UserStep ==
    ASSUME Inv, User
    PROVE  Inv' /\ UNCHANGED <<run, overlapped>>
<1>1. ASSUME NEW p \in Places, NEW n \in Nodes, NEW same \in BOOLEAN, Replace(p, n, same) PROVE Volumes'
  <2>1. drift' \in 0..MaxDrift
    BY <1>1, PreparationConstants DEF Replace, Inv, Typed, Volumes
  <2>2. at' \in [Places -> Nodes \cup {None}] /\ good' \subseteq Nodes /\ mounted' \in BOOLEAN
    BY <1>1 DEF Replace, Inv, Typed, Volumes
  <2> QED BY <2>1, <2>2 DEF Volumes
<1>2. ASSUME NEW p \in Places, NEW q \in Places, Link(p, q) PROVE Volumes'
  BY <1>2, PreparationConstants DEF Link, Inv, Typed, Volumes
<1>3. ASSUME NEW p \in Places, Remove(p) PROVE Volumes'
  BY <1>3, PreparationConstants DEF Remove, Inv, Typed, Volumes
<1>4. ASSUME Remount PROVE Volumes'
  BY <1>4, PreparationConstants DEF Remount, Inv, Typed, Volumes
<1>5. Volumes'
  BY <1>1, <1>2, <1>3, <1>4 DEF User
<1>6. UNCHANGED <<run, call, overlapped, authorized>>
  BY DEF User, Replace, Link, Remove, Remount
<1> QED BY <1>5, <1>6, VolumesChange

\* A step that is about one Run keeps what is known of all.
LEMMA OneRunKeeps ==
    ASSUME Inv, NEW r \in Runs, Holds(r), ForwardsExclude'
    PROVE  Inv' /\ Alone(r)
<1>1. Typed' /\ Alone(r) /\ Based(r)' /\ (r \notin overlapped' => Sound(r)')
  BY DEF Holds
<1>2. \A s \in Runs \ {r} : Based(s)' /\ (s \notin overlapped' => Sound(s)')
  BY <1>1, OthersStay
<1> QED BY <1>1, <1>2 DEF Inv, Undisturbed

\* A step of a call that leaves the Run in its state, or blocks it or lets it prepare.
LEMMA StillPrepared ==
    ASSUME Inv, NEW r \in Runs, NEW c \in Callers, Holds(r),
           call[r][c] # None \/ run[r].state \in {"preparing", "blocked"},
           run'[r].state = run[r].state \/ run'[r].state \in {"preparing", "blocked"}
    PROVE  Inv' /\ Alone(r)
<1>1. Alone(r)
  BY DEF Holds
<1>2. run'[r].state \in {"ready", "executing"} => r \in overlapped'
  BY <1>1, AtCall DEF Alone, Unsettled
<1> QED BY <1>1, <1>2, OutOfCompetition, OneRunKeeps

\* What a call, and what the Human and the executor, do at a Run.
Preparing(r, c) ==
    \/ RepeatRequest(r, c) \/ Resume(r, c) \/ Reopen(r, c)
    \/ CheckBindings(r, c) \/ KeepBlocked(r, c) \/ Stage(r, c)
    \/ Batch(r, c) \/ Look(r, c) \/ EvidenceFails(r, c) \/ RecordItem(r, c)
    \/ Finalize(r, c) \/ Crash(r, c)

LEMMA PreparingKeeps ==
    ASSUME Inv, NEW r \in Runs, NEW c \in Callers, Preparing(r, c)
    PROVE  Inv' /\ Alone(r)
<1>1. CASE RepeatRequest(r, c)
  <2>1. run[r].state \in {"preparing", "blocked"} /\ run' = run
    BY <1>1 DEF RepeatRequest
  <2> QED BY <1>1, <2>1, RepeatRequestSound, StillPrepared
<1>2. CASE Resume(r, c)
  <2>1. run[r].state = "blocked" /\ run' = run
    BY <1>2 DEF Resume
  <2> QED BY <1>2, <2>1, ResumeSound, StillPrepared
<1>3. CASE Reopen(r, c)
  <2>1. call[r][c] # None
    BY <1>3 DEF Reopen, At
  <2> QED BY <1>3, <2>1, ReopenSound, StillPrepared
<1>4. CASE CheckBindings(r, c)
  <2>1. call[r][c] # None
    BY <1>4 DEF CheckBindings, At
  <2> QED BY <1>4, <2>1, CheckBindingsSound, StillPrepared
<1>5. CASE KeepBlocked(r, c)
  <2>1. call[r][c] # None
    BY <1>5 DEF KeepBlocked, At
  <2> QED BY <1>5, <2>1, KeepBlockedSound, StillPrepared
<1>6. CASE Stage(r, c)
  <2>1. call[r][c] # None
    BY <1>6 DEF Stage, At
  <2> QED BY <1>6, <2>1, StageSound, StillPrepared
<1>7. CASE Batch(r, c)
  <2>1. call[r][c] # None /\ run' = run
    BY <1>7 DEF Batch, At
  <2> QED BY <1>7, <2>1, BatchSound, StillPrepared
<1>8. CASE Look(r, c)
  <2>1. call[r][c] # None /\ run' = run
    BY <1>8 DEF Look, At
  <2> QED BY <1>8, <2>1, LookSound, StillPrepared
<1>9. CASE EvidenceFails(r, c)
  <2>1. call[r][c] # None /\ run' = run
    BY <1>9 DEF EvidenceFails, At
  <2> QED BY <1>9, <2>1, EvidenceFailsSound, StillPrepared
<1>10. CASE RecordItem(r, c)
  <2>1. call[r][c] # None
    BY <1>10 DEF RecordItem, At
  <2> QED BY <1>10, <2>1, RecordItemSound, StillPrepared
<1>11. CASE Finalize(r, c)
  BY <1>11, FinalizeSound, FinalizeExcludes, OneRunKeeps
<1>12. CASE Crash(r, c)
  <2>1. call[r][c] # None /\ run' = run
    BY <1>12 DEF Crash
  <2> QED BY <1>12, <2>1, CrashSound, StillPrepared
<1> QED BY <1>1, <1>2, <1>3, <1>4, <1>5, <1>6, <1>7, <1>8, <1>9, <1>10, <1>11, <1>12 DEF Preparing

LEMMA ExecutionKeeps ==
    ASSUME Inv, NEW r \in Runs,
           \/ CancelBeforeExecution(r) \/ Authorize(r) \/ Close(r)
           \/ \E i \in Items : Move(r, i)
    PROVE  Inv' /\ Alone(r)
<1>1. CASE CancelBeforeExecution(r)
  BY <1>1, CancelSound, OutOfCompetition, OneRunKeeps DEF Holds
<1>2. CASE Authorize(r)
  <2>1. run[r].state = "ready"
    BY <1>2 DEF Authorize
  <2>2. /\ Holds(r) /\ run'[r].items = run[r].items /\ run'[r].scope = run[r].scope
        /\ run'[r].rewinds = run[r].rewinds
    BY <1>2, AuthorizeSound
  <2>3. ForwardsExclude'
    BY <2>1, <2>2, SameCompetition DEF Holds
  <2> QED BY <2>2, <2>3, OneRunKeeps
<1>3. CASE Close(r)
  BY <1>3, CloseSound, OutOfCompetition, OneRunKeeps DEF Holds
<1>4. ASSUME NEW i \in Items, Move(r, i) PROVE Inv' /\ Alone(r)
  <2>1. r \notin overlapped => run[r].state = "executing"
    BY <1>4, ExecutingIsKnown DEF Move
  <2>2. /\ Holds(r) /\ run'[r].scope = run[r].scope /\ run'[r].rewinds = run[r].rewinds
        /\ \A j \in Items : run'[r].items[j].node = run[r].items[j].node
                            /\ run'[r].items[j].to = run[r].items[j].to
    BY <1>4, MoveSound
  <2>3. \A j \in run[r].scope : j \in Items
    BY DEF Inv, Typed, RunRow
  <2>4. ForwardsExclude'
    BY <2>1, <2>2, <2>3, SameCompetition DEF Holds
  <2> QED BY <2>2, <2>4, OneRunKeeps, ZenonT(60)
<1> QED BY <1>1, <1>2, <1>3, <1>4

\* What a Receipt says is never written again, nor are the rows of a closed Run at
\* which no calls overlapped.
Stands ==
    \A s \in Runs :
        /\ run[s].receipt # None => run'[s].receipt = run[s].receipt
        /\ run[s].state = "closed" /\ s \notin overlapped => run'[s] = run[s]

LEMMA AloneStands == ASSUME NEW r \in Runs, Alone(r) PROVE Stands
BY DEF Alone, Stands

\* The invariant is kept, and Receipts stand.
LEMMA InvStep ==
    ASSUME Inv, [Next]_vars
    PROVE  Inv' /\ Stands
<1>1. ASSUME NEW q \in Requests, NEW c \in Callers, CreateRun(q, c)
      PROVE  Inv' /\ Stands
  <2>1. PICK r \in Runs : run'[r].state = "preparing" /\ Holds(r)
    BY <1>1, CreateRunSound
  <2> QED BY <2>1, OutOfCompetition, OneRunKeeps, AloneStands DEF Holds
<1>2. ASSUME NEW r \in Runs, NEW of \in Runs, PrepareRewind(r, of)
      PROVE  Inv' /\ Stands
  <2>1. Holds(r) /\ run'[r].rewinds # None
    BY <1>2, PrepareRewindSound
  <2>2. ForwardsExclude'
    BY <2>1, ExclusionStays DEF Holds
  <2> QED BY <2>1, <2>2, OneRunKeeps, AloneStands
<1>3. ASSUME NEW r \in Runs, NEW c \in Callers, Preparing(r, c)
      PROVE  Inv' /\ Stands
  BY <1>3, PreparingKeeps, AloneStands
<1>4. ASSUME NEW r \in Runs,
             \/ CancelBeforeExecution(r) \/ Authorize(r) \/ Close(r)
             \/ \E i \in Items : Move(r, i)
      PROVE  Inv' /\ Stands
  BY <1>4, ExecutionKeeps, AloneStands
<1>5. CASE User
  BY <1>5, UserStep DEF Stands
<1>6. CASE UNCHANGED vars
  <2>1. UNCHANGED <<at, good, mounted, run, call, overlapped, authorized, drift>>
    BY <1>6 DEF vars
  <2>2. Volumes'
    BY <2>1 DEF Inv, Typed, Volumes
  <2> QED BY <2>1, <2>2, VolumesChange DEF Stands
<1> QED BY <1>1, <1>2, <1>3, <1>4, <1>5, <1>6 DEF Next, Preparing

LEMMA Begins == Init => Inv
<1> SUFFICES ASSUME Init PROVE Inv
  OBVIOUS
<1> DEFINE moved == EarlierItems
           earlier == [NoRun EXCEPT !.state = "closed", !.scope = DOMAIN Moved, !.items = moved,
                                    !.receipt = moved]
<1>1. run = [r \in Runs |-> IF r # Earlier THEN NoRun ELSE earlier]
  BY DEF Init
<1>2. Volumes
  <2>1. ASSUME NEW p \in Places
        PROVE  LET here == {i \in Items : p = IF i \in DOMAIN Moved THEN Moved[i] ELSE Source[i]}
               IN  (IF here = {} THEN None ELSE CHOOSE i \in here : TRUE) \in Nodes \cup {None}
    BY PreparationConstants
  <2>2. at \in [Places -> Nodes \cup {None}]
    BY <2>1 DEF Init
  <2>3. good \subseteq Nodes /\ mounted \in BOOLEAN
    BY PreparationConstants DEF Init
  <2>4. drift = 0 /\ MaxDrift \in Nat
    BY PreparationConstants DEF Init
  <2>5. drift \in 0..MaxDrift
    BY <2>4
  <2> QED BY <2>2, <2>3, <2>5 DEF Volumes
<1>3. NoItem \in Item /\ NoItem.prep = "pending" /\ ~NoItem.done /\ NoItem.node = None
  BY DEF NoItem, Item
<1>4. /\ NoRun \in RunRow /\ NoRun.state = "unused" /\ NoRun.rewinds = None /\ NoRun.scope = {}
      /\ \A i \in Items : NoRun.items[i] = NoItem
      /\ NoRun.findings = {} /\ NoRun.receipt = None
  BY <1>3 DEF NoRun, RunRow, States
<1>5. ASSUME NEW i \in Items
      PROVE  /\ moved[i] \in Item /\ moved[i].prep # "blocked"
             /\ moved[i].prep = "verified" \/ moved[i].done \/ moved[i].node # None =>
                  /\ i \in DOMAIN Moved /\ moved[i].node = i /\ moved[i].node \in Nodes
                  /\ moved[i].from = Source[i] /\ moved[i].to = Moved[i] /\ moved[i].to \in Places
                  /\ moved[i].from \in Places
             /\ i \in DOMAIN Moved => moved[i].prep = "verified"
  <2>1. CASE i \in DOMAIN Moved
    <3>1. i \in Nodes /\ Source[i] \in Places /\ Moved[i] \in Places
      BY <2>1, PreparationConstants
    <3> QED BY <2>1, <3>1 DEF Item, EarlierItems
  <2>2. CASE i \notin DOMAIN Moved
    BY <1>3, <2>2 DEF EarlierItems
  <2> QED BY <2>1, <2>2
<1>6. moved \in [Items -> Item]
  BY <1>5 DEF EarlierItems
<1> HIDE DEF moved
<1>7. /\ earlier \in RunRow /\ earlier.state = "closed" /\ earlier.rewinds = None
      /\ earlier.scope = DOMAIN Moved /\ earlier.items = moved /\ earlier.findings = {}
      /\ earlier.receipt = moved
  BY <1>4, <1>6, PreparationConstants DEF RunRow, States
<1> HIDE DEF earlier
<1>8. Earlier \in Runs /\ run[Earlier] = earlier
  BY <1>1, PreparationConstants
<1>9. Typed
  <2>1. run \in [Runs -> RunRow]
    BY <1>1, <1>4, <1>7
  <2>2. /\ call \in [Runs -> [Callers -> CallRow \cup {None}]] /\ overlapped \subseteq Runs
        /\ authorized \in [Runs -> Identities \cup {None}]
    BY DEF Init
  <2> QED BY <1>2, <2>1, <2>2 DEF Typed
<1>10. /\ \A r \in Runs : authorized[r] = None /\ \A c \in Callers : call[r][c] = None
       /\ overlapped = {}
  BY DEF Init
<1>11. ASSUME NEW r \in Runs PROVE Based(r) /\ Sound(r)
  <2>1. /\ Lone(r) /\ \A c \in Callers : Fitting(r, c) /\ AtWork(r, c)
    BY <1>10 DEF Lone, Fitting, AtWork
  <2>2. CASE r # Earlier
    <3>1. run[r] = NoRun
      BY <1>1, <2>2
    <3>2. Asked(r) /\ OfAReceipt(r) /\ Placed(run[r].items) /\ run[r].receipt = None
      BY <1>3, <1>4, <1>10, <2>2, <3>1 DEF Asked, OfAReceipt, Placed
    <3>3. Sealed(r) /\ Staged(r) /\ OfItsReceipt(r) /\ RowsHold(r) /\ Reported(r) /\ TargetsApart(r)
      BY <1>3, <1>4, <1>10, <3>1
         DEF Sealed, Staged, Settled, OfItsReceipt, RowsHold, Reported, TargetsApart
    <3>4. Whole(r) /\ Offered(r) /\ MovesInExecution(r) /\ Confirmed(r)
      BY <1>3, <1>4, <3>1 DEF Whole, Settled, Offered, MovesInExecution, Confirmed
    <3> QED BY <2>1, <3>2, <3>3, <3>4 DEF Based, Sound, Rows
  <2>3. CASE r = Earlier
    <3>1. run[r] = earlier
      BY <1>8, <2>3
    <3>2. Asked(r) /\ OfAReceipt(r) /\ Placed(run[r].items) /\ Placed(run[r].receipt)
      BY <1>5, <1>7, <1>10, <2>3, <3>1, PreparationConstants DEF Asked, OfAReceipt, Placed
    <3>3. RowsHold(r) /\ Reported(r) /\ MovesInExecution(r)
      BY <1>5, <1>7, <3>1 DEF RowsHold, Reported, MovesInExecution
    <3>4. TargetsApart(r) /\ ObjectsApart(r)
      BY <1>5, <1>7, <3>1, PreparationConstants DEF TargetsApart, ObjectsApart
    <3>5. Whole(r)
      <4>1. \A i \in DOMAIN Moved : i \in Items
        BY PreparationConstants
      <4> QED BY <1>5, <1>7, <3>1, <3>4, <4>1 DEF Whole
    <3>6. Sealed(r) /\ Staged(r) /\ OfItsReceipt(r) /\ Offered(r) /\ Confirmed(r)
      BY <1>7, <1>10, <2>3, <3>1 DEF Sealed, Staged, OfItsReceipt, Offered, Confirmed
    <3> QED BY <2>1, <3>2, <3>3, <3>4, <3>5, <3>6 DEF Based, Sound, Rows
  <2> QED BY <2>2, <2>3
<1>12. ForwardsExclude
  <2>1. \A r \in Runs : run[r].state \notin {"ready", "executing"}
    BY <1>1, <1>4, <1>7
  <2> QED BY <2>1 DEF ForwardsExclude, Compete, Undisturbed
<1> QED BY <1>9, <1>11, <1>12 DEF Inv, Undisturbed

LEMMA AlwaysSound == Spec => []Inv
<1>1. Init => Inv
  BY Begins
<1>2. Inv /\ [Next]_vars => Inv'
  BY InvStep
<1> QED BY <1>1, <1>2, PTL DEF Spec

-----------------------------------------------------------------------------
(* Theorems.                                                               *)

\* The rows of Runs, items and findings keep their types, and so do the calls.
THEOREM TypeCorrect == Spec => []TypeOK
<1>1. ASSUME Inv PROVE TypeOK
  <2>1. Volumes /\ overlapped \subseteq Runs
    BY <1>1 DEF Inv, Typed
  <2>2. ASSUME NEW r \in Runs PROVE run[r] \in RunRow /\ \A c \in Callers : call[r][c] \in CallRow \cup {None}
    BY <1>1 DEF Inv, Typed
  <2> QED BY <2>1, <2>2 DEF Volumes, TypeOK, RunRow, CallRow
<1> QED BY <1>1, AlwaysSound, PTL

\* Whatever dies, is repeated or changes on disk, and whatever overlaps at other
\* Runs: a Run at which no preparing call began while another was at work may be
\* authorized only as a whole Plan with nothing found against it, of two such
\* forward Runs that overlap only one may be, and what is moved is what the Human
\* confirmed (_prepare_run, _finalize_preparation, _record_concurrency_conflict,
\* authorize_execution).
THEOREM AuthorityIsAlwaysEarned == Spec => []AuthorityIsEarned
<1>1. ASSUME Inv PROVE ReadyIsWhole
  <2> SUFFICES ASSUME NEW r \in Undisturbed, run[r].state = "ready"
               PROVE  /\ run[r].rewinds = None => run[r].scope = Wanted[run[r].request]
                      /\ run[r].findings = {} /\ run[r].identity = Identity(run[r])
                      /\ \A i \in run[r].scope : run[r].items[i].prep = "verified"
                      /\ \A i, j \in run[r].scope : i # j =>
                            /\ run[r].items[i].node # run[r].items[j].node
                            /\ run[r].items[i].to # run[r].items[j].to
    BY DEF ReadyIsWhole
  <2>1. Rows(r) /\ run[r] \in RunRow /\ r # Earlier
    BY <1>1 DEF Inv, Typed, Sound, Based, Asked, Undisturbed
  <2>2. /\ run[r].findings = {} /\ ObjectsApart(r) /\ TargetsApart(r)
        /\ \A i \in run[r].scope : run[r].items[i].prep = "verified"
        /\ run[r].rewinds = None => run[r].scope = Wanted[run[r].request]
    BY <2>1 DEF Rows, Whole, Staged, Settled
  <2>3. \A i \in run[r].scope : i \in Items
    BY <2>1 DEF RunRow
  <2>4. ASSUME NEW i \in run[r].scope, NEW j \in run[r].scope, i # j
        PROVE  /\ run[r].items[i].node # run[r].items[j].node
               /\ run[r].items[i].to # run[r].items[j].to
    BY <2>2, <2>3, <2>4 DEF ObjectsApart, TargetsApart
  <2> QED BY <2>1, <2>2, <2>4 DEF Rows, Offered
<1>2. ASSUME Inv PROVE EffectsWereConfirmed
  <2> SUFFICES ASSUME NEW r \in Undisturbed \ {Earlier}, NEW i \in Items, run[r].items[i].done
               PROVE  /\ run[r].state # "cancelled" /\ authorized[r].findings = {}
                      /\ authorized[r].items[i] = [run[r].items[i] EXCEPT !.done = FALSE]
    BY DEF EffectsWereConfirmed
  <2>1. Rows(r)
    BY <1>2 DEF Inv, Sound
  <2>2. run[r].state \in {"executing", "closed"}
    BY <2>1 DEF Rows, MovesInExecution
  <2> QED BY <2>1, <2>2 DEF Rows, Confirmed
<1>3. Inv => ReadyIsWhole /\ ForwardsExclude /\ EffectsWereConfirmed
  BY <1>1, <1>2 DEF Inv
<1> QED BY <1>3, AlwaysSound, TypeCorrect, PTL DEF AuthorityIsEarned

\* Every item of a rewind that may be executed, or was, is one the Receipt says was
\* moved, is the object that was moved, and goes back to where PreCheck found it,
\* although the rewind may have been blocked, reopened and gone through the items
\* of a forward preparation (prepare_rewind, resume); unless preparing calls
\* overlapped at it or at the Run it takes back.
RewindReturns ==
    \A r \in Undisturbed : run[r].state \in Settled /\ run[r].rewinds # None =>
        \A i \in run[r].scope :
            LET was == run[run[r].rewinds].receipt[i]
            IN  /\ was.done /\ run[r].items[i].node = was.node
                /\ run[r].items[i].to = Source[i]

THEOREM RewindsAlwaysReturn == Spec => []RewindReturns
<1>1. ASSUME Inv PROVE RewindReturns
  <2> SUFFICES ASSUME NEW r \in Undisturbed, run[r].state \in Settled, run[r].rewinds # None,
                      NEW i \in run[r].scope
               PROVE  /\ run[run[r].rewinds].receipt[i].done
                      /\ run[r].items[i].node = run[run[r].rewinds].receipt[i].node
                      /\ run[r].items[i].to = Source[i]
    BY DEF RewindReturns
  <2>1. Rows(r) /\ OfAReceipt(r) /\ i \in Items
    BY <1>1 DEF Inv, Typed, RunRow, Sound, Based, Undisturbed
  <2>2. PICK o \in Undisturbed : o = run[r].rewinds /\ run[o].receipt # None /\ run[o].rewinds = None
    BY <2>1 DEF OfAReceipt, Rows, OfItsReceipt, Undisturbed
  <2>3. run[o].receipt[i].done
    BY <2>1, <2>2 DEF OfAReceipt
  <2>4. run[o].receipt[i].from = Source[i]
    BY <1>1, <2>1, <2>2, <2>3, MovedIsKnown
  <2>5. run[r].items[i].prep = "verified"
    BY <2>1 DEF Rows, Whole
  <2>6. /\ run[r].items[i].node = run[o].receipt[i].node
        /\ run[r].items[i].to = run[o].receipt[i].from
    BY <2>1, <2>2, <2>5 DEF Rows, OfItsReceipt
  <2> QED BY <2>2, <2>3, <2>4, <2>6
<1> QED BY <1>1, AlwaysSound, PTL

\* A Receipt once sealed, which is what a rewind is prepared from, is written again
\* by no preparation, resume, cancel or execution, whatever calls overlap; and the
\* rows of a closed Run stay as they are, unless preparing calls overlapped at it.
ReceiptsStand == [][Stands]_vars

THEOREM ReceiptsAlwaysStand == Spec => ReceiptsStand
<1>1. Inv /\ [Next]_vars => [Stands]_vars
  BY InvStep
<1> QED BY <1>1, AlwaysSound, PTL DEF Spec, ReceiptsStand

-----------------------------------------------------------------------------
(* The invariant of the opening of a Dataset. *)

OpenTypes ==
  /\ workspace \in [D!Tiers -> D!Workspaces \union {None}]
  /\ opening \in [Hosts -> D!Openings \union {None}]
  /\ opened \in [Hosts -> D!Datasets \union {None}]
  /\ writable \in BOOLEAN /\ opens \in 0..MaxOpens /\ changes \in 0..MaxChanges

\* The steps of a call that take the workspace of its tier to be there.
OnWorkspace == {"migrate", "backup", "copying", "manifest", "writing", "replace", "stores"}

\* What a call relies on while others make, migrate and replace: a workspace it
\* has found stays there, and one whose stores it verifies has a manifest of this
\* build or one that a build of this kind is writing.
Founded(h) ==
  opening[h] # None =>
    /\ opening[h].step \in OnWorkspace => D!Here(h) # None
    /\ opening[h].step = "stores" => D!Here(h).manifest # D!Old

\* A call that began with a Dataset on the volume never turns away from it.
Faithful(h) ==
  opening[h] # None /\ opening[h].there # None =>
    /\ opening[h].step \notin {"local", "create", "publish"} /\ opening[h].tier = "external" /\ ~opening[h].create
    /\ workspace["external"] # None /\ workspace["external"].dataset = opening[h].there

CurrentIn(t, n) ==
  /\ workspace[t] # None /\ workspace[t].dataset = n /\ workspace[t].manifest # D!Old
  /\ \A s \in D!Stores : workspace[t].store[s] = "new"

Current(h) == opened[h] # None => \E t \in D!Tiers : CurrentIn(t, opened[h])

OpenInv == OpenTypes /\ \A h \in Hosts : Founded(h) /\ Faithful(h) /\ Current(h)

-----------------------------------------------------------------------------
(* What every step does to the workspaces, and to the calls of the others. *)

\* A workspace keeps its Dataset, and what is new stays new.
Keeps(t) ==
  workspace[t] # None =>
    /\ workspace'[t] # None /\ workspace'[t].dataset = workspace[t].dataset
    /\ workspace[t].manifest # D!Old => workspace'[t].manifest # D!Old
    /\ \A s \in D!Stores : workspace[t].store[s] = "new" => workspace'[t].store[s] = "new"

\* A record of a workspace after some change.
LEMMA RenewedKeeps ==
  ASSUME D!DatasetConstants, OpenTypes, NEW u \in D!Tiers, NEW w \in D!Workspaces,
         workspace' = [workspace EXCEPT ![u] = w],
         workspace[u] # None => /\ w.dataset = workspace[u].dataset
                                /\ workspace[u].manifest # D!Old => w.manifest # D!Old
                                /\ \A s \in D!Stores : workspace[u].store[s] = "new" => w.store[s] = "new"
  PROVE  /\ workspace' \in [D!Tiers -> D!Workspaces \union {None}]
         /\ \A t \in D!Tiers : Keeps(t)
         /\ workspace'[u] = w /\ w # None
<1>1. workspace' \in [D!Tiers -> D!Workspaces \union {None}] /\ workspace'[u] = w
      /\ \A t \in D!Tiers \ {u} : workspace'[t] = workspace[t]
  BY DEF OpenTypes
<1>2. w # None
  BY DEF D!DatasetConstants
<1> QED BY <1>1, <1>2 DEF Keeps

\* What suffices for a step of one call to keep the invariant.
LEMMA CallStepKeeps ==
  ASSUME D!DatasetConstants, OpenInv, NEW h \in Hosts, OpenTypes',
         \A t \in D!Tiers : Keeps(t),
         \A k \in Hosts \ {h} : opening'[k] = opening[k] /\ opened'[k] = opened[k],
         Founded(h)', Faithful(h)',
         opened'[h] = opened[h] \/ Current(h)'
  PROVE  OpenInv'
<1>1. ASSUME NEW k \in Hosts \ {h} PROVE Founded(k)' /\ Faithful(k)'
  <2>1. Founded(k) /\ Faithful(k) /\ opening'[k] = opening[k]
    BY DEF OpenInv
  <2>2. opening[k] # None => opening[k].tier \in D!Tiers
    BY DEF OpenInv, OpenTypes, D!Openings
  <2>3. opening[k] # None => D!Here(k)' = workspace'[opening[k].tier] /\ D!Here(k) = workspace[opening[k].tier]
    BY <2>1 DEF D!Here
  <2>4. Founded(k)'
    BY <2>1, <2>2, <2>3 DEF Founded, Keeps, OnWorkspace
  <2>5. "external" \in D!Tiers
    BY DEF D!Tiers
  <2>6. Faithful(k)'
    BY <2>1, <2>5 DEF Faithful, Keeps
  <2> QED BY <2>4, <2>6
<1>2. ASSUME NEW k \in Hosts, opened'[k] = opened[k] PROVE Current(k)'
  <2> SUFFICES ASSUME opened[k] # None PROVE \E t \in D!Tiers : CurrentIn(t, opened[k])'
    BY <1>2 DEF Current
  <2>1. PICK t \in D!Tiers : CurrentIn(t, opened[k])
    BY DEF OpenInv, Current
  <2>2. Keeps(t)
    OBVIOUS
  <2>3. CurrentIn(t, opened[k])'
    BY <1>2, <2>1, <2>2 DEF CurrentIn, Keeps
  <2> QED BY <2>3
<1> QED BY <1>1, <1>2 DEF OpenInv

-----------------------------------------------------------------------------
(* The steps of a call. *)

\* A call that is at some step, and what it relies on.
LEMMA CallAt ==
  ASSUME D!DatasetConstants, OpenInv, NEW h \in Hosts, opening[h] # None
  PROVE  /\ opening[h] \in D!Openings /\ Founded(h) /\ Faithful(h) /\ opening[h].tier \in D!Tiers
         /\ D!Here(h) \in D!Workspaces \union {None} /\ workspace \in [D!Tiers -> D!Workspaces \union {None}]
BY DEF OpenInv, OpenTypes, D!Openings, D!Here

\* The call of one Host is replaced, or ends.
LEMMA CallBecomes ==
  ASSUME D!DatasetConstants, OpenInv, NEW h \in Hosts, NEW c \in D!Openings \union {None},
         opening' = [opening EXCEPT ![h] = c]
  PROVE  /\ opening' \in [Hosts -> D!Openings \union {None}] /\ opening'[h] = c
         /\ \A k \in Hosts \ {h} : opening'[k] = opening[k]
BY DEF OpenInv, OpenTypes

\* A step of a call that touches no workspace.
LEMMA LookingKeeps ==
  ASSUME D!DatasetConstants, OpenInv, NEW h \in Hosts, NEW c \in D!Openings \union {None},
         opening' = [opening EXCEPT ![h] = c],
         UNCHANGED <<workspace, writable, opened, opens, changes>>,
         c # None => /\ c.step \in OnWorkspace => workspace[c.tier] # None
                     /\ c.step = "stores" => workspace[c.tier].manifest # D!Old,
         c # None /\ c.there # None =>
           /\ c.step \notin {"local", "create", "publish"} /\ c.tier = "external" /\ ~c.create
           /\ workspace["external"] # None /\ workspace["external"].dataset = c.there
  PROVE  OpenInv'
<1>1. /\ opening' \in [Hosts -> D!Openings \union {None}] /\ opening'[h] = c
      /\ \A k \in Hosts \ {h} : opening'[k] = opening[k]
  BY CallBecomes
<1>2. OpenTypes'
  BY <1>1 DEF OpenInv, OpenTypes
<1>3. \A t \in D!Tiers : Keeps(t)
  BY DEF Keeps
<1>4. Founded(h)' /\ Faithful(h)'
  BY <1>1 DEF Founded, Faithful, D!Here
<1>5. \A k \in Hosts : opened'[k] = opened[k]
  OBVIOUS
<1> QED BY <1>1, <1>2, <1>3, <1>4, <1>5, CallStepKeeps

\* The changes of a call on its way.
LEMMA StepTypes ==
  ASSUME NEW c \in D!Openings, NEW step \in D!Steps
  PROVE  /\ [c EXCEPT !.step = step] \in D!Openings
         /\ [c EXCEPT !.step = step, !.tier = "local"] \in D!Openings
         /\ [c EXCEPT !.step = step, !.create = TRUE, !.fallback = TRUE] \in D!Openings
         /\ [c EXCEPT !.step = step, !.tier = "local", !.fallback = FALSE] \in D!Openings
<1>1. "local" \in D!Tiers
  BY DEF D!Tiers
<1> QED BY <1>1 DEF D!Openings

LEMMA FailsKeeps ==
  ASSUME D!DatasetConstants, OpenInv, NEW h \in Hosts, D!Fails(h),
         UNCHANGED <<workspace, writable, opened, opens, changes>>
  PROVE  OpenInv'
BY LookingKeeps DEF D!Fails

\* A call goes on to another step at the same tier.
LEMMA GoesKeeps ==
  ASSUME D!DatasetConstants, OpenInv, NEW h \in Hosts, opening[h] # None, NEW step \in D!Steps, D!Goes(h, step),
         UNCHANGED <<workspace, writable, opened, opens, changes>>,
         step \in OnWorkspace => D!Here(h) # None,
         step = "stores" => D!Here(h).manifest # D!Old,
         opening[h].there # None => step \notin {"local", "create", "publish"}
  PROVE  OpenInv'
<1> DEFINE c == [opening[h] EXCEPT !.step = step]
<1>1. opening[h] \in D!Openings /\ Faithful(h)
  BY CallAt
<1>2. c \in D!Openings
  BY <1>1, StepTypes
<1>3. c.step = step /\ c.tier = opening[h].tier /\ c.create = opening[h].create /\ c.there = opening[h].there
  BY <1>1 DEF D!Openings
<1>4. opening' = [opening EXCEPT ![h] = c]
  BY DEF D!Goes
<1> HIDE DEF c
<1>5. /\ c.step \in OnWorkspace => workspace[c.tier] # None
      /\ c.step = "stores" => workspace[c.tier].manifest # D!Old
  BY <1>3 DEF D!Here
<1>6. c.there # None =>
        /\ c.step \notin {"local", "create", "publish"} /\ c.tier = "external" /\ ~c.create
        /\ workspace["external"] # None /\ workspace["external"].dataset = c.there
  BY <1>1, <1>3 DEF Faithful
<1> QED BY <1>2, <1>4, <1>5, <1>6, LookingKeeps

LEMMA OpenKeeps ==
  ASSUME D!DatasetConstants, OpenInv, NEW h \in Hosts, D!Open(h)
  PROVE  OpenInv'
<1> DEFINE c == [id |-> opens', step |-> "external", tier |-> "external", create |-> FALSE, fallback |-> FALSE,
                 there |-> IF workspace["external"] = None THEN None ELSE workspace["external"].dataset]
<1>1. /\ opens' = opens + 1 /\ opens < MaxOpens /\ opened' = [opened EXCEPT ![h] = None]
      /\ opening' = [opening EXCEPT ![h] = c] /\ UNCHANGED <<workspace, writable, changes>>
  BY DEF D!Open
<1>2. opens' \in 1..MaxOpens
  BY <1>1 DEF OpenInv, OpenTypes, D!DatasetConstants
<1>3. c \in D!Openings /\ c.step = "external" /\ c.tier = "external" /\ ~c.create
      /\ c.there = IF workspace["external"] = None THEN None ELSE workspace["external"].dataset
  <2>1. "external" \in D!Tiers /\ "external" \in D!Steps /\ opens' \in D!Calls
    BY <1>2 DEF D!Tiers, D!Steps, D!Calls
  <2>2. (IF workspace["external"] = None THEN None ELSE workspace["external"].dataset) \in D!Datasets \union {None}
    BY <2>1 DEF OpenInv, OpenTypes, D!Workspaces
  <2> QED BY <2>1, <2>2 DEF D!Openings
<1> HIDE DEF c
<1>4. /\ opening' \in [Hosts -> D!Openings \union {None}] /\ opening'[h] = c
      /\ \A k \in Hosts \ {h} : opening'[k] = opening[k]
  BY <1>1, <1>3, CallBecomes
<1>5. opened' \in [Hosts -> D!Datasets \union {None}] /\ opened'[h] = None /\ \A k \in Hosts \ {h} : opened'[k] = opened[k]
  BY <1>1 DEF OpenInv, OpenTypes
<1>6. OpenTypes'
  <2>1. opens' \in 0..MaxOpens
    BY <1>2
  <2> QED BY <1>1, <1>4, <1>5, <2>1 DEF OpenInv, OpenTypes
<1>7. \A t \in D!Tiers : Keeps(t)
  BY <1>1 DEF Keeps
<1>8. Founded(h)' /\ Faithful(h)'
  BY <1>1, <1>3, <1>4 DEF Founded, Faithful, OnWorkspace
<1>9. Current(h)'
  BY <1>5 DEF Current
<1> QED BY <1>4, <1>5, <1>6, <1>7, <1>8, <1>9, CallStepKeeps

LEMMA LookForKeeps ==
  ASSUME D!DatasetConstants, OpenInv, NEW h \in Hosts, D!LookFor(h)
  PROVE  OpenInv'
<1>1. opening[h] # None /\ UNCHANGED <<workspace, writable, opened, opens, changes>>
  BY DEF D!LookFor, D!At
<1>2. opening[h] \in D!Openings /\ Founded(h) /\ Faithful(h)
  BY <1>1, CallAt
<1>3. CASE D!At(h, "external")
  <2> DEFINE step == IF D!Finds("external") THEN "open" ELSE "local"
  <2>1. step \in D!Steps /\ D!Goes(h, step) /\ step \notin OnWorkspace \union {"create", "publish"}
    BY <1>3 DEF D!Steps, D!Goes, D!LookFor, D!At, OnWorkspace
  <2>2. opening[h].there # None => step = "open"
    BY <1>1, <1>2 DEF Faithful, D!Finds
  <2> HIDE DEF step
  <2> QED BY <1>1, <2>1, <2>2, GoesKeeps DEF OnWorkspace
<1>4. CASE D!At(h, "local")
  <2>1. opening[h].there = None
    BY <1>2, <1>4 DEF D!At, Faithful
  <2>2. PICK c \in D!Openings : opening' = [opening EXCEPT ![h] = c] /\ c.step = "open" /\ c.there = None
    <3>1. "open" \in D!Steps
      BY DEF D!Steps
    <3>2. /\ [opening[h] EXCEPT !.step = "open", !.tier = "local"] \in D!Openings
          /\ [opening[h] EXCEPT !.step = "open", !.create = TRUE, !.fallback = TRUE] \in D!Openings
      BY <1>2, <3>1, StepTypes
    <3>3. \/ opening' = [opening EXCEPT ![h] = [opening[h] EXCEPT !.step = "open", !.tier = "local"]]
          \/ opening' = [opening EXCEPT ![h] = [opening[h] EXCEPT !.step = "open", !.create = TRUE, !.fallback = TRUE]]
      BY <1>4 DEF D!LookFor, D!At
    <3>4. /\ [opening[h] EXCEPT !.step = "open", !.tier = "local"].step = "open"
          /\ [opening[h] EXCEPT !.step = "open", !.tier = "local"].there = None
          /\ [opening[h] EXCEPT !.step = "open", !.create = TRUE, !.fallback = TRUE].step = "open"
          /\ [opening[h] EXCEPT !.step = "open", !.create = TRUE, !.fallback = TRUE].there = None
      BY <1>2, <2>1 DEF D!Openings
    <3> QED BY <3>2, <3>3, <3>4
  <2> QED BY <1>1, <2>2, LookingKeeps DEF OnWorkspace
<1> QED BY <1>3, <1>4 DEF D!LookFor

LEMMA OpenExactKeeps ==
  ASSUME D!DatasetConstants, OpenInv, NEW h \in Hosts, D!OpenExact(h)
  PROVE  OpenInv'
<1>1. opening[h] # None /\ UNCHANGED <<workspace, writable, opened, opens, changes>>
  BY DEF D!OpenExact, D!At
<1>2. opening[h] \in D!Openings /\ Founded(h) /\ Faithful(h)
  BY <1>1, CallAt
<1>3. \/ D!Here(h) = None /\ opening[h].create /\ D!Goes(h, "create")
      \/ D!Fails(h)
      \/ D!Here(h) # None /\ D!Goes(h, "migrate")
      \/ D!Here(h) # None /\ D!Here(h).manifest # D!Old /\ D!Goes(h, "stores")
  <2>1. CASE D!Here(h) = None /\ opening[h].create
    BY <2>1 DEF D!OpenExact, D!Goes
  <2>2. CASE D!Here(h) = None /\ ~opening[h].create
    BY <2>2 DEF D!OpenExact, D!Fails
  <2>0. D!Old # D!New
    BY DEF D!Old, D!New, D!DatasetConstants
  <2>3. CASE D!Here(h) # None /\ D!Here(h).manifest = D!Old
    BY <2>0, <2>3 DEF D!OpenExact, D!Goes
  <2>4. CASE D!Here(h) # None /\ D!Here(h).manifest # D!Old /\ D!Here(h).manifest = D!New
    BY <2>4 DEF D!OpenExact, D!Goes
  <2>5. CASE D!Here(h) # None /\ D!Here(h).manifest # D!Old /\ D!Here(h).manifest # D!New
    BY <2>5 DEF D!OpenExact, D!Fails
  <2> QED BY <2>1, <2>2, <2>3, <2>4, <2>5
<1>4. {"create", "migrate", "stores"} \subseteq D!Steps
  BY DEF D!Steps
<1>5. CASE D!Fails(h)
  BY <1>1, <1>5, FailsKeeps
<1>6. CASE D!Goes(h, "create") /\ opening[h].create
  <2>1. opening[h].there = None
    BY <1>1, <1>2, <1>6 DEF Faithful
  <2> QED BY <1>1, <1>4, <1>6, <2>1, GoesKeeps DEF OnWorkspace
<1>7. CASE D!Goes(h, "migrate") /\ D!Here(h) # None
  BY <1>1, <1>4, <1>7, GoesKeeps DEF OnWorkspace
<1>8. CASE D!Goes(h, "stores") /\ D!Here(h) # None /\ D!Here(h).manifest # D!Old
  BY <1>1, <1>4, <1>8, GoesKeeps DEF OnWorkspace
<1> QED BY <1>3, <1>5, <1>6, <1>7, <1>8

LEMMA GivesUpKeeps ==
  ASSUME D!DatasetConstants, OpenInv, NEW h \in Hosts, opening[h] # None, opening[h].there = None, D!GivesUp(h),
         UNCHANGED <<workspace, writable, opened, opens, changes>>
  PROVE  OpenInv'
<1> DEFINE c == [opening[h] EXCEPT !.step = "open", !.tier = "local", !.fallback = FALSE]
<1>1. opening[h] \in D!Openings
  BY CallAt
<1>2. CASE opening[h].fallback
  <2>1. c \in D!Openings /\ c.step = "open" /\ c.there = None
    <3>1. "open" \in D!Steps
      BY DEF D!Steps
    <3>2. c \in D!Openings
      BY <1>1, <3>1, StepTypes
    <3> QED BY <1>1, <3>2 DEF D!Openings
  <2>2. opening' = [opening EXCEPT ![h] = c]
    BY <1>2 DEF D!GivesUp
  <2> HIDE DEF c
  <2> QED BY <2>1, <2>2, LookingKeeps DEF OnWorkspace
<1>3. CASE ~opening[h].fallback
  <2>1. D!Fails(h)
    BY <1>3 DEF D!GivesUp, D!Fails
  <2> QED BY <2>1, FailsKeeps
<1> QED BY <1>2, <1>3

LEMMA CreateKeeps ==
  ASSUME D!DatasetConstants, OpenInv, NEW h \in Hosts, D!Create(h)
  PROVE  OpenInv'
<1>1. opening[h] # None /\ opening[h].step = "create" /\ UNCHANGED <<workspace, writable, opened, opens, changes>>
  BY DEF D!Create, D!At
<1>2. opening[h].there = None
  BY <1>1, CallAt DEF Faithful
<1>3. "publish" \in D!Steps
  BY DEF D!Steps
<1>4. CASE D!GivesUp(h)
  BY <1>1, <1>2, <1>4, GivesUpKeeps
<1>5. CASE D!Goes(h, "publish")
  BY <1>1, <1>2, <1>3, <1>5, GoesKeeps DEF OnWorkspace
<1> QED BY <1>4, <1>5 DEF D!Create

-----------------------------------------------------------------------------
(* The steps of a call that change the workspace it is at. *)

LEMMA ChangeKeeps ==
  ASSUME D!DatasetConstants, OpenInv, NEW h \in Hosts, opening[h] # None, NEW w \in D!Workspaces, D!Is(h, w),
         NEW c \in D!Openings \union {None}, opening' = [opening EXCEPT ![h] = c],
         UNCHANGED <<writable, opens, changes>>,
         c # None => /\ c.tier = opening[h].tier /\ c.there = opening[h].there /\ c.create = opening[h].create
                     /\ c.step \notin {"local", "create", "publish"}
                     /\ c.step = "stores" => w.manifest # D!Old,
         D!Here(h) # None => /\ w.dataset = D!Here(h).dataset
                             /\ D!Here(h).manifest # D!Old => w.manifest # D!Old
                             /\ \A s \in D!Stores : D!Here(h).store[s] = "new" => w.store[s] = "new",
         \/ opened' = opened
         \/ /\ opened' = [opened EXCEPT ![h] = w.dataset]
            /\ w.manifest # D!Old /\ \A s \in D!Stores : w.store[s] = "new"
  PROVE  OpenInv' /\ \A t \in D!Tiers : Keeps(t)
<1> DEFINE u == opening[h].tier
<1>1. u \in D!Tiers /\ Founded(h) /\ Faithful(h) /\ OpenTypes
  BY CallAt DEF OpenInv
<1>2. workspace' = [workspace EXCEPT ![u] = w] /\ D!Here(h) = workspace[u]
  BY DEF D!Is, D!Here
<1> HIDE DEF u
<1>3. /\ workspace' \in [D!Tiers -> D!Workspaces \union {None}]
      /\ \A t \in D!Tiers : Keeps(t)
      /\ workspace'[u] = w /\ w # None
  BY <1>1, <1>2, RenewedKeeps, ZenonT(60)
<1>4. /\ opening' \in [Hosts -> D!Openings \union {None}] /\ opening'[h] = c
      /\ \A k \in Hosts \ {h} : opening'[k] = opening[k]
  BY CallBecomes
<1>5. w.dataset \in D!Datasets
  BY DEF D!Workspaces
<1>6. /\ opened' \in [Hosts -> D!Datasets \union {None}]
      /\ \A k \in Hosts \ {h} : opened'[k] = opened[k]
  BY <1>1, <1>5 DEF OpenTypes
<1>7. OpenTypes'
  BY <1>1, <1>3, <1>4, <1>6 DEF OpenTypes
<1>8. c # None => c.tier = u
  BY DEF u
<1>9. Founded(h)'
  <2>1. c # None => D!Here(h)' = w
    BY <1>3, <1>4, <1>8 DEF D!Here
  <2> QED BY <1>3, <1>4, <2>1 DEF Founded
<1>10. Faithful(h)'
  <2> SUFFICES ASSUME c # None, c.there # None
               PROVE  /\ c.step \notin {"local", "create", "publish"} /\ c.tier = "external" /\ ~c.create
                      /\ workspace'["external"] # None /\ workspace'["external"].dataset = c.there
    BY <1>4 DEF Faithful
  <2>1. /\ u = "external" /\ ~opening[h].create
        /\ workspace["external"] # None /\ workspace["external"].dataset = c.there
    BY <1>1 DEF Faithful, u
  <2>2. w.dataset = c.there
    BY <1>2, <2>1
  <2> QED BY <1>3, <1>8, <2>1, <2>2
<1>11. opened'[h] = opened[h] \/ Current(h)'
  <2>1. CASE opened' = opened
    BY <2>1
  <2>2. CASE /\ opened' = [opened EXCEPT ![h] = w.dataset]
             /\ w.manifest # D!Old /\ \A s \in D!Stores : w.store[s] = "new"
    <3>1. opened'[h] = w.dataset
      BY <1>1, <2>2 DEF OpenTypes
    <3>2. \A t \in D!Tiers : t = u => CurrentIn(t, opened[h])'
      BY <1>3, <2>2, <3>1 DEF CurrentIn
    <3> QED BY <1>1, <3>2 DEF Current
  <2> QED BY <2>1, <2>2
<1> QED BY <1>3, <1>4, <1>6, <1>7, <1>9, <1>10, <1>11, CallStepKeeps

\* A call changes its workspace and goes on.
LEMMA ChangeAndGoKeeps ==
  ASSUME D!DatasetConstants, OpenInv, NEW h \in Hosts, opening[h] # None, NEW w \in D!Workspaces, D!Is(h, w),
         NEW step \in D!Steps, D!Goes(h, step), step \notin {"local", "create", "publish"},
         UNCHANGED <<writable, opened, opens, changes>>,
         step = "stores" => w.manifest # D!Old,
         D!Here(h) # None => /\ w.dataset = D!Here(h).dataset
                             /\ D!Here(h).manifest # D!Old => w.manifest # D!Old
                             /\ \A s \in D!Stores : D!Here(h).store[s] = "new" => w.store[s] = "new"
  PROVE  OpenInv' /\ \A t \in D!Tiers : Keeps(t)
<1> DEFINE c == [opening[h] EXCEPT !.step = step]
<1>1. opening[h] \in D!Openings
  BY CallAt
<1>2. c \in D!Openings
  BY <1>1, StepTypes
<1>3. c.step = step /\ c.tier = opening[h].tier /\ c.create = opening[h].create /\ c.there = opening[h].there
  BY <1>1 DEF D!Openings
<1>4. opening' = [opening EXCEPT ![h] = c]
  BY DEF D!Goes
<1> HIDE DEF c
<1> QED BY <1>2, <1>3, <1>4, ChangeKeeps

\* A call changes its workspace and fails.
LEMMA ChangeAndFailKeeps ==
  ASSUME D!DatasetConstants, OpenInv, NEW h \in Hosts, opening[h] # None, NEW w \in D!Workspaces, D!Is(h, w),
         D!Fails(h), UNCHANGED <<writable, opens, changes>>,
         D!Here(h) # None => /\ w.dataset = D!Here(h).dataset
                             /\ D!Here(h).manifest # D!Old => w.manifest # D!Old
                             /\ \A s \in D!Stores : D!Here(h).store[s] = "new" => w.store[s] = "new",
         \/ opened' = opened
         \/ /\ opened' = [opened EXCEPT ![h] = w.dataset]
            /\ w.manifest # D!Old /\ \A s \in D!Stores : w.store[s] = "new"
  PROVE  OpenInv' /\ \A t \in D!Tiers : Keeps(t)
<1>1. opening' = [opening EXCEPT ![h] = None]
  BY DEF D!Fails
<1> QED BY <1>1, ChangeKeeps

\* The workspace a call is at, in the steps that take it to be there.
LEMMA HereIs ==
  ASSUME D!DatasetConstants, OpenInv, NEW h \in Hosts, opening[h] # None,
         opening[h].step \in OnWorkspace
  PROVE  /\ D!Here(h) \in D!Workspaces /\ D!Here(h) # None /\ opening[h].id \in D!Calls
         /\ D!Old \notin D!Calls /\ D!New # D!Old /\ D!New \in {0, MaxOpens + 1} \union D!Calls
         /\ opening[h].step = "stores" => D!Here(h).manifest # D!Old
<1>1. /\ opening[h] \in D!Openings /\ Founded(h) /\ D!Here(h) \in D!Workspaces \union {None}
  BY CallAt
<1>2. D!Old \notin D!Calls /\ D!New # D!Old /\ D!New \in {0, MaxOpens + 1} \union D!Calls
  BY DEF D!Old, D!New, D!Calls, D!DatasetConstants
<1> QED BY <1>1, <1>2 DEF Founded, D!Openings

LEMMA PublishKeeps ==
  ASSUME D!DatasetConstants, OpenInv, NEW h \in Hosts, D!Publish(h)
  PROVE  OpenInv' /\ \A t \in D!Tiers : Keeps(t)
<1>1. opening[h] # None /\ opening[h].step = "publish" /\ UNCHANGED <<writable, opens, changes>>
  BY DEF D!Publish, D!At
<1>2. opening[h] \in D!Openings /\ opening[h].there = None
  BY <1>1, CallAt DEF Faithful
<1>3. CASE /\ D!Here(h) = None /\ D!Is(h, D!Fresh(opening[h].id)) /\ D!Fails(h)
           /\ opened' = [opened EXCEPT ![h] = opening[h].id]
  <2> DEFINE w == D!Fresh(opening[h].id)
  <2>1. w \in D!Workspaces /\ w.dataset = opening[h].id /\ w.manifest # D!Old /\ \A s \in D!Stores : w.store[s] = "new"
    <3>1. opening[h].id \in D!Datasets /\ D!New # D!Old /\ D!New \in {0, MaxOpens + 1}
      BY <1>2 DEF D!Openings, D!Calls, D!Datasets, D!New, D!Old, D!DatasetConstants
    <3> QED BY <3>1 DEF D!Fresh, D!Workspaces
  <2> HIDE DEF w
  <2>2. D!Is(h, w)
    BY <1>3 DEF w
  <2> QED BY <1>1, <1>3, <2>1, <2>2, ChangeAndFailKeeps
<1>4. CASE D!GivesUp(h) /\ UNCHANGED <<workspace, opened>>
  <2>1. OpenInv'
    BY <1>1, <1>2, <1>4, GivesUpKeeps
  <2> QED BY <1>4, <2>1 DEF Keeps
<1> QED BY <1>3, <1>4 DEF D!Publish, D!Free

LEMMA MigratePlanKeeps ==
  ASSUME D!DatasetConstants, OpenInv, NEW h \in Hosts, D!MigratePlan(h)
  PROVE  OpenInv' /\ \A t \in D!Tiers : Keeps(t)
<1> DEFINE w == [D!Here(h) EXCEPT !.store["plan"] = "new"]
           step == IF D!Here(h).backup = "none" THEN "backup" ELSE "manifest"
<1>1. /\ opening[h] # None /\ opening[h].step = "migrate" /\ UNCHANGED <<writable, opened, opens, changes>>
      /\ D!Is(h, w) /\ D!Goes(h, step)
  BY DEF D!MigratePlan, D!At
<1>2. D!Here(h) \in D!Workspaces
  BY <1>1, HereIs DEF OnWorkspace
<1>3. /\ w \in D!Workspaces /\ w.dataset = D!Here(h).dataset /\ w.manifest = D!Here(h).manifest
      /\ \A s \in D!Stores : D!Here(h).store[s] = "new" => w.store[s] = "new"
  BY <1>2 DEF D!Workspaces
<1>4. step \in D!Steps /\ step \notin {"local", "create", "publish", "stores"}
  BY DEF D!Steps
<1> HIDE DEF w, step
<1> QED BY <1>1, <1>3, <1>4, ChangeAndGoKeeps

LEMMA BeginBackupKeeps ==
  ASSUME D!DatasetConstants, OpenInv, NEW h \in Hosts, D!BeginBackup(h)
  PROVE  OpenInv' /\ \A t \in D!Tiers : Keeps(t)
<1> DEFINE w == [D!Here(h) EXCEPT !.backup = "partial"]
<1>1. /\ opening[h] # None /\ opening[h].step = "backup" /\ UNCHANGED <<writable, opened, opens, changes>>
      /\ (D!Is(h, w) /\ D!Goes(h, "copying")) \/ (workspace' = workspace /\ D!Fails(h))
  BY DEF D!BeginBackup, D!At
<1>2. D!Here(h) \in D!Workspaces
  BY <1>1, HereIs DEF OnWorkspace
<1>3. /\ w \in D!Workspaces /\ w.dataset = D!Here(h).dataset /\ w.manifest = D!Here(h).manifest
      /\ w.store = D!Here(h).store
  BY <1>2 DEF D!Workspaces
<1>4. "copying" \in D!Steps
  BY DEF D!Steps
<1> HIDE DEF w
<1>5. CASE D!Is(h, w) /\ D!Goes(h, "copying")
  BY <1>1, <1>3, <1>4, <1>5, ChangeAndGoKeeps
<1>6. CASE workspace' = workspace /\ D!Fails(h)
  <2>1. OpenInv'
    BY <1>1, <1>6, FailsKeeps
  <2> QED BY <1>6, <2>1 DEF Keeps
<1> QED BY <1>1, <1>5, <1>6

LEMMA EndBackupKeeps ==
  ASSUME D!DatasetConstants, OpenInv, NEW h \in Hosts, D!EndBackup(h)
  PROVE  OpenInv' /\ \A t \in D!Tiers : Keeps(t)
<1> DEFINE w == [D!Here(h) EXCEPT !.backup = "whole"]
<1>1. /\ opening[h] # None /\ opening[h].step = "copying" /\ UNCHANGED <<writable, opened, opens, changes>>
      /\ D!Is(h, w) /\ D!Goes(h, "manifest")
  BY DEF D!EndBackup, D!At
<1>2. D!Here(h) \in D!Workspaces
  BY <1>1, HereIs DEF OnWorkspace
<1>3. /\ w \in D!Workspaces /\ w.dataset = D!Here(h).dataset /\ w.manifest = D!Here(h).manifest
      /\ w.store = D!Here(h).store
  BY <1>2 DEF D!Workspaces
<1>4. "manifest" \in D!Steps
  BY DEF D!Steps
<1> HIDE DEF w
<1> QED BY <1>1, <1>3, <1>4, ChangeAndGoKeeps

LEMMA BeginManifestKeeps ==
  ASSUME D!DatasetConstants, OpenInv, NEW h \in Hosts, D!BeginManifest(h)
  PROVE  OpenInv' /\ \A t \in D!Tiers : Keeps(t)
<1> DEFINE tmp == [by |-> opening[h].id, whole |-> FALSE]
           w == [D!Here(h) EXCEPT !.tmp = tmp]
           v == [D!Here(h) EXCEPT !.tmp = None]
<1>1. /\ opening[h] # None /\ opening[h].step = "manifest" /\ UNCHANGED <<writable, opened, opens, changes>>
      /\ (D!Is(h, w) /\ D!Goes(h, "writing")) \/ (D!Is(h, v) /\ D!Fails(h))
  BY DEF D!BeginManifest, D!At
<1>2. D!Here(h) \in D!Workspaces /\ opening[h].id \in D!Calls
  BY <1>1, HereIs DEF OnWorkspace
<1>3. tmp \in [by : D!Calls, whole : BOOLEAN] \cup {None}
  BY <1>2
<1> HIDE DEF tmp
<1>4. /\ w \in D!Workspaces /\ w.dataset = D!Here(h).dataset /\ w.manifest = D!Here(h).manifest
      /\ w.store = D!Here(h).store
  BY <1>2, <1>3 DEF D!Workspaces
<1>5. /\ v \in D!Workspaces /\ v.dataset = D!Here(h).dataset /\ v.manifest = D!Here(h).manifest
      /\ v.store = D!Here(h).store
  BY <1>2 DEF D!Workspaces
<1>6. "writing" \in D!Steps
  BY DEF D!Steps
<1> HIDE DEF w, v
<1>7. CASE D!Is(h, w) /\ D!Goes(h, "writing")
  BY <1>1, <1>4, <1>6, <1>7, ChangeAndGoKeeps
<1>8. CASE D!Is(h, v) /\ D!Fails(h)
  BY <1>1, <1>5, <1>8, ChangeAndFailKeeps
<1> QED BY <1>1, <1>7, <1>8

LEMMA EndManifestKeeps ==
  ASSUME D!DatasetConstants, OpenInv, NEW h \in Hosts, D!EndManifest(h)
  PROVE  OpenInv' /\ \A t \in D!Tiers : Keeps(t)
<1> DEFINE mine == [by |-> opening[h].id, whole |-> FALSE]
           tmp == IF D!Here(h).tmp = mine THEN [mine EXCEPT !.whole = TRUE] ELSE D!Here(h).tmp
           m == IF D!Here(h).manifest = mine.by THEN D!New ELSE D!Here(h).manifest
           w == [D!Here(h) EXCEPT !.tmp = tmp, !.manifest = m]
<1>1. /\ opening[h] # None /\ opening[h].step = "writing" /\ UNCHANGED <<writable, opened, opens, changes>>
      /\ D!Goes(h, "replace")
  BY DEF D!EndManifest, D!At
<1>2. /\ D!Here(h) \in D!Workspaces /\ opening[h].id \in D!Calls /\ D!New # D!Old
      /\ D!New \in {0, MaxOpens + 1} \union D!Calls
  BY <1>1, HereIs DEF OnWorkspace
<1>3. D!Here(h).tmp \in [by : D!Calls, whole : BOOLEAN] \union {None} /\ D!Here(h).manifest \in {0, MaxOpens + 1} \union D!Calls
  BY <1>2 DEF D!Workspaces
<1>4. D!Is(h, w)
  BY <1>2 DEF D!EndManifest, D!Workspaces
<1>5. tmp \in [by : D!Calls, whole : BOOLEAN] \union {None}
  BY <1>2, <1>3
<1>6. m \in {0, MaxOpens + 1} \union D!Calls /\ (D!Here(h).manifest # D!Old => m # D!Old)
  BY <1>2, <1>3
<1> HIDE DEF tmp, m, mine
<1>7. w \in D!Workspaces /\ w.dataset = D!Here(h).dataset /\ w.manifest = m /\ w.store = D!Here(h).store
  BY <1>2, <1>5, <1>6 DEF D!Workspaces
<1>8. "replace" \in D!Steps
  BY DEF D!Steps
<1> HIDE DEF w
<1> QED BY <1>1, <1>4, <1>6, <1>7, <1>8, ChangeAndGoKeeps

LEMMA ReplaceManifestKeeps ==
  ASSUME D!DatasetConstants, OpenInv, NEW h \in Hosts, D!ReplaceManifest(h)
  PROVE  OpenInv' /\ \A t \in D!Tiers : Keeps(t)
<1> DEFINE m == IF D!Here(h).tmp.whole THEN D!New ELSE D!Here(h).tmp.by
           w == [D!Here(h) EXCEPT !.manifest = m, !.tmp = None]
<1>1. /\ opening[h] # None /\ opening[h].step = "replace" /\ UNCHANGED <<writable, opened, opens, changes>>
      /\ \/ D!Here(h).tmp # None /\ D!Is(h, w) /\ D!Goes(h, "stores")
         \/ workspace' = workspace /\ D!Fails(h)
  BY DEF D!ReplaceManifest, D!At
<1>2. /\ D!Here(h) \in D!Workspaces /\ D!Old \notin D!Calls /\ D!New # D!Old
      /\ D!New \in {0, MaxOpens + 1} \union D!Calls
  BY <1>1, HereIs DEF OnWorkspace
<1>3. CASE D!Here(h).tmp # None /\ D!Is(h, w) /\ D!Goes(h, "stores")
  <2>1. D!Here(h).tmp \in [by : D!Calls, whole : BOOLEAN]
    BY <1>2, <1>3 DEF D!Workspaces
  <2>2. D!Here(h).tmp.by \in D!Calls
    BY <2>1
  <2>3. m \in {0, MaxOpens + 1} \union D!Calls /\ m # D!Old
    BY <1>2, <2>2
  <2> HIDE DEF m
  <2>4. w \in D!Workspaces /\ w.dataset = D!Here(h).dataset /\ w.manifest = m /\ w.store = D!Here(h).store
    BY <1>2, <2>3 DEF D!Workspaces
  <2>5. "stores" \in D!Steps
    BY DEF D!Steps
  <2> HIDE DEF w
  <2> QED BY <1>1, <1>3, <2>3, <2>4, <2>5, ChangeAndGoKeeps
<1>4. CASE workspace' = workspace /\ D!Fails(h)
  <2>1. OpenInv'
    BY <1>1, <1>4, FailsKeeps
  <2> QED BY <1>4, <2>1 DEF Keeps
<1> QED BY <1>1, <1>3, <1>4

LEMMA VerifyStoresKeeps ==
  ASSUME D!DatasetConstants, OpenInv, NEW h \in Hosts, D!VerifyStores(h)
  PROVE  OpenInv' /\ \A t \in D!Tiers : Keeps(t)
<1> DEFINE w == [D!Here(h) EXCEPT !.store = D!Upgraded(D!Here(h))]
<1>1. /\ opening[h] # None /\ opening[h].step = "stores" /\ UNCHANGED <<writable, opens, changes>>
      /\ D!Is(h, w) /\ D!Fails(h) /\ opened' = [opened EXCEPT ![h] = D!Here(h).dataset]
  BY DEF D!VerifyStores, D!At
<1>2. D!Here(h) \in D!Workspaces /\ D!Here(h).manifest # D!Old
  BY <1>1, HereIs DEF OnWorkspace
<1>3. w \in D!Workspaces /\ w.dataset = D!Here(h).dataset /\ w.manifest = D!Here(h).manifest
      /\ \A s \in D!Stores : w.store[s] = "new"
  BY <1>2 DEF D!Workspaces, D!Upgraded
<1> HIDE DEF w
<1> QED BY <1>1, <1>2, <1>3, ChangeAndFailKeeps

-----------------------------------------------------------------------------
(* The invariant holds, and with it the properties. *)

LEMMA OpeningInit ==
  ASSUME D!DatasetConstants, D!Init
  PROVE  OpenInv
<1>1. D!Older(0) \in D!Workspaces /\ D!Older(MaxOpens + 1) \in D!Workspaces
  BY DEF D!Older, D!Workspaces, D!Datasets, D!Old, D!DatasetConstants
<1>2. workspace \in [D!Tiers -> D!Workspaces \union {None}]
  BY <1>1 DEF D!Init
<1>3. opens \in 0..MaxOpens /\ changes \in 0..MaxChanges
  BY DEF D!Init, D!DatasetConstants
<1>4. /\ opening \in [Hosts -> D!Openings \union {None}] /\ opened \in [Hosts -> D!Datasets \union {None}]
      /\ writable \in BOOLEAN
      /\ \A h \in Hosts : opening[h] = None /\ opened[h] = None
  BY DEF D!Init
<1>5. OpenTypes
  BY <1>2, <1>3, <1>4 DEF OpenTypes
<1> QED BY <1>4, <1>5 DEF OpenInv, Founded, Faithful, Current

LEMMA OpeningStep ==
  ASSUME D!DatasetConstants, OpenInv, [D!Next]_(D!vars)
  PROVE  OpenInv' /\ \A t \in D!Tiers : Keeps(t)
<1>1. ASSUME NEW h \in Hosts, D!Open(h) PROVE OpenInv' /\ UNCHANGED workspace
  BY <1>1, OpenKeeps DEF D!Open
<1>2. ASSUME NEW h \in Hosts, D!LookFor(h) PROVE OpenInv' /\ UNCHANGED workspace
  BY <1>2, LookForKeeps DEF D!LookFor
<1>3. ASSUME NEW h \in Hosts, D!OpenExact(h) PROVE OpenInv' /\ UNCHANGED workspace
  BY <1>3, OpenExactKeeps DEF D!OpenExact
<1>4. ASSUME NEW h \in Hosts, D!Create(h) PROVE OpenInv' /\ UNCHANGED workspace
  BY <1>4, CreateKeeps DEF D!Create
<1>5. ASSUME NEW h \in Hosts, D!Crash(h) PROVE OpenInv' /\ UNCHANGED workspace
  BY <1>5, FailsKeeps DEF D!Crash
<1>6. ASSUME D!VolumeChanges PROVE OpenInv' /\ UNCHANGED workspace
  <2>1. OpenTypes'
    <3>1. changes' \in 0..MaxChanges
      BY <1>6 DEF D!VolumeChanges, OpenInv, OpenTypes, D!DatasetConstants
    <3>2. writable' \in BOOLEAN
      BY <1>6, Zenon DEF D!VolumeChanges
    <3> QED BY <1>6, <3>1, <3>2 DEF D!VolumeChanges, OpenInv, OpenTypes
  <2>2. ASSUME NEW h \in Hosts PROVE Founded(h)' /\ Faithful(h)' /\ Current(h)'
    BY <1>6 DEF D!VolumeChanges, OpenInv, Founded, Faithful, Current, CurrentIn, D!Here
  <2> QED BY <1>6, <2>1, <2>2 DEF OpenInv, D!VolumeChanges
<1>7. ASSUME UNCHANGED D!vars PROVE OpenInv' /\ UNCHANGED workspace
  BY <1>7 DEF D!vars, OpenInv, OpenTypes, Founded, Faithful, Current, CurrentIn, D!Here
<1>8. UNCHANGED workspace => \A t \in D!Tiers : Keeps(t)
  BY DEF Keeps
<1>9. ASSUME NEW h \in Hosts,
             \/ D!Publish(h) \/ D!MigratePlan(h) \/ D!BeginBackup(h) \/ D!EndBackup(h)
             \/ D!BeginManifest(h) \/ D!EndManifest(h) \/ D!ReplaceManifest(h) \/ D!VerifyStores(h)
      PROVE  OpenInv' /\ \A t \in D!Tiers : Keeps(t)
  BY <1>9, PublishKeeps, MigratePlanKeeps, BeginBackupKeeps, EndBackupKeeps, BeginManifestKeeps,
     EndManifestKeeps, ReplaceManifestKeeps, VerifyStoresKeeps
<1> QED BY <1>1, <1>2, <1>3, <1>4, <1>5, <1>6, <1>7, <1>8, <1>9 DEF D!Next

THEOREM OpeningInvariant ==
  ASSUME D!DatasetConstants
  PROVE  D!Spec => []OpenInv
<1>1. D!Init => OpenInv
  BY OpeningInit
<1>2. OpenInv /\ [D!Next]_(D!vars) => OpenInv'
  BY OpeningStep
<1> QED BY <1>1, <1>2, PTL DEF D!Spec

(* A Host that works in a Dataset works in one whose manifest and stores   *)
(* this build has brought up to date, however many Hosts migrate one       *)
(* workspace, and wherever any of them died.                               *)
THEOREM OpenedIsAlwaysCurrent ==
  ASSUME D!DatasetConstants
  PROVE  D!Spec => []D!OpenedIsCurrent
<1>1. OpenInv => D!OpenedIsCurrent
  BY DEF OpenInv, Current, CurrentIn, D!OpenedIsCurrent
<1> QED BY <1>1, OpeningInvariant, PTL

(* The Dataset the volume held when an open began is the one it verifies,  *)
(* and an open that found one never makes another.                         *)
THEOREM PrecedenceAlwaysHolds ==
  ASSUME D!DatasetConstants
  PROVE  D!Spec => []D!PrecedenceHolds
<1>1. OpenInv => D!PrecedenceHolds
  BY DEF OpenInv, Faithful, D!PrecedenceHolds, D!Here
<1> QED BY <1>1, OpeningInvariant, PTL

(* A workspace that has taken its name keeps it and its identifier through *)
(* every step of every Host.                                               *)
THEOREM PublishedAlwaysStays ==
  ASSUME D!DatasetConstants
  PROVE  D!Spec => D!PublishedStays
<1>1. OpenInv /\ [D!Next]_(D!vars) => [D!PublishedStaysStep]_(D!vars)
  BY OpeningStep DEF Keeps, D!PublishedStaysStep
<1> QED BY <1>1, OpeningInvariant, PTL DEF D!Spec, D!PublishedStays

(* Every variable keeps its type.                                          *)
THEOREM OpeningWellTyped ==
  ASSUME D!DatasetConstants
  PROVE  D!Spec => []D!TypeOK
<1>1. OpenInv => D!TypeOK
  BY DEF OpenInv, OpenTypes, D!TypeOK
<1> QED BY <1>1, OpeningInvariant, PTL
=============================================================================
