----------------------------- MODULE ViewHost_proofs -----------------------------
(***************************************************************************)
(* Theorems about the Plan view host: from the outside (ViewHost), for any *)
(* number of processes, clients and faults; and from the inside (V), for   *)
(* any number of threads, Works, places and requests.                      *)
(***************************************************************************)
EXTENDS ViewHost, FiniteSetTheorems, NaturalsInduction, WellFoundedInduction, TLAPS

CONSTANTS Works, Requests, Slots, MaxWaiters, MaxSaves, MaxArrivals
VARIABLES saved, ctx, read, stale, active, inflight, waiters, req, serving, reason, cut, quiet, saves, arrivals

\* The same process with its request threads and its projections.
V == INSTANCE ViewContexts WITH host <- serving

-----------------------------------------------------------------------------
(* The inductive invariant, part by part. *)

\* What a client remembers is of these types; TypeOK leaves it out.
Outcomes == {"none", "delivered", "stopped", "unknown", "unavailable", "unreachable", "unverified", "died"}
ClientStates == {"idle", "wait", "look", "probe", "await", "bind", "tell", "prove", "done"}

ClientRecords ==
  [pc : ClientStates, what : {"none", "deliver", "stop"}, info : Hosts \union {None},
   drains : BOOLEAN, child : Hosts \union {None}, again : BOOLEAN,
   retiring : Hosts \union {None}, proving : BOOLEAN, outcome : Outcomes]

ClientType == client \in [Clients -> ClientRecords]

\* The lock of process.lock is held exactly by a process that is beyond it
\* and not gone yet, whatever it is doing.
LockIsHeld == \A h \in Hosts : owner = h <=> host[h] \in Owning

\* From its first write of the header to the last it is the owner's own, and
\* from its publication on so is the address.
OwnFiles ==
  \A h \in Hosts :
    /\ host[h] \in {"headed", "serving", "draining", "closing", "cleaning"} => header = HeaderOf(h, FALSE)
    /\ host[h] \in {"serving", "draining"} => conn = h

\* process.lock exists once it has been locked, and names only a process that
\* has had the lock.
HeaderIsEarned ==
  /\ owner # None => header # NoHeader
  /\ \A h \in Hosts : header.of = h => host[h] \notin {"unborn", "born"}

Inv == TypeOK /\ ClientType /\ LockIsHeld /\ OwnFiles /\ HeaderIsEarned

-----------------------------------------------------------------------------
\* There is one owner, and it holds the lock.
LEMMA OneOwner ==
  ASSUME TypeOK, LockIsHeld, NEW h \in Hosts, host[h] \in Owning
  PROVE  owner = h /\ \A i \in Hosts \ {h} : host[i] \notin Owning
BY DEF LockIsHeld

\* What a header may be.
LEMMA HeaderKinds ==
  ASSUME TypeOK
  PROVE  /\ header.of \in Hosts \union {None}
         /\ header.kind = "absent" <=> header = NoHeader
         /\ header.of # None => header.kind = "header"
         /\ \A h \in Hosts, e \in BOOLEAN : header = HeaderOf(h, e) => header.of = h /\ header # NoHeader
         /\ NoHeader.of = None /\ EmptyHeader.of = None /\ EmptyHeader # NoHeader
BY ViewHostConstants DEF TypeOK, NoHeader, EmptyHeader, HeaderOf

\* Initially no process runs and nothing is on disk.
LEMMA InvInit == Init => Inv
BY ViewHostConstants
DEF Init, Inv, TypeOK, ClientType, ClientRecords, ClientStates, Outcomes, LockIsHeld, OwnFiles, HeaderIsEarned, Owning, NoHeader

\* A step of a process keeps the types.
LEMMA HostTypes ==
  ASSUME TypeOK, ClientType, NEW h \in Hosts, HostNext(h)
  PROVE  TypeOK' /\ ClientType'
<1> USE ViewHostConstants DEF TypeOK, Owning, Becomes, Fault, files
<1>1. ClientType'
  BY DEF HostNext, Lock, Truncate, WriteHeader, Publish, StartFails, Retire, Shut, TakeParent,
         WriteEnd, Exit, Crash, ClientType
<1>2. TypeOK'
  <2>1. CASE Lock(h)        BY <2>1 DEF Lock
  <2>2. CASE Truncate(h)    BY <2>2 DEF Truncate
  <2>3. CASE WriteHeader(h) BY <2>3 DEF WriteHeader, HeaderOf
  <2>4. CASE Publish(h)     BY <2>4 DEF Publish
  <2>5. CASE StartFails(h)
    <3>1. header' = header \/ header' = [kind |-> "header", of |-> h, ended |-> TRUE]
      BY <2>5 DEF StartFails, HeaderOf
    <3>2. header' \in {NoHeader, EmptyHeader} \union [kind : {"header"}, of : Hosts, ended : BOOLEAN]
      <4> HIDE DEF TypeOK
      <4>1. [kind |-> "header", of |-> h, ended |-> TRUE] \in [kind : {"header"}, of : Hosts, ended : BOOLEAN]
        OBVIOUS
      <4>2. CASE header' = header BY <4>2 DEF TypeOK
      <4> QED BY <3>1, <4>1, <4>2
    <3>3. faults' \in 0..MaxFaults
      BY <2>5 DEF StartFails
    <3>4. CASE Becomes(h, "leaving")
      BY <2>5, <3>2, <3>3, <3>4 DEF StartFails
    <3>5. CASE Becomes(h, "closing")
      BY <2>5, <3>2, <3>3, <3>5 DEF StartFails
    <3> QED BY <2>5, <3>4, <3>5 DEF StartFails
  <2>6. CASE Retire(h)      BY <2>6 DEF Retire
  <2>7. CASE Shut(h)        BY <2>7 DEF Shut
  <2>8. CASE TakeParent(h)  BY <2>8 DEF TakeParent
  <2>9. CASE WriteEnd(h)    BY <2>9 DEF WriteEnd, HeaderOf
  <2>10. CASE Exit(h)       BY <2>10 DEF Exit
  <2>11. CASE Crash(h)      BY <2>11 DEF Crash
  <2> QED BY <2>1, <2>2, <2>3, <2>4, <2>5, <2>6, <2>7, <2>8, <2>9, <2>10, <2>11 DEF HostNext
<1> QED BY <1>1, <1>2

\* A step of a process keeps the lock, the files and the header in order.
LEMMA HostKeeps ==
  ASSUME TypeOK, LockIsHeld, OwnFiles, HeaderIsEarned, NEW h \in Hosts, HostNext(h)
  PROVE  LockIsHeld' /\ OwnFiles' /\ HeaderIsEarned'
<1> USE ViewHostConstants DEF TypeOK, Becomes, files
<1>1. CASE Lock(h)
  <2>1. LockIsHeld' BY <1>1 DEF Lock, LockIsHeld, Owning
  <2>2. OwnFiles'
    <3>1. \A i \in Hosts : host'[i] \in {"headed", "serving", "draining", "closing", "cleaning"}
            => host'[i] = host[i] /\ header' = header
      BY <1>1 DEF Lock, OwnFiles, HeaderOf, NoHeader
    <3> QED BY <1>1, <3>1 DEF Lock, OwnFiles
  <2>3. HeaderIsEarned' BY <1>1, HeaderKinds DEF Lock, HeaderIsEarned, LockIsHeld, Owning
  <2> QED BY <2>1, <2>2, <2>3
<1>2. CASE Truncate(h)
  <2>1. LockIsHeld' BY <1>2 DEF Truncate, LockIsHeld, Owning
  <2>2. OwnFiles' BY <1>2, OneOwner DEF Truncate, OwnFiles, Owning, HeaderOf, NoHeader, EmptyHeader
  <2>3. HeaderIsEarned' BY <1>2, HeaderKinds DEF Truncate, HeaderIsEarned, LockIsHeld, Owning
  <2> QED BY <2>1, <2>2, <2>3
<1>3. CASE WriteHeader(h)
  <2>1. LockIsHeld' BY <1>3 DEF WriteHeader, LockIsHeld, Owning
  <2>2. OwnFiles' BY <1>3, OneOwner DEF WriteHeader, OwnFiles, Owning, HeaderOf, NoHeader, EmptyHeader
  <2>3. HeaderIsEarned' BY <1>3, HeaderKinds DEF WriteHeader, HeaderIsEarned, HeaderOf, NoHeader, LockIsHeld, Owning
  <2> QED BY <2>1, <2>2, <2>3
<1>4. CASE Publish(h)
  <2>1. LockIsHeld' BY <1>4 DEF Publish, LockIsHeld, Owning
  <2>2. OwnFiles' BY <1>4, OneOwner DEF Publish, OwnFiles, Owning, HeaderOf, NoHeader, EmptyHeader
  <2>3. HeaderIsEarned' BY <1>4, HeaderKinds DEF Publish, HeaderIsEarned, LockIsHeld, Owning
  <2> QED BY <2>1, <2>2, <2>3
<1>5. CASE StartFails(h)
  <2>1. LockIsHeld' BY <1>5 DEF StartFails, LockIsHeld, Owning
  <2>2. OwnFiles' BY <1>5, OneOwner DEF StartFails, OwnFiles, Owning, HeaderOf, NoHeader, EmptyHeader
  <2>3. HeaderIsEarned' BY <1>5, HeaderKinds DEF StartFails, HeaderIsEarned, HeaderOf, NoHeader, LockIsHeld, Owning
  <2> QED BY <2>1, <2>2, <2>3
<1>6. CASE Retire(h) \/ Shut(h)
  <2>1. LockIsHeld' BY <1>6 DEF Retire, Shut, LockIsHeld, Owning
  <2>2. OwnFiles' BY <1>6 DEF Retire, Shut, OwnFiles
  <2>3. HeaderIsEarned' BY <1>6 DEF Retire, Shut, HeaderIsEarned
  <2> QED BY <2>1, <2>2, <2>3
<1>7. CASE TakeParent(h)
  <2>1. LockIsHeld' BY <1>7 DEF TakeParent, LockIsHeld, Owning
  <2>2. OwnFiles' BY <1>7, OneOwner DEF TakeParent, OwnFiles, Owning, HeaderOf, NoHeader, EmptyHeader
  <2>3. HeaderIsEarned' BY <1>7, HeaderKinds DEF TakeParent, HeaderIsEarned, LockIsHeld, Owning
  <2> QED BY <2>1, <2>2, <2>3
<1>8. CASE WriteEnd(h)
  <2>1. LockIsHeld' BY <1>8 DEF WriteEnd, LockIsHeld, Owning
  <2>2. OwnFiles' BY <1>8, OneOwner DEF WriteEnd, OwnFiles, Owning, HeaderOf, NoHeader, EmptyHeader
  <2>3. HeaderIsEarned' BY <1>8, HeaderKinds DEF WriteEnd, HeaderIsEarned, HeaderOf, NoHeader, LockIsHeld, Owning
  <2> QED BY <2>1, <2>2, <2>3
<1>9. CASE Exit(h) \/ Crash(h)
  <2>1. LockIsHeld' BY <1>9 DEF Exit, Crash, LockIsHeld, Owning
  <2>2. OwnFiles' BY <1>9, OneOwner DEF Exit, Crash, OwnFiles, Owning, HeaderOf, NoHeader, EmptyHeader
  <2>3. HeaderIsEarned' BY <1>9, HeaderKinds DEF Exit, Crash, HeaderIsEarned, LockIsHeld, Owning
  <2> QED BY <2>1, <2>2, <2>3
<1> QED BY <1>1, <1>2, <1>3, <1>4, <1>5, <1>6, <1>7, <1>8, <1>9 DEF HostNext

\* A client moves on, or ends with an outcome.
LEMMA MovesType ==
  ASSUME ClientType, NEW c \in Clients, NEW pc \in ClientStates, Moves(c, pc)
  PROVE  ClientType'
BY DEF ClientType, ClientRecords, Moves

LEMMA EndsType ==
  ASSUME ClientType, NEW c \in Clients, NEW o \in Outcomes, Ends(c, o)
  PROVE  ClientType'
<1> DEFINE new == [client[c] EXCEPT !.pc = "done", !.outcome = o]
<1>1. new \in ClientRecords BY ZenonT(60) DEF ClientType, ClientRecords, ClientStates
<1>2. client' = [client EXCEPT ![c] = new] BY DEF Ends, ClientType
<1> QED BY <1>1, <1>2 DEF ClientType

\* A record with some of its fields given other values of their types.
LEMMA ProbeType ==
  ASSUME NEW r \in ClientRecords, NEW i \in Hosts \union {None}, NEW d \in BOOLEAN
  PROVE  [r EXCEPT !.pc = "probe", !.info = i, !.drains = d] \in ClientRecords
<1>1. CASE d = TRUE BY <1>1 DEF ClientRecords, ClientStates
<1>2. CASE d = FALSE BY <1>2 DEF ClientRecords, ClientStates
<1> QED BY <1>1, <1>2

LEMMA ToldType ==
  ASSUME NEW r \in ClientRecords
  PROVE  [r EXCEPT !.pc = "wait", !.proving = TRUE] \in ClientRecords
BY DEF ClientRecords, ClientStates

\* A step of a client keeps the types.
LEMMA ClientTypes ==
  ASSUME TypeOK, ClientType, NEW c \in Clients, ClientNext(c)
  PROVE  TypeOK' /\ ClientType'
<1>1. TypeOK'
  BY ViewHostConstants
  DEF TypeOK, Owning, Becomes, Fault, files, ClientNext, Ask, TakeLock, Look, Ensure, Await, Bind,
      Stop, Tell, Prove, Deadline, ClientDies
<1>2. ClientType'
  <2> USE EndsType, MovesType DEF ClientStates, Outcomes
  <2>1. CASE Ask(c, "deliver") \/ Ask(c, "stop") BY <2>1 DEF Ask, ClientType, ClientRecords
  <2>2. CASE TakeLock(c)    BY <2>2 DEF TakeLock
  <2>3. CASE Look(c)
    <3> DEFINE drains == Answers(conn) /\ host[conn] = "draining"
    <3>1. PICK i \in Hosts \union {None}, d \in BOOLEAN :
            client' = [client EXCEPT ![c].pc = "probe", ![c].info = i, ![c].drains = d]
      <4>1. drains \in BOOLEAN OBVIOUS
      <4> QED BY <2>3, <4>1 DEF Look, TypeOK
    <3> DEFINE new == [client[c] EXCEPT !.pc = "probe", !.info = i, !.drains = d]
    <3>2. new \in ClientRecords BY ProbeType DEF ClientType
    <3>3. client' = [client EXCEPT ![c] = new] BY <3>1 DEF ClientType
    <3> QED BY <3>2, <3>3 DEF ClientType
  <2>4. CASE Ensure(c)      BY <2>4 DEF Ensure, ClientType, ClientRecords
  <2>5. CASE Await(c)       BY <2>5 DEF Await, ClientType, ClientRecords, TypeOK
  <2>6. CASE Bind(c)        BY <2>6 DEF Bind, ClientType, ClientRecords
  <2>7. CASE Stop(c)        BY <2>7 DEF Stop
  <2>8. CASE Tell(c)
    <3> DEFINE new == [client[c] EXCEPT !.pc = "wait", !.proving = TRUE]
    <3>1. new \in ClientRecords BY ToldType DEF ClientType
    <3>2. client' = [client EXCEPT ![c] = new] BY <2>8 DEF Tell, ClientType
    <3> QED BY <3>1, <3>2 DEF ClientType
  <2>9. CASE Prove(c)       BY <2>9 DEF Prove
  <2>10. CASE Deadline(c)   BY <2>10 DEF Deadline
  <2>11. CASE ClientDies(c) BY <2>11 DEF ClientDies
  <2> QED BY <2>1, <2>2, <2>3, <2>4, <2>5, <2>6, <2>7, <2>8, <2>9, <2>10, <2>11 DEF ClientNext
<1> QED BY <1>1, <1>2

\* A client touches neither the lock nor the files of a process, and moves a
\* process only from unborn to born or from serving to draining.
LEMMA ClientKeeps ==
  ASSUME TypeOK, ClientType, LockIsHeld, OwnFiles, HeaderIsEarned, NEW c \in Clients, ClientNext(c)
  PROVE  LockIsHeld' /\ OwnFiles' /\ HeaderIsEarned'
<1> USE DEF TypeOK, Owning, Becomes, files
<1>1. UNCHANGED <<owner, header, conn>>
  BY DEF ClientNext, Ask, TakeLock, Look, Ensure, Await, Bind, Stop, Tell, Prove, Deadline, ClientDies
<1>2. \A h \in Hosts : \/ host'[h] = host[h]
                       \/ host[h] = "unborn" /\ host'[h] = "born"
                       \/ host[h] = "serving" /\ host'[h] = "draining"
  BY DEF ClientNext, Ask, TakeLock, Look, Ensure, Await, Bind, Stop, Tell, Prove, Deadline, ClientDies
<1>3. LockIsHeld' BY <1>1, <1>2 DEF LockIsHeld
<1>4. OwnFiles' BY <1>1, <1>2 DEF OwnFiles
<1>5. HeaderIsEarned'
  BY <1>1, <1>2, HeaderKinds, OneOwner, ViewHostConstants DEF HeaderIsEarned
<1> QED BY <1>3, <1>4, <1>5

-----------------------------------------------------------------------------
\* A step preserves the invariant.
LEMMA InvStep == Inv /\ [Next]_vars => Inv'
<1> SUFFICES ASSUME Inv, [Next]_vars PROVE Inv'
  OBVIOUS
<1> USE DEF Inv
<1>1. ASSUME NEW h \in Hosts, HostNext(h) PROVE Inv'
  BY <1>1, HostTypes, HostKeeps
<1>2. ASSUME NEW c \in Clients, ClientNext(c) PROVE Inv'
  BY <1>2, ClientTypes, ClientKeeps
<1>3. CASE UNCHANGED vars
  BY <1>3 DEF vars, files, TypeOK, ClientType, LockIsHeld, OwnFiles, HeaderIsEarned
<1> QED BY <1>1, <1>2, <1>3 DEF Next

\* The invariant holds of every state.
THEOREM Correct == Spec => []Inv
BY InvInit, InvStep, PTL DEF Spec

\* Every state is of its type (TypeOK of ViewHost).
THEOREM TypeCorrect == Spec => []TypeOK
<1>1. Inv => TypeOK BY DEF Inv
<1> QED BY <1>1, Correct, PTL

\* One process at a time is the host of the directory, and while it serves the
\* address and the header are its own (plan_views.py, _view_server.py).
THEOREM OneHostAtATime == Spec => []OneHost
<1>1. Inv => OneHost
  BY OneOwner DEF Inv, OneHost, OwnFiles
<1> QED BY <1>1, Correct, PTL

\* What proves to a client that no process runs, does: the lock is free.
LEMMA ProofsHold ==
  ASSUME Inv
  PROVE  /\ Proven => owner = None
         /\ \A c \in Clients : ExitProven(c) /\ client[c].info # None =>
              owner = None /\ host[client[c].info] = "gone"
<1> USE DEF Inv
<1>1. Ownership = "released" => owner = None
  BY DEF Ownership
<1>2. Proven => owner = None
  BY <1>1, HeaderKinds DEF Proven, Ownership, HeaderIsEarned
<1>3. ASSUME NEW c \in Clients, ExitProven(c), client[c].info # None
      PROVE  owner = None /\ host[client[c].info] = "gone"
  <2>1. owner = None /\ header.of = client[c].info
    BY <1>1, <1>3 DEF ExitProven
  <2>2. header.of \in Hosts
    BY <1>3, <2>1, HeaderKinds
  <2> QED BY <2>1, <2>2, ViewHostConstants DEF HeaderIsEarned, LockIsHeld, TypeOK
<1> QED BY <1>2, <1>3

\* A client's step leaves the other clients alone.
LEMMA OthersStay ==
  ASSUME ClientType, NEW d \in Clients, ClientNext(d), NEW c \in Clients, c # d
  PROVE  client'[c] = client[c]
BY DEF ClientType, ClientNext, Ask, TakeLock, Look, Ensure, Await, Bind, Stop, Tell, Prove, Deadline,
       ClientDies, Moves, Ends

\* Only a stop and its proof end with "stopped".
LEMMA WhoSaysStopped ==
  ASSUME ClientType, NEW c \in Clients, ClientNext(c),
         client'[c].outcome = "stopped", client[c].outcome = "none"
  PROVE  \/ Stop(c) /\ client[c].info = None /\ Proven
         \/ Prove(c) /\ ExitProven(c)
<1> USE DEF ClientType, Moves, Ends
<1>1. ASSUME Ask(c, "deliver") \/ Ask(c, "stop") PROVE FALSE BY <1>1 DEF Ask, ClientRecords
<1>2. ASSUME TakeLock(c) PROVE FALSE BY <1>2 DEF TakeLock, ClientRecords
<1>3. ASSUME Look(c) PROVE FALSE BY <1>3 DEF Look, ClientRecords
<1>4. ASSUME Ensure(c) PROVE FALSE BY <1>4 DEF Ensure, ClientRecords
<1>5. ASSUME Await(c) PROVE FALSE BY <1>5 DEF Await, ClientRecords
<1>6. ASSUME Bind(c) PROVE FALSE BY <1>6 DEF Bind, ClientRecords
<1>7. ASSUME Tell(c) PROVE FALSE BY <1>7 DEF Tell, ClientRecords
<1>8. ASSUME Deadline(c) PROVE FALSE BY <1>8 DEF Deadline, ClientRecords
<1>9. ASSUME ClientDies(c) PROVE FALSE BY <1>9 DEF ClientDies, ClientRecords
<1>10. CASE Stop(c) BY <1>10 DEF Stop, ClientRecords
<1>11. CASE Prove(c) BY <1>11 DEF Prove, ClientRecords
<1> QED BY <1>1, <1>2, <1>3, <1>4, <1>5, <1>6, <1>7, <1>8, <1>9, <1>10, <1>11 DEF ClientNext

\* "stopped" is said only when no process owns the directory, and of an
\* instance that was told to stop only when its process is gone (stop_host).
THEOREM StoppedIsTrue == Spec => StoppedIsReal
<1>1. Inv /\ [Next]_vars => [StoppedIsRealStep]_vars
  <2> SUFFICES ASSUME Inv, Next, NEW c \in Clients, client'[c].outcome = "stopped", client[c].outcome = "none"
               PROVE  owner = None /\ (client[c].info # None => host[client[c].info] = "gone")
    BY DEF StoppedIsRealStep
  <2>1. ASSUME NEW h \in Hosts, HostNext(h) PROVE client' = client
    BY <2>1 DEF HostNext, Lock, Truncate, WriteHeader, Publish, StartFails, Retire, Shut, TakeParent,
                WriteEnd, Exit, Crash
  <2>2. ClientNext(c)
    BY <2>1, OthersStay DEF Next, Inv
  <2>3. \/ client[c].info = None /\ Proven
        \/ ExitProven(c)
    BY <2>2, WhoSaysStopped DEF Inv
  <2> QED BY <2>3, ProofsHold DEF ExitProven, Ownership
<1> QED BY <1>1, Correct, PTL DEF Spec, StoppedIsReal

-----------------------------------------------------------------------------
(* The contexts inside: the constants, and the counts under both names. *)

ContextsGiven ==
  /\ IsFiniteSet(Works) /\ IsFiniteSet(Requests)
  /\ {Slots, MaxWaiters, MaxSaves, MaxArrivals} \subseteq Nat

\* The standard module is reached in two ways.
LEMMA SameCounts == \A S : V!Cardinality(S) = Cardinality(S) /\ (V!IsFiniteSet(S) <=> IsFiniteSet(S))
BY DEF V!Cardinality, Cardinality, V!IsFiniteSet, IsFiniteSet

LEMMA GivenContexts == V!ContextConstants => ContextsGiven
BY SameCounts DEF V!ContextConstants, ContextsGiven

LEMMA PlacesAre ==
  \A w :
    /\ V!Available(w) <=> w \notin active /\ Cardinality(active) < Slots
    /\ V!Victim(w) = IF w \in V!Contexts \/ Cardinality(V!Contexts) < Slots THEN {}
                     ELSE {v \in V!Contexts \ active : read[v] \intersect (V!Contexts \ active) = {}}
    /\ V!Fits(w) <=> w \in V!Contexts \/ Cardinality(V!Contexts \ V!Victim(w)) < Slots
<1> TAKE w
<1>1. V!Available(w) <=> w \notin active /\ Cardinality(active) < Slots
  BY SameCounts DEF V!Available
<1>2. V!Victim(w) = IF w \in V!Contexts \/ Cardinality(V!Contexts) < Slots THEN {}
                   ELSE {v \in V!Contexts \ active : read[v] \intersect (V!Contexts \ active) = {}}
  BY SameCounts DEF V!Victim
<1>3. V!Fits(w) <=> w \in V!Contexts \/ Cardinality(V!Contexts \ V!Victim(w)) < Slots
  BY SameCounts DEF V!Fits
<1> QED BY <1>1, <1>2, <1>3

-----------------------------------------------------------------------------
(* The invariant of the contexts, part by part. *)

ContextRows == [kind : {"none", "reserved", "built"}, rev : Nat, closed : BOOLEAN]

RequestRows ==
  [pc : {"idle", "check", "gate", "waiting"} \union V!Inside, work : Works \union {None}, rev : Nat,
   bind : BOOLEAN, waiting : BOOLEAN, held : ContextRows, from : ContextRows]

ContextTypes ==
  /\ saved \in [Works -> [rev : Nat, closed : BOOLEAN]]
  /\ ctx \in [Works -> ContextRows]
  /\ active \subseteq Works /\ stale \subseteq Works
  /\ req \in [Requests -> RequestRows]
  /\ serving \in {"accepting", "draining", "closing", "down"}
  /\ cut \in Nat

\* last_read orders the Works it has.
ReadInOrder ==
  /\ DOMAIN read \subseteq Works
  /\ read \in [DOMAIN read -> SUBSET DOMAIN read]
  /\ \A w \in DOMAIN read : w \notin read[w] /\ \A v \in read[w] : read[v] \subseteq read[w]

\* No more contexts than places; what is not in use has been read.
TableFits ==
  /\ Cardinality(V!Contexts) <= Slots /\ active \subseteq V!Contexts
  /\ DOMAIN read \subseteq V!Contexts /\ V!Contexts \ active \subseteq DOMAIN read

\* What a request relies on.
RowFits(r) ==
  /\ req[r].pc = "idle" => req[r] = V!Idle
  /\ req[r].pc # "idle" => req[r].work \in Works
  /\ req[r].pc = "waiting" => req[r].waiting
  /\ req[r].waiting => req[r].pc \in {"gate", "waiting"}
  /\ req[r].pc \in V!Inside => req[r].work \in active
  /\ req[r].pc \in {"load", "answer", "leave"} => ctx[req[r].work] = req[r].held
  /\ req[r].pc = "answer" => req[r].from.rev = req[r].rev

OneReader ==
  /\ \A r, s \in Requests : req[r].pc \in V!Inside /\ req[s].pc \in V!Inside /\ req[r].work = req[s].work => r = s
  /\ \A w \in active : \E r \in Requests : req[r].pc \in V!Inside /\ req[r].work = w

Pins(row) == row.pc \in V!Inside \/ (row.bind /\ row.pc # "idle")
Pinned == {r \in Requests : Pins(req[r])}
Queued == {r \in Requests : req[r].waiting}

Counted ==
  /\ inflight = Cardinality(Pinned)
  /\ waiters = Cardinality(Queued) /\ waiters <= MaxWaiters

\* Who waits has no place to take: its Work is being read, or all places are.
Woken(r) ==
  req[r].pc = "waiting" =>
    serving = "accepting" /\ (req[r].work \in active \/ Slots <= Cardinality(active))

Departs ==
  /\ serving = "draining" => reason = "explicit_stop"
  /\ serving \in {"closing", "down"} => (reason = "idle_timeout" => inflight = 0) /\ inflight <= cut

ContextInv ==
  /\ ContextTypes /\ ReadInOrder /\ TableFits /\ (\A r \in Requests : RowFits(r))
  /\ OneReader /\ Counted /\ (\A r \in Requests : Woken(r)) /\ Departs

-----------------------------------------------------------------------------
(* Counting. *)

\* Of two sets that differ in one element at most.
LEMMA CountedByOne ==
  ASSUME NEW S, IsFiniteSet(S), NEW P \in SUBSET S, NEW Q \in SUBSET S, NEW r \in S,
         Q \ {r} = P \ {r}
  PROVE  /\ Cardinality(P) \in Nat /\ Cardinality(Q) \in Nat
         /\ (r \in P <=> r \in Q) => Cardinality(Q) = Cardinality(P)
         /\ r \in Q /\ r \notin P => Cardinality(Q) = Cardinality(P) + 1
         /\ r \in P /\ r \notin Q => Cardinality(Q) = Cardinality(P) - 1
<1>1. IsFiniteSet(P) /\ IsFiniteSet(Q)
  BY FS_Subset
<1>2. Cardinality(P) \in Nat /\ Cardinality(Q) \in Nat
  BY <1>1, FS_CardinalityType
<1>3. (r \in P <=> r \in Q) => Q = P
  OBVIOUS
<1>4. ASSUME r \in Q, r \notin P PROVE Cardinality(Q) = Cardinality(P) + 1
  <2>1. Q = P \union {r}
    BY <1>4
  <2> QED BY <1>1, <1>4, <2>1, FS_AddElement
<1>5. ASSUME r \in P, r \notin Q PROVE Cardinality(Q) = Cardinality(P) - 1
  <2>1. Q = P \ {r}
    BY <1>5
  <2> QED BY <1>1, <1>2, <1>5, <2>1, FS_RemoveElement
<1> QED BY <1>2, <1>3, <1>4, <1>5

\* A part of a finite set is finite and not larger.
LEMMA PartCount ==
  ASSUME NEW S, IsFiniteSet(S), NEW P \in SUBSET S
  PROVE  /\ IsFiniteSet(P) /\ Cardinality(P) \in Nat /\ Cardinality(S) \in Nat
         /\ Cardinality(P) <= Cardinality(S)
         /\ P # S => Cardinality(P) < Cardinality(S)
BY FS_Subset, FS_CardinalityType

-----------------------------------------------------------------------------
(* Who makes room. *)

LEMMA SomeLeast ==
  ASSUME NEW T \in SUBSET Nat, T # {}
  PROVE  \E m \in T : \A k \in T : m <= k
<1>1. PICK m \in T : \A k \in T : <<k, m>> \notin OpToRel(<, Nat)
  BY NatLessThanWellFounded, WFMin
<1>2. ASSUME NEW k \in T PROVE m <= k
  <2>1. k \in Nat /\ m \in Nat
    OBVIOUS
  <2>2. ~(k < m)
    BY <1>1, <2>1 DEF OpToRel
  <2> QED BY <2>1, <2>2
<1> QED BY <1>2

\* Of any Works with a last_read, one was read before all others.
LEMMA SomeOldest ==
  ASSUME ContextsGiven, ReadInOrder, NEW W \in SUBSET DOMAIN read, W # {}
  PROVE  \E v \in W : read[v] \intersect W = {}
<1> DEFINE size(v) == Cardinality(read[v] \intersect W)
           T == {size(v) : v \in W}
<1>1. IsFiniteSet(DOMAIN read)
  BY FS_Subset DEF ContextsGiven, ReadInOrder
<1>2. IsFiniteSet(W)
  BY <1>1, FS_Subset
<1>3. \A v \in W : IsFiniteSet(read[v] \intersect W) /\ size(v) \in Nat
  <2> TAKE v \in W
  <2>1. read[v] \intersect W \in SUBSET W
    OBVIOUS
  <2> QED BY <1>2, <2>1, PartCount
<1>4. T \in SUBSET Nat /\ T # {}
  BY <1>3
<1>5. PICK m \in T : \A k \in T : m <= k
  BY <1>4, SomeLeast
<1>6. PICK v \in W : m = size(v)
  BY <1>5
<1>7. ASSUME NEW u \in read[v] \intersect W PROVE FALSE
  <2>1. read[u] \intersect W \subseteq read[v] \intersect W /\ u \notin read[u]
    BY DEF ReadInOrder
  <2>2. read[u] \intersect W # read[v] \intersect W
    BY <2>1
  <2>3. size(u) < size(v)
    BY <1>3, <2>1, <2>2, PartCount
  <2>4. m <= size(u) /\ size(u) \in Nat /\ size(v) \in Nat
    BY <1>3, <1>5
  <2> QED BY <1>6, <2>3, <2>4
<1> QED BY <1>7

LEMMA VictimIsIdle == \A w : V!Victim(w) \subseteq V!Contexts \ active
BY PlacesAre

\* A place that is not in use can be had: some context makes room.
LEMMA AvailableFits ==
  ASSUME ContextsGiven, ReadInOrder, TableFits, NEW w \in Works, V!Available(w)
  PROVE  V!Fits(w)
<1> SUFFICES ASSUME w \notin V!Contexts, ~(Cardinality(V!Contexts) < Slots)
             PROVE  Cardinality(V!Contexts \ V!Victim(w)) < Slots
  <2>1. w \notin V!Contexts /\ Cardinality(V!Contexts) < Slots => V!Victim(w) = {}
    BY PlacesAre
  <2>2. w \notin V!Contexts /\ Cardinality(V!Contexts) < Slots => V!Contexts \ V!Victim(w) = V!Contexts
    BY <2>1
  <2> QED BY <2>2, PlacesAre
<1>1. IsFiniteSet(V!Contexts)
  BY FS_Subset DEF ContextsGiven, V!Contexts
<1>2. /\ Cardinality(V!Contexts) \in Nat /\ Cardinality(active) \in Nat /\ Slots \in Nat
      /\ Cardinality(active) < Slots
  BY <1>1, PartCount, FS_CardinalityType, PlacesAre DEF TableFits, ContextsGiven
<1>3. V!Contexts \ active # {}
  <2>1. active # V!Contexts
    BY <1>2
  <2> QED BY <2>1 DEF TableFits
<1>4. PICK v \in V!Contexts \ active : read[v] \intersect (V!Contexts \ active) = {}
  <2>1. V!Contexts \ active \in SUBSET DOMAIN read
    BY DEF TableFits
  <2> QED BY <1>3, <2>1, SomeOldest
<1>5. v \in V!Victim(w)
  BY <1>4, PlacesAre
<1>6. V!Contexts \ V!Victim(w) \in SUBSET V!Contexts /\ V!Contexts \ V!Victim(w) # V!Contexts
  BY <1>4, <1>5
<1>7. Cardinality(V!Contexts \ V!Victim(w)) < Cardinality(V!Contexts) /\ Cardinality(V!Contexts \ V!Victim(w)) \in Nat
  BY <1>1, <1>6, PartCount
<1>8. Cardinality(V!Contexts) <= Slots
  BY DEF TableFits
<1> QED BY <1>2, <1>7, <1>8

\* What is dropped is forgotten, what is kept stays in its order.
LEMMA ForgottenInOrder ==
  ASSUME ReadInOrder, NEW W
  PROVE  /\ DOMAIN V!Forgotten(W) = DOMAIN read \ W /\ DOMAIN V!Forgotten(W) \subseteq Works
         /\ V!Forgotten(W) \in [DOMAIN V!Forgotten(W) -> SUBSET DOMAIN V!Forgotten(W)]
         /\ \A w \in DOMAIN V!Forgotten(W) :
              w \notin V!Forgotten(W)[w] /\ \A v \in V!Forgotten(W)[w] : V!Forgotten(W)[v] \subseteq V!Forgotten(W)[w]
<1>1. DOMAIN V!Forgotten(W) = DOMAIN read \ W
  BY DEF V!Forgotten
<1>2. \A w \in DOMAIN read \ W : V!Forgotten(W)[w] = read[w] \ W
  BY DEF V!Forgotten
<1>3. \A w \in DOMAIN read : read[w] \subseteq DOMAIN read
  BY DEF ReadInOrder
<1>4. V!Forgotten(W) \in [DOMAIN read \ W -> SUBSET (DOMAIN read \ W)]
  BY <1>3 DEF V!Forgotten
<1> QED BY <1>1, <1>2, <1>3, <1>4 DEF ReadInOrder

LEMMA LatestInOrder ==
  ASSUME ReadInOrder, NEW w \in Works
  PROVE  /\ DOMAIN V!Latest(w) = DOMAIN read \union {w} /\ DOMAIN V!Latest(w) \subseteq Works
         /\ V!Latest(w) \in [DOMAIN V!Latest(w) -> SUBSET DOMAIN V!Latest(w)]
         /\ \A v \in DOMAIN V!Latest(w) :
              v \notin V!Latest(w)[v] /\ \A u \in V!Latest(w)[v] : V!Latest(w)[u] \subseteq V!Latest(w)[v]
<1>1. DOMAIN V!Latest(w) = DOMAIN read \union {w}
  BY DEF V!Latest
<1>2. /\ V!Latest(w)[w] = DOMAIN read \ {w}
      /\ \A v \in DOMAIN read \ {w} : V!Latest(w)[v] = read[v] \ {w}
  BY DEF V!Latest
<1>3. \A v \in DOMAIN read : read[v] \subseteq DOMAIN read
  BY DEF ReadInOrder
<1>4. V!Latest(w) \in [DOMAIN read \union {w} -> SUBSET (DOMAIN read \union {w})]
  BY <1>3 DEF V!Latest
<1>5. \A v \in DOMAIN V!Latest(w) : \A u \in V!Latest(w)[v] : u \in DOMAIN read \ {w}
  BY <1>1, <1>2, <1>3
<1>6. ASSUME NEW v \in DOMAIN V!Latest(w), NEW u \in V!Latest(w)[v] PROVE V!Latest(w)[u] \subseteq V!Latest(w)[v]
  <2>1. u \in DOMAIN read \ {w} /\ V!Latest(w)[u] = read[u] \ {w}
    BY <1>2, <1>5, <1>6
  <2>2. CASE v = w
    BY <1>2, <1>3, <2>1, <2>2
  <2>3. CASE v # w
    <3>1. v \in DOMAIN read \ {w} /\ V!Latest(w)[v] = read[v] \ {w}
      BY <1>1, <1>2, <2>3
    <3> QED BY <1>6, <2>1, <3>1 DEF ReadInOrder
  <2> QED BY <2>2, <2>3
<1>7. ASSUME NEW v \in DOMAIN V!Latest(w) PROVE v \notin V!Latest(w)[v]
  BY <1>1, <1>2 DEF ReadInOrder
<1> QED BY <1>1, <1>4, <1>6, <1>7 DEF ReadInOrder

\* The contexts after some were dropped.
LEMMA DroppedContexts ==
  ASSUME ctx \in [Works -> ContextRows], NEW W
  PROVE  /\ V!Dropped(W) \in [Works -> ContextRows]
         /\ \A w \in Works : V!Dropped(W)[w] = IF w \in W THEN V!NoContext ELSE ctx[w]
         /\ {w \in Works : V!Dropped(W)[w] # V!NoContext} = V!Contexts \ W
<1>1. \A w \in Works : V!Dropped(W)[w] = IF w \in W THEN V!NoContext ELSE ctx[w]
  BY DEF V!Dropped
<1>2. V!Dropped(W) \in [Works -> ContextRows]
  BY DEF V!Dropped, V!NoContext, ContextRows
<1> QED BY <1>1, <1>2 DEF V!Contexts

-----------------------------------------------------------------------------
(* Steps of one request. *)

\* The others stay, or wake up to look again; what they read from stays theirs.
Stays(s) ==
  req'[s] = req[s] \/ (req[s].pc = "waiting" /\ req'[s] = [req[s] EXCEPT !.pc = "gate"])

Spares(r) ==
  \A s \in Requests \ {r} :
    /\ Stays(s)
    /\ req[s].pc \in V!Inside => req[s].work \in active' /\ ctx'[req[s].work] = ctx[req[s].work]

\* Where a request that stays is afterwards.
LEMMA StayingIs ==
  ASSUME NEW s \in Requests, req[s] \in RequestRows, Stays(s)
  PROVE  /\ req'[s] \in RequestRows
         /\ req'[s].pc = req[s].pc \/ (req[s].pc = "waiting" /\ req'[s].pc = "gate")
         /\ req'[s].work = req[s].work /\ req'[s].rev = req[s].rev /\ req'[s].bind = req[s].bind
         /\ req'[s].waiting = req[s].waiting /\ req'[s].held = req[s].held /\ req'[s].from = req[s].from
         /\ req'[s].pc \in V!Inside <=> req[s].pc \in V!Inside
         /\ Pins(req'[s]) <=> Pins(req[s])
         /\ req[s] = V!Idle => req'[s] = V!Idle
<1>1. CASE req'[s] = req[s]
  BY <1>1
<1>2. CASE req[s].pc = "waiting" /\ req'[s] = [req[s] EXCEPT !.pc = "gate"]
  BY <1>2 DEF RequestRows, Pins, V!Inside, V!Idle
<1> QED BY <1>1, <1>2 DEF Stays

Count(b) == IF b THEN 1 ELSE 0

LEMMA OthersFit ==
  ASSUME ContextInv, NEW r \in Requests, Spares(r)
  PROVE  \A s \in Requests \ {r} : RowFits(s)'
<1> SUFFICES ASSUME NEW s \in Requests \ {r} PROVE RowFits(s)'
  OBVIOUS
<1>1. req[s] \in RequestRows /\ RowFits(s)
  BY DEF ContextInv, ContextTypes
<1>2. Stays(s) /\ (req[s].pc \in V!Inside => req[s].work \in active' /\ ctx'[req[s].work] = ctx[req[s].work])
  BY DEF Spares
<1>3. CASE req'[s] = req[s]
  BY <1>1, <1>2, <1>3 DEF RowFits, V!Inside
<1>4. CASE req[s].pc = "waiting" /\ req'[s] = [req[s] EXCEPT !.pc = "gate"]
  BY <1>1, <1>4 DEF RowFits, RequestRows, V!Inside
<1> QED BY <1>2, <1>3, <1>4 DEF Stays

\* What suffices for a step of one request to keep the invariant.
LEMMA RequestStepKeeps ==
  ASSUME ContextsGiven, ContextInv, NEW r \in Requests, Spares(r),
         ContextTypes', ReadInOrder', TableFits', RowFits(r)', Woken(r)', UNCHANGED V!service,
         \A s \in Requests \ {r} : req'[s].pc = "waiting" => active \subseteq active',
         req'[r].pc \in V!Inside => req'[r].work \in Works,
         \A w \in Works : w \in active' <=>
            \/ w \in active /\ ~(req[r].pc \in V!Inside /\ w = req[r].work)
            \/ req'[r].pc \in V!Inside /\ w = req'[r].work,
         req[r].pc \in V!Inside /\ req'[r].pc \in V!Inside => req'[r].work = req[r].work,
         req[r].pc \notin V!Inside /\ req'[r].pc \in V!Inside => req'[r].work \notin active,
         inflight' = inflight + Count(Pins(req'[r])) - Count(Pins(req[r])),
         waiters' = waiters + Count(req'[r].waiting) - Count(req[r].waiting),
         waiters' <= MaxWaiters,
         serving # "accepting" => inflight' <= inflight
  PROVE  ContextInv'
<1> DEFINE Here(s) == req[s].pc \in V!Inside
<1>1. \A s \in Requests : RowFits(s)'
  BY OthersFit
<1>2. \A s \in Requests \ {r} :
        /\ (Here(s)' <=> Here(s)) /\ req'[s].work = req[s].work /\ req'[s].waiting = req[s].waiting
        /\ (Pins(req'[s]) <=> Pins(req[s]))
        /\ req'[s].pc = "waiting" => req[s].pc = "waiting"
  <2> TAKE s \in Requests \ {r}
  <2>1. Stays(s) /\ req[s] \in RequestRows
    BY DEF Spares, ContextInv, ContextTypes
  <2> QED BY <2>1, StayingIs
<1>3. \A s \in Requests : Here(s) => req[s].work \in active /\ req[s].work \in Works
  BY DEF ContextInv, RowFits, ContextTypes
<1>4. \A s, t \in Requests : Here(s)' /\ Here(t)' /\ req'[s].work = req'[t].work => s = t
  <2> SUFFICES ASSUME NEW s \in Requests, NEW t \in Requests, Here(s)', Here(t)', req'[s].work = req'[t].work, s # t
               PROVE  FALSE
    OBVIOUS
  <2>1. CASE s # r /\ t # r
    BY <1>2, <2>1 DEF ContextInv, OneReader
  <2>2. CASE s = r \/ t = r
    <3>1. PICK o \in Requests \ {r} : Here(o) /\ req[o].work = req'[r].work /\ Here(r)'
      BY <1>2, <2>2
    <3>2. CASE Here(r)
      BY <3>1, <3>2 DEF ContextInv, OneReader
    <3>3. CASE ~Here(r)
      BY <1>3, <3>1, <3>3
    <3> QED BY <3>2, <3>3
  <2> QED BY <2>1, <2>2
<1>5. ASSUME NEW w \in active' PROVE \E s \in Requests : Here(s)' /\ req'[s].work = w
  <2>1. w \in Works
    BY DEF ContextTypes
  <2>2. CASE w \in active /\ ~(Here(r) /\ w = req[r].work)
    <3>1. PICK s \in Requests : Here(s) /\ req[s].work = w
      BY <2>2 DEF ContextInv, OneReader
    <3> QED BY <1>2, <2>2, <3>1
  <2>3. CASE Here(r)' /\ w = req'[r].work
    BY <2>3
  <2> QED BY <2>1, <2>2, <2>3
<1>6. Counted'
  <2>1. IsFiniteSet(Requests)
    BY DEF ContextsGiven
  <2>2. /\ Pinned \in SUBSET Requests /\ Pinned' \in SUBSET Requests
        /\ Queued \in SUBSET Requests /\ Queued' \in SUBSET Requests
    BY DEF Pinned, Queued
  <2>3. Pinned' \ {r} = Pinned \ {r} /\ Queued' \ {r} = Queued \ {r}
    BY <1>2 DEF Pinned, Queued
  <2>4. /\ r \in Pinned <=> Pins(req[r])
        /\ r \in Pinned' <=> Pins(req'[r])
        /\ r \in Queued <=> req[r].waiting
        /\ r \in Queued' <=> req'[r].waiting
    BY DEF Pinned, Queued
  <2>5. Cardinality(Pinned') = Cardinality(Pinned) + Count(Pins(req'[r])) - Count(Pins(req[r]))
    <3>1. /\ Cardinality(Pinned) \in Nat
          /\ (r \in Pinned <=> r \in Pinned') => Cardinality(Pinned') = Cardinality(Pinned)
          /\ r \in Pinned' /\ r \notin Pinned => Cardinality(Pinned') = Cardinality(Pinned) + 1
          /\ r \in Pinned /\ r \notin Pinned' => Cardinality(Pinned') = Cardinality(Pinned) - 1
      BY <2>1, <2>2, <2>3, CountedByOne
    <3> QED BY <2>4, <3>1 DEF Count
  <2>6. Cardinality(Queued') = Cardinality(Queued) + Count(req'[r].waiting) - Count(req[r].waiting)
    <3>1. /\ Cardinality(Queued) \in Nat
          /\ (r \in Queued <=> r \in Queued') => Cardinality(Queued') = Cardinality(Queued)
          /\ r \in Queued' /\ r \notin Queued => Cardinality(Queued') = Cardinality(Queued) + 1
          /\ r \in Queued /\ r \notin Queued' => Cardinality(Queued') = Cardinality(Queued) - 1
      BY <2>1, <2>2, <2>3, CountedByOne
    <3> QED BY <2>4, <3>1 DEF Count
  <2>7. inflight = Cardinality(Pinned) /\ waiters = Cardinality(Queued)
    BY DEF ContextInv, Counted
  <2> QED BY <2>5, <2>6, <2>7 DEF Counted
<1>7. \A s \in Requests : Woken(s)'
  <2> SUFFICES ASSUME NEW s \in Requests \ {r}, req'[s].pc = "waiting"
               PROVE  serving' = "accepting" /\ (req'[s].work \in active' \/ Slots <= Cardinality(active'))
    BY DEF Woken
  <2>1. active \subseteq active' /\ req[s].pc = "waiting" /\ req'[s].work = req[s].work
    BY <1>2
  <2>2. serving = "accepting" /\ (req[s].work \in active \/ Slots <= Cardinality(active))
    BY <2>1 DEF ContextInv, Woken
  <2>3. Cardinality(active) <= Cardinality(active') /\ Cardinality(active) \in Nat /\ Cardinality(active') \in Nat /\ Slots \in Nat
    <3>1. IsFiniteSet(active')
      BY FS_Subset DEF ContextsGiven, ContextTypes
    <3> QED BY <2>1, <3>1, PartCount DEF ContextsGiven
  <2> QED BY <2>1, <2>2, <2>3 DEF V!service
<1>8. Departs'
  <2>1. Cardinality(Pinned) \in Nat /\ Cardinality(Pinned') \in Nat
    BY PartCount DEF Pinned, ContextsGiven
  <2>2. inflight \in Nat /\ inflight' \in Nat /\ cut \in Nat
    BY <1>6, <2>1 DEF ContextInv, Counted, ContextTypes
  <2>3. serving' = serving /\ reason' = reason /\ cut' = cut
    BY DEF V!service
  <2>4. serving \in {"closing", "down"} => inflight' <= inflight
    OBVIOUS
  <2> QED BY <2>2, <2>3, <2>4 DEF ContextInv, Departs
<1>9. OneReader'
  BY <1>4, <1>5 DEF OneReader
<1> QED BY <1>1, <1>6, <1>7, <1>8, <1>9 DEF ContextInv

\* One row changes, and the waiting threads may be told.
LEMMA RowChanges ==
  ASSUME req \in [Requests -> RequestRows], NEW r \in Requests, NEW row \in RequestRows,
         \/ req' = [req EXCEPT ![r] = row]
         \/ req' = V!Notified([req EXCEPT ![r] = row]) /\ row.pc # "waiting"
  PROVE  /\ req' \in [Requests -> RequestRows] /\ req'[r] = row
         /\ \A s \in Requests \ {r} : Stays(s)
         /\ req' = V!Notified([req EXCEPT ![r] = row]) => \A s \in Requests : req'[s].pc # "waiting"
<1>1. CASE req' = [req EXCEPT ![r] = row]
  <2>1. req' \in [Requests -> RequestRows] /\ req'[r] = row /\ \A s \in Requests \ {r} : req'[s] = req[s]
    BY <1>1
  <2>2. req' = V!Notified(req') => \A s \in Requests : req'[s].pc # "waiting"
    <3> SUFFICES ASSUME req' = V!Notified(req'), NEW s \in Requests, req'[s].pc = "waiting" PROVE FALSE
      OBVIOUS
    <3>1. req'[s] = [req'[s] EXCEPT !.pc = "gate"]
      BY DEF V!Notified
    <3> QED BY <2>1, <3>1 DEF RequestRows
  <2> QED BY <1>1, <2>1, <2>2 DEF Stays
<1>2. CASE req' = V!Notified([req EXCEPT ![r] = row]) /\ row.pc # "waiting"
  <2> DEFINE q == [req EXCEPT ![r] = row]
  <2>1. q[r] = row /\ \A s \in Requests \ {r} : q[s] = req[s]
    OBVIOUS
  <2> HIDE DEF q
  <2>2. req' = [s \in Requests |-> IF q[s].pc = "waiting" THEN [q[s] EXCEPT !.pc = "gate"] ELSE q[s]]
    BY <1>2 DEF V!Notified, q
  <2>3. req'[r] = row /\ \A s \in Requests \ {r} : Stays(s)
    BY <1>2, <2>1, <2>2 DEF Stays
  <2>4. \A s \in Requests : q[s] \in RequestRows
    BY <2>1
  <2>5. ASSUME NEW s \in Requests PROVE req'[s] \in RequestRows /\ req'[s].pc # "waiting"
    <3>1. CASE q[s].pc = "waiting"
      <4>1. req'[s] = [q[s] EXCEPT !.pc = "gate"]
        BY <2>2, <3>1
      <4> QED BY <2>4, <4>1 DEF RequestRows
    <3>2. CASE q[s].pc # "waiting"
      BY <2>2, <2>4, <3>2
    <3> QED BY <3>1, <3>2
  <2> QED BY <2>2, <2>3, <2>5
<1> QED BY <1>1, <1>2

\* A step of one request that leaves the contexts and the service as they are.
LEMMA PlainStepKeeps ==
  ASSUME ContextsGiven, ContextInv, NEW r \in Requests, NEW row \in RequestRows,
         \/ req' = [req EXCEPT ![r] = row]
         \/ req' = V!Notified([req EXCEPT ![r] = row]) /\ row.pc # "waiting",
         UNCHANGED <<saved, V!table, V!service>>,
         row.pc \in V!Inside <=> req[r].pc \in V!Inside,
         row.pc \in V!Inside => row.work = req[r].work,
         RowFits(r)', Woken(r)',
         inflight' = inflight + Count(Pins(row)) - Count(Pins(req[r])),
         waiters' = waiters + Count(row.waiting) - Count(req[r].waiting), waiters' <= MaxWaiters,
         serving # "accepting" => inflight' <= inflight
  PROVE  ContextInv'
<1>1. /\ req' \in [Requests -> RequestRows] /\ req'[r] = row
      /\ \A s \in Requests \ {r} : Stays(s)
  <2>1. req \in [Requests -> RequestRows]
    BY DEF ContextInv, ContextTypes
  <2> QED BY <2>1, RowChanges
<1>2. /\ ctx' = ctx /\ read' = read /\ stale' = stale /\ active' = active /\ saved' = saved
      /\ serving' = serving /\ cut' = cut
  BY DEF V!table, V!service
<1>3. V!Contexts' = V!Contexts
  BY <1>2 DEF V!Contexts
<1>4. ContextTypes' /\ ReadInOrder' /\ TableFits'
  BY <1>1, <1>2, <1>3 DEF ContextInv, ContextTypes, ReadInOrder, TableFits
<1>5. \A s \in Requests : req[s].pc \in V!Inside => req[s].work \in active /\ req[s].work \in Works
  BY DEF ContextInv, RowFits, ContextTypes
<1>6. Spares(r)
  BY <1>1, <1>2, <1>5 DEF Spares
<1>7. /\ req[r].pc \in V!Inside \/ req'[r].pc \in V!Inside => req'[r].work \in Works
      /\ req[r].pc \in V!Inside /\ req'[r].pc \in V!Inside => req'[r].work = req[r].work
      /\ ~(req[r].pc \notin V!Inside /\ req'[r].pc \in V!Inside)
  BY <1>1, <1>5
<1>8. \A w \in Works : w \in active' <=>
         \/ w \in active /\ ~(req[r].pc \in V!Inside /\ w = req[r].work)
         \/ req'[r].pc \in V!Inside /\ w = req'[r].work
  BY <1>1, <1>2, <1>5
<1>9. /\ inflight' = inflight + Count(Pins(req'[r])) - Count(Pins(req[r]))
      /\ waiters' = waiters + Count(req'[r].waiting) - Count(req[r].waiting)
  BY <1>1
<1>10. \A s \in Requests \ {r} : req'[s].pc = "waiting" => active \subseteq active'
  BY <1>2
<1>11. UNCHANGED V!service
  OBVIOUS
<1> QED BY <1>4, <1>6, <1>7, <1>8, <1>9, <1>10, <1>11, RequestStepKeeps

LEMMA NumbersAre ==
  ASSUME ContextsGiven, ContextInv
  PROVE  /\ inflight \in Nat /\ waiters \in Nat /\ MaxWaiters \in Nat /\ waiters <= MaxWaiters
         /\ Slots \in Nat /\ Cardinality(active) \in Nat
<1>1. Cardinality(Pinned) \in Nat /\ Cardinality(Queued) \in Nat
  BY PartCount DEF Pinned, Queued, ContextsGiven
<1>2. Cardinality(active) \in Nat
  BY PartCount DEF ContextsGiven, ContextInv, ContextTypes
<1> QED BY <1>1, <1>2 DEF ContextInv, Counted, ContextsGiven

LEMMA IdleRow ==
  /\ V!Idle \in RequestRows /\ V!Idle.pc = "idle" /\ ~V!Idle.waiting /\ ~V!Idle.bind /\ ~Pins(V!Idle)
BY DEF V!Idle, RequestRows, V!NoContext, ContextRows, Pins, V!Inside

\* A request ends that has no place.
LEMMA EndKeeps ==
  ASSUME ContextsGiven, ContextInv, NEW r \in Requests, req[r].pc \in {"check", "gate", "waiting"},
         req' = (IF req[r].bind THEN V!Notified(V!Ends(r)) ELSE V!Ends(r)),
         inflight' = V!Unpinned(r), waiters' = V!Leaves(r), UNCHANGED <<saved, V!table, V!service>>
  PROVE  ContextInv'
<1>1. /\ V!Idle \in RequestRows /\ V!Idle.pc = "idle" /\ ~V!Idle.waiting /\ ~Pins(V!Idle)
  BY IdleRow
<1>2. \/ req' = [req EXCEPT ![r] = V!Idle]
      \/ req' = V!Notified([req EXCEPT ![r] = V!Idle]) /\ V!Idle.pc # "waiting"
  BY <1>1 DEF V!Ends
<1>3. req'[r] = V!Idle /\ req[r] \in RequestRows
  <2>1. req \in [Requests -> RequestRows]
    BY DEF ContextInv, ContextTypes
  <2> QED BY <1>1, <1>2, <2>1, RowChanges
<1>4. RowFits(r)' /\ Woken(r)'
  BY <1>1, <1>3 DEF RowFits, Woken, V!Inside
<1>5. Pins(req[r]) <=> req[r].bind
  BY DEF Pins, V!Inside
<1>6. /\ inflight \in Nat /\ waiters \in Nat /\ MaxWaiters \in Nat /\ waiters <= MaxWaiters
  BY NumbersAre
<1>7. /\ inflight' = inflight + Count(Pins(V!Idle)) - Count(Pins(req[r])) /\ inflight' <= inflight
  BY <1>1, <1>5, <1>6 DEF V!Unpinned, Count
<1>8. /\ waiters' = waiters + Count(V!Idle.waiting) - Count(req[r].waiting) /\ waiters' <= MaxWaiters
  BY <1>1, <1>6 DEF V!Leaves, Count
<1>9. V!Idle.pc \notin V!Inside /\ req[r].pc \notin V!Inside
  BY <1>1 DEF V!Inside
<1> QED BY <1>1, <1>2, <1>4, <1>7, <1>8, <1>9, PlainStepKeeps

LEMMA ArriveKeeps ==
  ASSUME ContextsGiven, ContextInv, NEW r \in Requests, NEW w \in Works, NEW rev \in Nat,
         NEW bind \in BOOLEAN, V!Arrive(r, w, rev, bind)
  PROVE  ContextInv'
<1> DEFINE row == [V!Idle EXCEPT !.work = w, !.rev = rev, !.bind = bind, !.pc = "check"]
<1>1. req[r] = V!Idle
  BY DEF V!Arrive, ContextInv, RowFits
<1>2. /\ row \in RequestRows /\ row.pc = "check" /\ row.work = w /\ ~row.waiting /\ row.bind = bind
  BY DEF V!Idle, RequestRows, V!NoContext, ContextRows
<1>3. req' = [req EXCEPT ![r] = row] /\ UNCHANGED <<saved, V!table, V!service>> /\ waiters' = waiters
      /\ serving = "accepting" /\ inflight' = IF bind THEN inflight + 1 ELSE inflight
  BY DEF V!Arrive
<1> HIDE DEF row
<1>4. req'[r] = row
  BY <1>3 DEF ContextInv, ContextTypes
<1>5. RowFits(r)' /\ Woken(r)'
  BY <1>2, <1>4 DEF RowFits, Woken, V!Inside
<1>6. /\ inflight \in Nat /\ waiters \in Nat /\ MaxWaiters \in Nat /\ waiters <= MaxWaiters
  BY NumbersAre
<1>7. ~Pins(req[r]) /\ ~req[r].waiting /\ (Pins(row) <=> bind)
  BY <1>1, <1>2, IdleRow DEF Pins, V!Inside
<1>8. /\ inflight' = inflight + Count(Pins(row)) - Count(Pins(req[r]))
      /\ waiters' = waiters + Count(row.waiting) - Count(req[r].waiting) /\ waiters' <= MaxWaiters
  BY <1>2, <1>3, <1>6, <1>7 DEF Count
<1>9. row.pc \notin V!Inside /\ req[r].pc \notin V!Inside
  BY <1>1, <1>2, IdleRow DEF V!Inside
<1> QED BY <1>2, <1>3, <1>5, <1>8, <1>9, PlainStepKeeps

\* A request goes on that has, or has not, a place.
LEMMA GoesOnKeeps ==
  ASSUME ContextsGiven, ContextInv, NEW r \in Requests, NEW row \in RequestRows,
         req' = [req EXCEPT ![r] = row], UNCHANGED <<saved, V!table, V!service, inflight, waiters>>,
         row.pc \in V!Inside <=> req[r].pc \in V!Inside,
         Pins(row) <=> Pins(req[r]), row.work = req[r].work, row.waiting = req[r].waiting,
         RowFits(r)', Woken(r)'
  PROVE  ContextInv'
<1>1. /\ inflight \in Nat /\ waiters \in Nat /\ MaxWaiters \in Nat /\ waiters <= MaxWaiters
  BY NumbersAre
<1>2. /\ inflight' = inflight + Count(Pins(row)) - Count(Pins(req[r])) /\ inflight' <= inflight
      /\ waiters' = waiters + Count(row.waiting) - Count(req[r].waiting) /\ waiters' <= MaxWaiters
  BY <1>1 DEF Count
<1>3. UNCHANGED <<saved, V!table, V!service>>
  OBVIOUS
<1> QED BY <1>2, <1>3, PlainStepKeeps

LEMMA CheckFirstKeeps ==
  ASSUME ContextsGiven, ContextInv, NEW r \in Requests, V!CheckFirst(r)
  PROVE  ContextInv'
<1>1. req[r].pc = "check" /\ req[r] \in RequestRows /\ RowFits(r) /\ UNCHANGED <<saved, V!table, waiters, V!service>>
  BY DEF V!CheckFirst, ContextInv, ContextTypes
<1>2. CASE saved[req[r].work].rev # req[r].rev
  <2>1. ~req[r].waiting /\ waiters' = V!Leaves(r)
    BY <1>1 DEF RowFits, V!Leaves
  <2> QED BY <1>1, <1>2, <2>1, EndKeeps DEF V!CheckFirst
<1>3. CASE saved[req[r].work].rev = req[r].rev
  <2> DEFINE row == [req[r] EXCEPT !.pc = "gate"]
  <2>1. row \in RequestRows /\ row.pc = "gate" /\ row.work = req[r].work /\ row.waiting = req[r].waiting
        /\ row.bind = req[r].bind
    BY <1>1 DEF RequestRows
  <2>2. req' = [req EXCEPT ![r] = row] /\ inflight' = inflight
    BY <1>3 DEF V!CheckFirst, V!Goes
  <2> HIDE DEF row
  <2>3. req'[r] = row
    BY <2>2 DEF ContextInv, ContextTypes
  <2>4. RowFits(r)' /\ Woken(r)'
    BY <1>1, <2>1, <2>3 DEF RowFits, Woken, V!Inside
  <2>5. (Pins(row) <=> Pins(req[r])) /\ row.pc \notin V!Inside /\ req[r].pc \notin V!Inside
    BY <1>1, <2>1 DEF Pins, V!Inside
  <2>6. UNCHANGED <<saved, V!table, V!service, inflight, waiters>>
    BY <1>1, <2>2
  <2> QED BY <2>1, <2>2, <2>4, <2>5, <2>6, GoesOnKeeps
<1> QED BY <1>2, <1>3

LEMMA GiveUpKeeps ==
  ASSUME ContextsGiven, ContextInv, NEW r \in Requests, V!GiveUp(r)
  PROVE  ContextInv'
<1>1. req[r].pc = "waiting" /\ req[r].waiting
  BY DEF V!GiveUp, ContextInv, RowFits
<1> QED BY <1>1, EndKeeps DEF V!GiveUp, V!Leaves

LEMMA LoadKeeps ==
  ASSUME ContextsGiven, ContextInv, NEW r \in Requests, V!Load(r)
  PROVE  ContextInv'
<1>1. req[r].pc = "load" /\ req[r] \in RequestRows /\ RowFits(r)
      /\ UNCHANGED <<saved, V!table, V!service, inflight, waiters>>
  BY DEF V!Load, ContextInv, ContextTypes
<1>2. req[r].work \in active /\ req[r].work \in Works /\ ctx[req[r].work] = req[r].held /\ ~req[r].waiting
  BY <1>1 DEF RowFits, ContextInv, ContextTypes, V!Inside
<1>3. ctx' = ctx /\ active' = active
  BY <1>1 DEF V!table
<1>4. CASE saved[req[r].work].rev # req[r].rev
  <2> DEFINE row == [req[r] EXCEPT !.pc = "fail"]
  <2>1. /\ row \in RequestRows /\ row.pc = "fail" /\ row.work = req[r].work /\ row.waiting = req[r].waiting
    BY <1>1 DEF RequestRows, V!Inside
  <2>2. req' = [req EXCEPT ![r] = row]
    BY <1>4 DEF V!Load
  <2> HIDE DEF row
  <2>3. req'[r] = row
    BY <2>2 DEF ContextInv, ContextTypes
  <2>4. RowFits(r)' /\ Woken(r)'
    BY <1>2, <1>3, <2>1, <2>3 DEF RowFits, Woken, V!Inside
  <2>5. (Pins(row) <=> Pins(req[r])) /\ row.pc \in V!Inside /\ req[r].pc \in V!Inside
    BY <1>1, <2>1 DEF Pins, V!Inside
  <2> QED BY <1>1, <2>1, <2>2, <2>4, <2>5, GoesOnKeeps
<1>5. CASE saved[req[r].work].rev = req[r].rev
  <2> DEFINE row == [req[r] EXCEPT !.pc = "answer", !.from = V!Built(saved[req[r].work])]
  <2>1. V!Built(saved[req[r].work]) \in ContextRows /\ V!Built(saved[req[r].work]).rev = req[r].rev
    BY <1>2, <1>5 DEF V!Built, ContextRows, ContextInv, ContextTypes
  <2>2. /\ row \in RequestRows /\ row.pc = "answer" /\ row.work = req[r].work /\ row.waiting = req[r].waiting
        /\ row.held = req[r].held /\ row.rev = req[r].rev /\ row.from = V!Built(saved[req[r].work])
    BY <1>1, <2>1 DEF RequestRows, V!Inside
  <2>3. req' = [req EXCEPT ![r] = row]
    BY <1>5 DEF V!Load
  <2> HIDE DEF row
  <2>4. req'[r] = row
    BY <2>3 DEF ContextInv, ContextTypes
  <2>5. RowFits(r)' /\ Woken(r)'
    BY <1>2, <1>3, <2>1, <2>2, <2>4 DEF RowFits, Woken, V!Inside
  <2>6. (Pins(row) <=> Pins(req[r])) /\ row.pc \in V!Inside /\ req[r].pc \in V!Inside
    BY <1>1, <2>2 DEF Pins, V!Inside
  <2> QED BY <1>1, <2>2, <2>3, <2>5, <2>6, GoesOnKeeps
<1> QED BY <1>4, <1>5

LEMMA AnswerKeeps ==
  ASSUME ContextsGiven, ContextInv, NEW r \in Requests, V!Answer(r)
  PROVE  ContextInv'
<1>1. req[r].pc = "answer" /\ req[r] \in RequestRows /\ RowFits(r)
      /\ UNCHANGED <<saved, V!table, V!service, inflight, waiters>>
  BY DEF V!Answer, ContextInv, ContextTypes
<1>2. req[r].work \in active /\ req[r].work \in Works /\ ctx[req[r].work] = req[r].held /\ ~req[r].waiting
  BY <1>1 DEF RowFits, ContextInv, ContextTypes, V!Inside
<1>3. ctx' = ctx /\ active' = active
  BY <1>1 DEF V!table
<1>4. PICK pc \in {"fail", "leave"} : req' = [req EXCEPT ![r] = [req[r] EXCEPT !.pc = pc]]
  BY DEF V!Answer
<1> DEFINE row == [req[r] EXCEPT !.pc = pc]
<1>5. /\ row \in RequestRows /\ row.pc = pc /\ row.work = req[r].work /\ row.waiting = req[r].waiting
      /\ row.held = req[r].held
  BY <1>1 DEF RequestRows, V!Inside
<1>6. req' = [req EXCEPT ![r] = row]
  BY <1>4
<1> HIDE DEF row
<1>7. req'[r] = row
  BY <1>6 DEF ContextInv, ContextTypes
<1>8. RowFits(r)' /\ Woken(r)'
  BY <1>2, <1>3, <1>5, <1>7 DEF RowFits, Woken, V!Inside
<1>9. (Pins(row) <=> Pins(req[r])) /\ row.pc \in V!Inside /\ req[r].pc \in V!Inside
  BY <1>1, <1>5 DEF Pins, V!Inside
<1> QED BY <1>1, <1>5, <1>6, <1>8, <1>9, GoesOnKeeps

LEMMA EnterKeeps ==
  ASSUME ContextsGiven, ContextInv, NEW r \in Requests, V!Enter(r)
  PROVE  ContextInv'
<1> DEFINE w == req[r].work
<1>1. req[r].pc = "enter" /\ req[r] \in RequestRows /\ RowFits(r)
      /\ UNCHANGED <<saved, read, stale, active, inflight, waiters, V!service>>
  BY DEF V!Enter, ContextInv, ContextTypes
<1>2. /\ w \in active /\ w \in Works /\ ~req[r].waiting /\ w \in V!Contexts
      /\ ctx \in [Works -> ContextRows] /\ saved \in [Works -> [rev : Nat, closed : BOOLEAN]]
      /\ req \in [Requests -> RequestRows]
  BY <1>1 DEF RowFits, ContextInv, ContextTypes, V!Inside, TableFits
<1>3. V!Reserved \in ContextRows /\ V!Reserved # V!NoContext /\ V!Built(saved[w]) \in ContextRows /\ V!Built(saved[w]) # V!NoContext
  BY <1>2 DEF V!Reserved, V!Built, V!NoContext, ContextRows
<1>4. PICK row \in RequestRows, c \in ContextRows :
        /\ c # V!NoContext /\ ctx' = [ctx EXCEPT ![w] = c] /\ req' = [req EXCEPT ![r] = row]
        /\ row.pc \in {"fail", "load"} /\ row.work = w /\ row.waiting = req[r].waiting
        /\ row.pc = "load" => row.held = c
  <2>1. CASE saved[w].rev # req[r].rev \/ (saved[w].rev = req[r].rev /\ ~V!Reuse(w) /\ ctx' = [ctx EXCEPT ![w] = V!Reserved] /\ req' = [req EXCEPT ![r].pc = "fail"])
    <3> DEFINE row == [req[r] EXCEPT !.pc = "fail"]
    <3>1. row \in RequestRows /\ row.pc = "fail" /\ row.work = w /\ row.waiting = req[r].waiting
      BY <1>1 DEF RequestRows, V!Inside
    <3>2. req' = [req EXCEPT ![r] = row]
      BY <2>1 DEF V!Enter
    <3>3. ctx' = ctx \/ ctx' = [ctx EXCEPT ![w] = V!Reserved]
      BY <2>1 DEF V!Enter
    <3>4. ctx[w] # V!NoContext /\ ctx[w] \in ContextRows /\ ctx = [ctx EXCEPT ![w] = ctx[w]]
      BY <1>2 DEF V!Contexts
    <3>5. PICK c \in ContextRows : c # V!NoContext /\ ctx' = [ctx EXCEPT ![w] = c]
      BY <1>3, <3>3, <3>4
    <3> HIDE DEF row
    <3> QED BY <3>1, <3>2, <3>5
  <2>2. CASE /\ saved[w].rev = req[r].rev
             /\ ctx' = [ctx EXCEPT ![w] = IF V!Reuse(w) THEN @ ELSE V!Built(saved[w])]
             /\ req' = [req EXCEPT ![r].pc = "load", ![r].held = ctx'[w]]
    <3> DEFINE c == IF V!Reuse(w) THEN ctx[w] ELSE V!Built(saved[w])
               row == [req[r] EXCEPT !.pc = "load", !.held = c]
    <3>1. c \in ContextRows /\ c # V!NoContext
      BY <1>3 DEF V!Reuse
    <3>2. ctx' = [ctx EXCEPT ![w] = c]
      BY <2>2
    <3> HIDE DEF c
    <3>3. ctx'[w] = c
      BY <1>2, <3>2
    <3>4. req' = [req EXCEPT ![r] = row]
      <4>1. req' = [req EXCEPT ![r].pc = "load", ![r].held = c]
        BY <2>2, <3>3
      <4> QED BY <1>1, <1>2, <4>1 DEF RequestRows
    <3>5. row \in RequestRows /\ row.pc = "load" /\ row.work = w /\ row.waiting = req[r].waiting /\ row.held = c
      BY <1>1, <3>1 DEF RequestRows, V!Inside
    <3> HIDE DEF row
    <3> QED BY <3>1, <3>2, <3>4, <3>5
  <2> QED BY <2>1, <2>2 DEF V!Enter
<1>5. req' \in [Requests -> RequestRows] /\ req'[r] = row /\ \A s \in Requests \ {r} : Stays(s)
  BY <1>2, <1>4, RowChanges
<1>6. ctx' \in [Works -> ContextRows] /\ ctx'[w] = c /\ \A v \in Works \ {w} : ctx'[v] = ctx[v]
  BY <1>2, <1>4
<1>7. V!Contexts' = V!Contexts
  BY <1>2, <1>4, <1>6 DEF V!Contexts
<1>8. /\ read' = read /\ stale' = stale /\ active' = active /\ saved' = saved
      /\ serving' = serving /\ cut' = cut /\ inflight' = inflight /\ waiters' = waiters
  BY <1>1 DEF V!service
<1>9. ContextTypes' /\ ReadInOrder' /\ TableFits'
  BY <1>5, <1>6, <1>7, <1>8 DEF ContextInv, ContextTypes, ReadInOrder, TableFits
<1>10. \A s \in Requests \ {r} : req[s].pc \in V!Inside => req[s].work \in active /\ req[s].work \in Works /\ req[s].work # w
  BY <1>1 DEF ContextInv, RowFits, ContextTypes, OneReader, V!Inside
<1>11. Spares(r)
  BY <1>5, <1>6, <1>8, <1>10 DEF Spares
<1>12. RowFits(r)' /\ Woken(r)'
  BY <1>1, <1>2, <1>4, <1>5, <1>6, <1>8 DEF RowFits, Woken, V!Inside
<1>13. req[r].pc \in V!Inside /\ req'[r].pc \in V!Inside /\ req'[r].work = w /\ (Pins(req'[r]) <=> Pins(req[r])) /\ req'[r].waiting = req[r].waiting
  BY <1>1, <1>4, <1>5 DEF V!Inside, Pins
<1>14. /\ inflight' = inflight + Count(Pins(req'[r])) - Count(Pins(req[r])) /\ inflight' <= inflight
       /\ waiters' = waiters + Count(req'[r].waiting) - Count(req[r].waiting) /\ waiters' <= MaxWaiters
  <2>1. /\ inflight \in Nat /\ waiters \in Nat /\ MaxWaiters \in Nat /\ waiters <= MaxWaiters
    BY NumbersAre
  <2> QED BY <1>8, <1>13, <2>1 DEF Count
<1>15. \A v \in Works : v \in active' <=>
         \/ v \in active /\ ~(req[r].pc \in V!Inside /\ v = req[r].work)
         \/ req'[r].pc \in V!Inside /\ v = req'[r].work
  BY <1>2, <1>8, <1>13
<1>16. UNCHANGED V!service
  BY <1>1
<1>17. /\ \A s \in Requests \ {r} : req'[s].pc = "waiting" => active \subseteq active'
       /\ req'[r].work \in Works
  BY <1>2, <1>8, <1>13
<1> HIDE DEF w
<1> QED BY <1>9, <1>11, <1>12, <1>13, <1>14, <1>15, <1>16, <1>17, RequestStepKeeps DEF w

-----------------------------------------------------------------------------
(* The admission and its end. *)

\* A request joins the queue, or stays in it.
LEMMA QueueKeeps ==
  ASSUME ContextsGiven, ContextInv, NEW r \in Requests, req[r].pc = "gate", serving = "accepting",
         ~(V!Available(req[r].work) /\ V!Fits(req[r].work)), req[r].waiting \/ ~(waiters >= MaxWaiters),
         req' = [req EXCEPT ![r].pc = "waiting", ![r].waiting = TRUE],
         waiters' = (IF req[r].waiting THEN waiters ELSE waiters + 1),
         UNCHANGED <<saved, V!table, V!service, inflight>>
  PROVE  ContextInv'
<1> DEFINE row == [req[r] EXCEPT !.pc = "waiting", !.waiting = TRUE]
<1>1. req[r] \in RequestRows /\ RowFits(r) /\ req \in [Requests -> RequestRows]
  BY DEF ContextInv, ContextTypes
<1>2. req[r].work \in Works
  BY <1>1 DEF RowFits
<1>3. /\ row \in RequestRows /\ row.pc = "waiting" /\ row.waiting /\ row.work = req[r].work
      /\ row.bind = req[r].bind
  BY <1>1 DEF RequestRows
<1>4. req' = [req EXCEPT ![r] = row]
  BY <1>1 DEF RequestRows
<1> HIDE DEF row
<1>5. req'[r] = row
  BY <1>1, <1>4
<1>6. /\ inflight \in Nat /\ waiters \in Nat /\ MaxWaiters \in Nat /\ waiters <= MaxWaiters
      /\ Slots \in Nat /\ Cardinality(active) \in Nat
  BY NumbersAre
<1>7. ~V!Available(req[r].work)
  BY <1>2, AvailableFits DEF ContextInv
<1>8. req[r].work \in active \/ Slots <= Cardinality(active)
  <2>1. ~(req[r].work \notin active /\ Cardinality(active) < Slots)
    BY <1>7, PlacesAre
  <2> QED BY <1>6, <2>1
<1>9. serving' = serving /\ active' = active
  BY DEF V!service, V!table
<1>10. Woken(r)'
  BY <1>3, <1>5, <1>8, <1>9 DEF Woken
<1>11. RowFits(r)'
  BY <1>2, <1>3, <1>5 DEF RowFits, V!Inside
<1>12. (Pins(row) <=> Pins(req[r])) /\ row.pc \notin V!Inside /\ req[r].pc \notin V!Inside
  BY <1>3 DEF Pins, V!Inside
<1>13. /\ inflight' = inflight + Count(Pins(row)) - Count(Pins(req[r])) /\ inflight' <= inflight
  BY <1>6, <1>12 DEF Count
<1>14. waiters' = waiters + Count(row.waiting) - Count(req[r].waiting) /\ waiters' <= MaxWaiters
  BY <1>3, <1>6 DEF Count
<1>15. UNCHANGED <<saved, V!table, V!service>>
  OBVIOUS
<1> QED BY <1>3, <1>4, <1>10, <1>11, <1>12, <1>13, <1>14, <1>15, PlainStepKeeps

\* The order of what is still read once.
LEMMA ForgetsInOrder ==
  ASSUME ReadInOrder, NEW W, read' = V!Forgotten(W)
  PROVE  ReadInOrder' /\ DOMAIN read' = DOMAIN read \ W
<1>1. /\ DOMAIN read' = DOMAIN read \ W /\ DOMAIN read' \subseteq Works
      /\ read' \in [DOMAIN read' -> SUBSET DOMAIN read']
      /\ \A w \in DOMAIN read' : w \notin read'[w] /\ \A v \in read'[w] : read'[v] \subseteq read'[w]
  BY ForgottenInOrder
<1> QED BY <1>1 DEF ReadInOrder

\* Who is let in has the only place of its Work, and a context for it.
LEMMA AdmitKeeps ==
  ASSUME ContextsGiven, ContextInv, NEW r \in Requests, req[r].pc = "gate", serving = "accepting",
         NEW w \in Works, w = req[r].work, V!Available(w), V!Fits(w),
         active' = active \union {w},
         ctx' = [V!Dropped(V!Victim(w)) EXCEPT ![w] = IF @ = V!NoContext THEN V!Reserved ELSE @],
         read' = V!Forgotten(V!Victim(w)), stale' = stale \ V!Victim(w),
         inflight' = (IF req[r].bind THEN inflight ELSE inflight + 1), waiters' = V!Leaves(r),
         req' = [req EXCEPT ![r].pc = "enter", ![r].waiting = FALSE],
         UNCHANGED <<saved, V!service>>
  PROVE  ContextInv'
<1> DEFINE row == [req[r] EXCEPT !.pc = "enter", !.waiting = FALSE]
           out == V!Victim(w)
<1>1. req[r] \in RequestRows /\ RowFits(r) /\ req \in [Requests -> RequestRows]
  BY DEF ContextInv, ContextTypes
<1>2. row \in RequestRows /\ row.pc = "enter" /\ ~row.waiting /\ row.work = w
  BY <1>1 DEF RequestRows, V!Inside
<1>3. req' = [req EXCEPT ![r] = row]
  BY <1>1 DEF RequestRows
<1> HIDE DEF row
<1>4. /\ req' \in [Requests -> RequestRows] /\ req'[r] = row
      /\ \A s \in Requests \ {r} : Stays(s)
  BY <1>1, <1>2, <1>3, RowChanges
<1>5. out \subseteq V!Contexts \ active /\ w \notin active
  BY VictimIsIdle, PlacesAre
<1> HIDE DEF out
<1>6. /\ V!Dropped(out) \in [Works -> ContextRows]
      /\ \A v \in Works : V!Dropped(out)[v] = IF v \in out THEN V!NoContext ELSE ctx[v]
      /\ {v \in Works : V!Dropped(out)[v] # V!NoContext} = V!Contexts \ out
  <2>1. ctx \in [Works -> ContextRows]
    BY DEF ContextInv, ContextTypes
  <2> QED BY <2>1, DroppedContexts
<1>7. /\ ctx' \in [Works -> ContextRows] /\ ctx'[w] # V!NoContext
      /\ \A v \in Works \ {w} : ctx'[v] = V!Dropped(out)[v]
  <2>1. V!Reserved \in ContextRows /\ V!Reserved # V!NoContext
    BY DEF V!Reserved, V!NoContext, ContextRows
  <2> DEFINE old == V!Dropped(out)
             c == IF old[w] = V!NoContext THEN V!Reserved ELSE old[w]
  <2>2. ctx' = [old EXCEPT ![w] = c]
    BY DEF out
  <2>3. old \in [Works -> ContextRows]
    BY <1>6
  <2>4. c \in ContextRows /\ c # V!NoContext
    BY <2>1, <2>3
  <2> HIDE DEF old, c
  <2>5. ctx' \in [Works -> ContextRows] /\ ctx'[w] = c /\ \A v \in Works \ {w} : ctx'[v] = old[v]
    BY <2>2, <2>3, <2>4
  <2> QED BY <2>4, <2>5 DEF old
<1>8. V!Contexts' = (V!Contexts \ out) \union {w}
  BY <1>6, <1>7 DEF V!Contexts
<1>9. \A v \in active : ctx'[v] = ctx[v]
  BY <1>5, <1>6, <1>7 DEF ContextInv, ContextTypes
<1>10. Cardinality(V!Contexts') <= Slots
  <2>1. IsFiniteSet(V!Contexts)
    BY FS_Subset DEF ContextsGiven, V!Contexts
  <2>2. CASE w \in V!Contexts
    <3>1. out = {}
      BY <2>2, PlacesAre DEF out
    <3>2. V!Contexts' = V!Contexts
      BY <1>8, <2>2, <3>1
    <3> QED BY <3>2 DEF ContextInv, TableFits
  <2>3. CASE w \notin V!Contexts
    <3>1. IsFiniteSet(V!Contexts \ out) /\ w \notin V!Contexts \ out /\ Cardinality(V!Contexts \ out) \in Nat
      BY <2>1, <2>3, PartCount
    <3>2. Cardinality(V!Contexts \ out) < Slots
      BY <2>3, PlacesAre DEF out
    <3>3. Cardinality(V!Contexts') = Cardinality(V!Contexts \ out) + 1
      BY <1>8, <3>1, FS_AddElement
    <3>4. Slots \in Nat
      BY NumbersAre
    <3> QED BY <3>1, <3>2, <3>3, <3>4
  <2> QED BY <2>2, <2>3
<1>11. ReadInOrder' /\ DOMAIN read' = DOMAIN read \ out
  <2>1. ReadInOrder /\ read' = V!Forgotten(out)
    BY DEF ContextInv, out
  <2> HIDE DEF V!Forgotten
  <2> QED BY <2>1, ForgetsInOrder
<1>12. ContextTypes'
  <2>1. active' \subseteq Works /\ stale' \subseteq Works
    BY DEF ContextInv, ContextTypes
  <2>2. saved' = saved /\ serving' = serving /\ cut' = cut
    BY DEF V!service
  <2> QED BY <1>4, <1>7, <2>1, <2>2 DEF ContextInv, ContextTypes
<1>14. TableFits'
  <2>1. active' \subseteq V!Contexts'
    BY <1>5, <1>8 DEF ContextInv, TableFits
  <2>2. DOMAIN read' \subseteq V!Contexts' /\ V!Contexts' \ active' \subseteq DOMAIN read'
    BY <1>8, <1>11 DEF ContextInv, TableFits
  <2> QED BY <1>10, <2>1, <2>2 DEF TableFits
<1>15. \A s \in Requests : req[s].pc \in V!Inside => req[s].work \in active
  BY DEF ContextInv, RowFits
<1>16. Spares(r)
  BY <1>4, <1>9, <1>15 DEF Spares
<1>17. RowFits(r)' /\ Woken(r)'
  BY <1>2, <1>4 DEF RowFits, Woken, V!Inside
<1>18. req[r].pc \notin V!Inside /\ req'[r].pc \in V!Inside /\ req'[r].work = w /\ Pins(req'[r]) /\ ~req'[r].waiting
  BY <1>2, <1>4 DEF V!Inside, Pins
<1>19. Pins(req[r]) <=> req[r].bind
  BY DEF V!Inside, Pins
<1>20. /\ inflight \in Nat /\ waiters \in Nat /\ MaxWaiters \in Nat /\ waiters <= MaxWaiters
  BY NumbersAre
<1>21. inflight' = inflight + Count(Pins(req'[r])) - Count(Pins(req[r]))
  BY <1>18, <1>19, <1>20 DEF Count
<1>22. waiters' = waiters + Count(req'[r].waiting) - Count(req[r].waiting) /\ waiters' <= MaxWaiters
  BY <1>18, <1>20 DEF Count, V!Leaves
<1>23. \A v \in Works : v \in active' <=>
         \/ v \in active /\ ~(req[r].pc \in V!Inside /\ v = req[r].work)
         \/ req'[r].pc \in V!Inside /\ v = req'[r].work
  BY <1>18
<1>24. /\ \A s \in Requests \ {r} : req'[s].pc = "waiting" => active \subseteq active'
       /\ req'[r].work \in Works /\ req'[r].work \notin active
  BY <1>5, <1>18
<1>25. UNCHANGED V!service
  OBVIOUS
<1> QED BY <1>11, <1>12, <1>14, <1>16, <1>17, <1>18, <1>21, <1>22, <1>23, <1>24, <1>25, RequestStepKeeps

LEMMA GateKeeps ==
  ASSUME ContextsGiven, ContextInv, NEW r \in Requests, V!Gate(r)
  PROVE  ContextInv'
<1> DEFINE w == req[r].work
           refuse == /\ inflight' = V!Unpinned(r)
                     /\ waiters' = V!Leaves(r)
                     /\ quiet' = (quiet /\ ~req[r].bind)
                     /\ req' = IF req[r].bind THEN V!Notified(V!Ends(r)) ELSE V!Ends(r)
                     /\ UNCHANGED V!table
<1>1. req[r].pc = "gate" /\ UNCHANGED <<saved, V!service, V!counted>> /\ w \in Works
  BY DEF V!Gate, ContextInv, RowFits
<1>2. CASE refuse
  <2>1. UNCHANGED <<saved, V!table, V!service>>
    BY <1>1, <1>2
  <2> QED BY <1>1, <1>2, <2>1, EndKeeps
<1>3. CASE ~refuse /\ serving = "accepting" /\ V!Available(w) /\ V!Fits(w)
  <2>1. /\ active' = active \union {w}
        /\ ctx' = [V!Dropped(V!Victim(w)) EXCEPT ![w] = IF @ = V!NoContext THEN V!Reserved ELSE @]
        /\ read' = V!Forgotten(V!Victim(w)) /\ stale' = stale \ V!Victim(w)
        /\ inflight' = (IF req[r].bind THEN inflight ELSE inflight + 1) /\ waiters' = V!Leaves(r)
        /\ req' = [req EXCEPT ![r].pc = "enter", ![r].waiting = FALSE]
    BY <1>3 DEF V!Gate
  <2> HIDE DEF w
  <2> QED BY <1>1, <1>3, <2>1, AdmitKeeps DEF w
<1>4. CASE ~refuse /\ serving = "accepting" /\ ~(V!Available(w) /\ V!Fits(w))
  <2>1. /\ req[r].waiting \/ ~(waiters >= MaxWaiters)
        /\ req' = [req EXCEPT ![r].pc = "waiting", ![r].waiting = TRUE]
        /\ waiters' = (IF req[r].waiting THEN waiters ELSE waiters + 1)
        /\ UNCHANGED <<V!table, inflight>>
    BY <1>4 DEF V!Gate
  <2> QED BY <1>1, <1>4, <2>1, QueueKeeps
<1>5. serving # "accepting" => refuse
  BY DEF V!Gate
<1> QED BY <1>2, <1>3, <1>4, <1>5

LEMMA LeaveKeeps ==
  ASSUME ContextsGiven, ContextInv, NEW r \in Requests, V!Leave(r)
  PROVE  ContextInv'
<1> DEFINE w == req[r].work
           gone == IF req[r].pc = "fail" THEN {w} ELSE {}
<1>1. /\ req[r].pc \in {"leave", "fail"} /\ req[r].pc \in V!Inside /\ UNCHANGED <<saved, waiters, V!service>>
      /\ stale' = stale \ {w} /\ active' = active \ {w} /\ inflight' = inflight - 1
      /\ req' = V!Notified([req EXCEPT ![r] = V!Idle])
  BY DEF V!Leave, V!Inside, V!Wakes, V!Ends
<1>2. /\ w \in active /\ w \in Works /\ ~req[r].waiting /\ w \in V!Contexts
      /\ ctx \in [Works -> ContextRows] /\ req \in [Requests -> RequestRows]
  BY <1>1 DEF RowFits, ContextInv, ContextTypes, V!Inside, TableFits
<1>3. /\ req' \in [Requests -> RequestRows] /\ req'[r] = V!Idle
      /\ \A s \in Requests \ {r} : Stays(s)
      /\ \A s \in Requests : req'[s].pc # "waiting"
  BY <1>1, <1>2, IdleRow, RowChanges
<1>4. /\ ctx' \in [Works -> ContextRows] /\ V!Contexts' = V!Contexts \ gone
      /\ \A v \in Works \ {w} : ctx'[v] = ctx[v]
  <2>1. CASE req[r].pc = "fail"
    <3>1. ctx' = V!Dropped({w})
      BY <2>1 DEF V!Leave
    <3> QED BY <1>2, <2>1, <3>1, DroppedContexts DEF V!Contexts
  <2>2. CASE req[r].pc = "leave"
    <3>1. ctx' = ctx /\ gone = {}
      BY <2>2 DEF V!Leave
    <3> QED BY <1>2, <3>1 DEF V!Contexts
  <2> QED BY <1>1, <2>1, <2>2
<1>5. ReadInOrder' /\ DOMAIN read' = (DOMAIN read \union {w}) \ gone
  <2>1. ReadInOrder
    BY DEF ContextInv
  <2>2. CASE req[r].pc = "fail"
    <3>1. read' = V!Forgotten({w}) /\ gone = {w}
      BY <2>2 DEF V!Leave
    <3> HIDE DEF gone, w
    <3> QED BY <2>1, <3>1, ForgetsInOrder
  <2>3. CASE req[r].pc = "leave"
    <3>1. read' = V!Latest(w) /\ gone = {}
      BY <2>3 DEF V!Leave
    <3> HIDE DEF gone, w
    <3>2. /\ DOMAIN read' = DOMAIN read \union {w} /\ DOMAIN read' \subseteq Works
          /\ read' \in [DOMAIN read' -> SUBSET DOMAIN read']
          /\ \A v \in DOMAIN read' : v \notin read'[v] /\ \A u \in read'[v] : read'[u] \subseteq read'[v]
      BY <1>2, <2>1, <3>1, LatestInOrder
    <3> QED BY <3>1, <3>2 DEF ReadInOrder
  <2> QED BY <1>1, <2>2, <2>3
<1>6. ContextTypes'
  <2>1. active' \subseteq Works /\ stale' \subseteq Works
    BY <1>1 DEF ContextInv, ContextTypes
  <2>2. saved' = saved /\ serving' = serving /\ cut' = cut
    BY <1>1 DEF V!service
  <2> QED BY <1>3, <1>4, <2>1, <2>2 DEF ContextInv, ContextTypes
<1>8. TableFits'
  <2>1. IsFiniteSet(V!Contexts)
    BY FS_Subset DEF ContextsGiven, V!Contexts
  <2>2. /\ Cardinality(V!Contexts') <= Cardinality(V!Contexts) /\ Cardinality(V!Contexts) <= Slots
        /\ Cardinality(V!Contexts') \in Nat /\ Cardinality(V!Contexts) \in Nat /\ Slots \in Nat
    BY <1>4, <2>1, PartCount, NumbersAre DEF ContextInv, TableFits
  <2>3. gone \subseteq {w}
    OBVIOUS
  <2>4. /\ active' \subseteq V!Contexts' /\ DOMAIN read' \subseteq V!Contexts'
        /\ V!Contexts' \ active' \subseteq DOMAIN read'
    <3> HIDE DEF gone, w
    <3> QED BY <1>1, <1>2, <1>4, <1>5, <2>3 DEF ContextInv, TableFits
  <2> QED BY <2>2, <2>4 DEF TableFits
<1>9. \A s \in Requests \ {r} : req[s].pc \in V!Inside => req[s].work \in active /\ req[s].work \in Works /\ req[s].work # w
  BY <1>1 DEF ContextInv, RowFits, ContextTypes, OneReader
<1>10. Spares(r)
  BY <1>1, <1>3, <1>4, <1>9 DEF Spares
<1>11. RowFits(r)' /\ Woken(r)'
  BY <1>3, IdleRow DEF RowFits, Woken, V!Inside
<1>12. req[r].pc \in V!Inside /\ req'[r].pc \notin V!Inside /\ ~Pins(req'[r]) /\ Pins(req[r]) /\ ~req'[r].waiting
  BY <1>1, <1>3, IdleRow DEF V!Inside, Pins
<1>13. /\ inflight \in Nat /\ waiters \in Nat /\ MaxWaiters \in Nat /\ waiters <= MaxWaiters
  BY NumbersAre
<1>14. inflight' = inflight + Count(Pins(req'[r])) - Count(Pins(req[r])) /\ inflight' <= inflight
  BY <1>1, <1>12, <1>13 DEF Count
<1>15. waiters' = waiters + Count(req'[r].waiting) - Count(req[r].waiting) /\ waiters' <= MaxWaiters
  BY <1>1, <1>2, <1>12, <1>13 DEF Count
<1>16. \A v \in Works : v \in active' <=>
         \/ v \in active /\ ~(req[r].pc \in V!Inside /\ v = req[r].work)
         \/ req'[r].pc \in V!Inside /\ v = req'[r].work
  BY <1>1, <1>12
<1>17. /\ \A s \in Requests \ {r} : req'[s].pc = "waiting" => active \subseteq active'
  BY <1>3
<1>18. UNCHANGED V!service
  BY <1>1
<1> QED BY <1>5, <1>6, <1>8, <1>10, <1>11, <1>12, <1>14, <1>15, <1>16, <1>17, <1>18, RequestStepKeeps

-----------------------------------------------------------------------------
(* Steps of no request. *)

LEMMA NotifiedStays ==
  ASSUME req \in [Requests -> RequestRows], req' = req \/ req' = V!Notified(req)
  PROVE  /\ req' \in [Requests -> RequestRows]
         /\ \A s \in Requests : Stays(s)
         /\ req' = V!Notified(req) => \A s \in Requests : req'[s].pc # "waiting"
<1>1. CASE req' = V!Notified(req)
  <2>1. ASSUME NEW s \in Requests PROVE req'[s] \in RequestRows /\ Stays(s) /\ req'[s].pc # "waiting"
    <3>1. req[s] \in RequestRows
      OBVIOUS
    <3>2. CASE req[s].pc = "waiting"
      <4>1. req'[s] = [req[s] EXCEPT !.pc = "gate"]
        BY <1>1, <3>2 DEF V!Notified
      <4> QED BY <3>1, <3>2, <4>1 DEF RequestRows, Stays
    <3>3. CASE req[s].pc # "waiting"
      <4>1. req'[s] = req[s]
        BY <1>1, <3>3 DEF V!Notified
      <4> QED BY <3>1, <3>3, <4>1 DEF Stays
    <3> QED BY <3>2, <3>3
  <2>2. req' = [s \in Requests |-> req'[s]]
    BY <1>1 DEF V!Notified
  <2> QED BY <2>1, <2>2
<1>2. CASE req' = req /\ req' # V!Notified(req)
  BY <1>2 DEF Stays
<1> QED BY <1>1, <1>2

LEMMA HostStepKeeps ==
  ASSUME ContextsGiven, ContextInv, req' = req \/ req' = V!Notified(req),
         saved' \in [Works -> [rev : Nat, closed : BOOLEAN]], ctx' \in [Works -> ContextRows],
         stale' \subseteq Works, serving' \in {"accepting", "draining", "closing", "down"}, cut' \in Nat,
         ReadInOrder', TableFits', Departs', UNCHANGED <<active, inflight, waiters>>,
         \A w \in active : ctx'[w] = ctx[w],
         req' = V!Notified(req) \/ (serving = "accepting" => serving' = "accepting")
  PROVE  ContextInv'
<1>1. /\ req' \in [Requests -> RequestRows] /\ \A s \in Requests : Stays(s)
      /\ req' = V!Notified(req) => \A s \in Requests : req'[s].pc # "waiting"
  BY NotifiedStays DEF ContextInv, ContextTypes
<1>2. /\ active' = active /\ inflight' = inflight /\ waiters' = waiters
  OBVIOUS
<1>3. \A s \in Requests :
        /\ (req'[s].pc \in V!Inside <=> req[s].pc \in V!Inside)
        /\ req'[s].work = req[s].work /\ req'[s].waiting = req[s].waiting
        /\ (Pins(req'[s]) <=> Pins(req[s]))
        /\ req'[s].pc = "waiting" => req[s].pc = "waiting"
  <2> TAKE s \in Requests
  <2>1. Stays(s) /\ req[s] \in RequestRows
    BY <1>1 DEF ContextInv, ContextTypes
  <2> QED BY <2>1, StayingIs
<1>4. ASSUME NEW s \in Requests PROVE RowFits(s)'
  <2>1. req[s] \in RequestRows /\ RowFits(s) /\ Stays(s)
    BY <1>1 DEF ContextInv, ContextTypes
  <2>2. req[s].pc \in V!Inside => req[s].work \in active /\ ctx'[req[s].work] = ctx[req[s].work]
    BY <2>1 DEF RowFits
  <2>3. CASE req'[s] = req[s]
    BY <1>2, <2>1, <2>2, <2>3 DEF RowFits, V!Inside
  <2>4. CASE req[s].pc = "waiting" /\ req'[s] = [req[s] EXCEPT !.pc = "gate"]
    BY <2>1, <2>4 DEF RowFits, RequestRows, V!Inside
  <2> QED BY <2>1, <2>3, <2>4 DEF Stays
<1>5. Pinned' = Pinned /\ Queued' = Queued
  BY <1>3 DEF Pinned, Queued
<1>6. Counted'
  BY <1>2, <1>5 DEF ContextInv, Counted
<1>7. ASSUME NEW s \in Requests PROVE Woken(s)'
  <2>1. CASE req' = V!Notified(req)
    BY <1>1, <2>1 DEF Woken
  <2>2. CASE serving = "accepting" => serving' = "accepting"
    BY <1>2, <1>3, <2>2 DEF ContextInv, Woken
  <2> QED BY <2>1, <2>2
<1>8. OneReader'
  <2>1. \A s, t \in Requests : req'[s].pc \in V!Inside /\ req'[t].pc \in V!Inside /\ req'[s].work = req'[t].work => s = t
    BY <1>3 DEF ContextInv, OneReader
  <2>2. ASSUME NEW w \in active' PROVE \E s \in Requests : req'[s].pc \in V!Inside /\ req'[s].work = w
    <3>1. PICK s \in Requests : req[s].pc \in V!Inside /\ req[s].work = w
      BY <1>2 DEF ContextInv, OneReader
    <3> QED BY <1>3, <3>1
  <2> QED BY <2>1, <2>2 DEF OneReader
<1>9. ContextTypes'
  BY <1>1, <1>2 DEF ContextInv, ContextTypes
<1> QED BY <1>4, <1>6, <1>7, <1>8, <1>9 DEF ContextInv

\* Contexts nobody uses are dropped.
LEMMA DropKeepsTable ==
  ASSUME ContextsGiven, ContextInv, NEW W, W \intersect active = {}, active' = active,
         ctx' = V!Dropped(W), read' = V!Forgotten(DOMAIN read \intersect W) \/ read' = V!Forgotten(W)
  PROVE  /\ ctx' \in [Works -> ContextRows] /\ ReadInOrder' /\ TableFits'
         /\ \A w \in active : ctx'[w] = ctx[w]
<1>1. /\ ctx' \in [Works -> ContextRows] /\ V!Contexts' = V!Contexts \ W
      /\ \A w \in Works : w \notin W => ctx'[w] = ctx[w]
  BY DroppedContexts DEF ContextInv, ContextTypes, V!Contexts
<1>2. ReadInOrder' /\ DOMAIN read' = DOMAIN read \ W
  <2>1. CASE read' = V!Forgotten(W)
    BY <2>1, ForgetsInOrder DEF ContextInv
  <2>2. CASE read' = V!Forgotten(DOMAIN read \intersect W)
    BY <2>2, ForgetsInOrder DEF ContextInv
  <2> QED BY <2>1, <2>2
<1>3. IsFiniteSet(V!Contexts)
  BY FS_Subset DEF ContextsGiven, V!Contexts
<1>4. /\ Cardinality(V!Contexts') <= Cardinality(V!Contexts) /\ Cardinality(V!Contexts) <= Slots
      /\ Cardinality(V!Contexts') \in Nat /\ Cardinality(V!Contexts) \in Nat /\ Slots \in Nat
  BY <1>1, <1>3, PartCount, NumbersAre DEF ContextInv, TableFits
<1>5. /\ active' \subseteq V!Contexts' /\ DOMAIN read' \subseteq V!Contexts'
      /\ V!Contexts' \ active' \subseteq DOMAIN read'
  BY <1>1, <1>2 DEF ContextInv, TableFits
<1>6. TableFits'
  BY <1>4, <1>5 DEF TableFits
<1>7. active \subseteq Works
  BY DEF ContextInv, ContextTypes
<1> QED BY <1>1, <1>2, <1>6, <1>7

\* What a step leaves alone when it touches no context.
LEMMA TableStays ==
  ASSUME ContextInv, UNCHANGED <<ctx, read, active>>
  PROVE  /\ ctx' \in [Works -> ContextRows] /\ ReadInOrder' /\ TableFits'
         /\ \A w \in active : ctx'[w] = ctx[w]
<1>1. ctx' = ctx /\ read' = read /\ active' = active
  OBVIOUS
<1>2. V!Contexts' = V!Contexts
  BY <1>1 DEF V!Contexts
<1> QED BY <1>1, <1>2 DEF ContextInv, ContextTypes, ReadInOrder, TableFits

LEMMA SaveKeeps ==
  ASSUME ContextsGiven, ContextInv, NEW w \in Works, V!Save(w)
  PROVE  ContextInv'
<1>1. saved \in [Works -> [rev : Nat, closed : BOOLEAN]] /\ UNCHANGED <<V!table, inflight, waiters, req, V!service>>
  BY DEF V!Save, ContextInv, ContextTypes
<1>2. saved' \in [Works -> [rev : Nat, closed : BOOLEAN]]
  <2>1. CASE saved' = [saved EXCEPT ![w].rev = @ + 1]
    <3>1. saved' = [saved EXCEPT ![w] = [saved[w] EXCEPT !.rev = saved[w].rev + 1]]
      BY <1>1, <2>1
    <3>2. saved[w].rev + 1 \in Nat
      BY <1>1
    <3> QED BY <1>1, <3>1, <3>2
  <2>2. CASE saved' = [saved EXCEPT ![w].closed = TRUE]
    BY <1>1, <2>2
  <2> QED BY <2>1, <2>2 DEF V!Save
<1>3. /\ UNCHANGED <<ctx, read, active>> /\ stale' = stale /\ serving' = serving /\ reason' = reason /\ cut' = cut
      /\ inflight' = inflight
  BY <1>1 DEF V!table, V!service
<1>4. Departs' /\ cut' \in Nat /\ stale' \subseteq Works /\ serving' \in {"accepting", "draining", "closing", "down"}
  BY <1>3 DEF ContextInv, Departs, ContextTypes
<1>5. /\ ctx' \in [Works -> ContextRows] /\ ReadInOrder' /\ TableFits'
      /\ \A v \in active : ctx'[v] = ctx[v]
  BY <1>3, TableStays
<1> QED BY <1>1, <1>2, <1>3, <1>4, <1>5, HostStepKeeps

\* A step that only grows stale, or turns to quiet and back.
LEMMA TimeKeeps ==
  ASSUME ContextsGiven, ContextInv, stale' \subseteq Works,
         UNCHANGED <<saved, ctx, read, active, inflight, waiters, req, V!service>>
  PROVE  ContextInv'
<1>1. UNCHANGED <<ctx, read, active>> /\ saved' = saved /\ serving' = serving /\ reason' = reason /\ cut' = cut
      /\ inflight' = inflight /\ req' = req
  BY DEF V!service
<1>2. /\ Departs' /\ cut' \in Nat /\ serving' \in {"accepting", "draining", "closing", "down"}
      /\ saved' \in [Works -> [rev : Nat, closed : BOOLEAN]]
  BY <1>1 DEF ContextInv, Departs, ContextTypes
<1>3. /\ ctx' \in [Works -> ContextRows] /\ ReadInOrder' /\ TableFits'
      /\ \A v \in active : ctx'[v] = ctx[v]
  BY <1>1, TableStays
<1> QED BY <1>1, <1>2, <1>3, HostStepKeeps

LEMMA SweepKeeps ==
  ASSUME ContextsGiven, ContextInv, V!Sweep
  PROVE  ContextInv'
<1> DEFINE gone == stale \ active
           retires == serving = "accepting" /\ V!MayRetire
<1>1. /\ ctx' = V!Dropped(gone) /\ stale' = stale \ gone /\ read' = V!Forgotten(gone)
      /\ UNCHANGED <<saved, active, inflight, waiters, cut>>
      /\ IF retires THEN serving' = "closing" /\ reason' = "idle_timeout" /\ req' = V!Notified(req)
         ELSE UNCHANGED <<serving, reason, req>>
  BY DEF V!Sweep
<1>2. /\ saved' \in [Works -> [rev : Nat, closed : BOOLEAN]] /\ stale' \subseteq Works
      /\ cut' = cut /\ cut \in Nat /\ serving' \in {"accepting", "draining", "closing", "down"}
  BY <1>1 DEF ContextInv, ContextTypes
<1>3. /\ ctx' \in [Works -> ContextRows] /\ ReadInOrder' /\ TableFits'
      /\ \A v \in active : ctx'[v] = ctx[v]
  <2>1. gone \intersect active = {}
    OBVIOUS
  <2> HIDE DEF gone
  <2> QED BY <1>1, <2>1, DropKeepsTable
<1>4. Departs'
  <2>1. CASE retires
    <3>1. serving' = "closing" /\ reason' = "idle_timeout" /\ inflight' = 0
      BY <1>1, <2>1 DEF V!MayRetire
    <3> QED BY <1>2, <3>1 DEF Departs
  <2>2. CASE ~retires
    BY <1>1, <2>2 DEF ContextInv, Departs
  <2> QED BY <2>1, <2>2
<1>5. /\ req' = req \/ req' = V!Notified(req)
      /\ req' = V!Notified(req) \/ (serving = "accepting" => serving' = "accepting")
  BY <1>1
<1>6. UNCHANGED <<active, inflight, waiters>>
  BY <1>1
<1> QED BY <1>2, <1>3, <1>4, <1>5, <1>6, HostStepKeeps

LEMMA StopKeeps ==
  ASSUME ContextsGiven, ContextInv, V!Stop
  PROVE  ContextInv'
<1>1. /\ UNCHANGED <<ctx, read, active>> /\ saved' = saved /\ stale' = stale /\ cut' = cut
      /\ UNCHANGED <<active, inflight, waiters>> /\ req' = V!Notified(req)
      /\ serving' = "draining" /\ reason' = "explicit_stop"
  BY DEF V!Stop, V!table
<1>2. /\ Departs' /\ cut' \in Nat /\ serving' \in {"accepting", "draining", "closing", "down"}
      /\ saved' \in [Works -> [rev : Nat, closed : BOOLEAN]] /\ stale' \subseteq Works
  BY <1>1 DEF ContextInv, Departs, ContextTypes
<1>3. /\ ctx' \in [Works -> ContextRows] /\ ReadInOrder' /\ TableFits'
      /\ \A v \in active : ctx'[v] = ctx[v]
  BY <1>1, TableStays
<1> QED BY <1>1, <1>2, <1>3, HostStepKeeps

LEMMA DrainKeeps ==
  ASSUME ContextsGiven, ContextInv, V!Drain
  PROVE  ContextInv'
<1>1. /\ UNCHANGED <<ctx, read, active>> /\ saved' = saved /\ stale' = stale /\ cut' = inflight
      /\ UNCHANGED <<active, inflight, waiters>> /\ req' = req /\ inflight' = inflight
      /\ serving = "draining" /\ serving' = "closing" /\ reason' = reason
  BY DEF V!Drain, V!table
<1>2. inflight \in Nat /\ reason = "explicit_stop"
  BY <1>1, NumbersAre DEF ContextInv, Departs
<1>3. /\ Departs' /\ cut' \in Nat /\ serving' \in {"accepting", "draining", "closing", "down"}
  BY <1>1, <1>2 DEF Departs
<1>4. /\ saved' \in [Works -> [rev : Nat, closed : BOOLEAN]] /\ stale' \subseteq Works
  BY <1>1 DEF ContextInv, ContextTypes
<1>5. /\ ctx' \in [Works -> ContextRows] /\ ReadInOrder' /\ TableFits'
      /\ \A v \in active : ctx'[v] = ctx[v]
  BY <1>1, TableStays
<1>6. serving = "accepting" => serving' = "accepting"
  BY <1>1
<1> QED BY <1>1, <1>3, <1>4, <1>5, <1>6, HostStepKeeps

LEMMA CloseKeeps ==
  ASSUME ContextsGiven, ContextInv, V!Close
  PROVE  ContextInv'
<1> DEFINE gone == Works \ active
<1>1. /\ stale' = {} /\ UNCHANGED <<saved, active, inflight, waiters, req, reason, cut>>
      /\ serving = "closing" /\ serving' = "down"
      /\ ctx' = V!Dropped(V!Contexts \ active) /\ read' = V!Forgotten(DOMAIN read \ active)
  BY DEF V!Close
<1>2. ctx' = V!Dropped(gone)
  <2>1. \A w \in Works : w \notin V!Contexts => ctx[w] = V!NoContext
    BY DEF V!Contexts
  <2> QED BY <1>1, <2>1 DEF V!Dropped
<1>3. read' = V!Forgotten(DOMAIN read \intersect gone)
  <2>1. DOMAIN read \intersect gone = DOMAIN read \ active
    BY DEF ContextInv, ReadInOrder
  <2> QED BY <1>1, <2>1
<1>4. /\ ctx' \in [Works -> ContextRows] /\ ReadInOrder' /\ TableFits'
      /\ \A v \in active : ctx'[v] = ctx[v]
  <2>1. gone \intersect active = {} /\ active' = active
    BY <1>1
  <2> HIDE DEF gone
  <2> QED BY <1>2, <1>3, <2>1, DropKeepsTable
<1>5. /\ Departs' /\ cut' \in Nat /\ serving' \in {"accepting", "draining", "closing", "down"}
      /\ saved' \in [Works -> [rev : Nat, closed : BOOLEAN]] /\ stale' \subseteq Works
  BY <1>1 DEF ContextInv, Departs, ContextTypes
<1>6. UNCHANGED <<active, inflight, waiters>> /\ req' = req /\ (serving = "accepting" => serving' = "accepting")
  BY <1>1
<1> QED BY <1>4, <1>5, <1>6, HostStepKeeps

-----------------------------------------------------------------------------
(* The specification. *)

LEMMA ContextInit ==
  ASSUME ContextsGiven, V!Init
  PROVE  ContextInv
<1>1. V!Contexts = {} /\ Cardinality(V!Contexts) = 0
  <2>1. \A w \in Works : ctx[w] = V!NoContext
    BY DEF V!Init
  <2>2. V!Contexts = {}
    BY <2>1 DEF V!Contexts
  <2> QED BY <2>2, FS_EmptySet
<1>2. DOMAIN read = {} /\ active = {} /\ stale = {}
  BY DEF V!Init
<1>3. \A r \in Requests : req[r] = V!Idle
  BY DEF V!Init
<1>4. ContextTypes
  BY <1>2, <1>3, IdleRow DEF ContextTypes, V!Init, V!NoContext, ContextRows
<1>5. ReadInOrder
  BY DEF V!Init, ReadInOrder
<1>6. TableFits
  BY <1>1, <1>2 DEF TableFits, ContextsGiven
<1>7. \A r \in Requests : RowFits(r) /\ Woken(r) /\ ~Pins(req[r]) /\ ~req[r].waiting /\ req[r].pc \notin V!Inside
  BY <1>3, IdleRow DEF RowFits, Woken, V!Inside
<1>8. Pinned = {} /\ Queued = {}
  BY <1>7 DEF Pinned, Queued
<1>9. Counted
  BY <1>8, FS_EmptySet DEF Counted, V!Init, ContextsGiven
<1>10. OneReader
  BY <1>2, <1>7 DEF OneReader
<1>11. Departs
  BY DEF V!Init, Departs
<1> QED BY <1>4, <1>5, <1>6, <1>7, <1>9, <1>10, <1>11 DEF ContextInv

LEMMA ContextStep ==
  ASSUME ContextsGiven, ContextInv, [V!Next]_(V!vars)
  PROVE  ContextInv'
<1>1. CASE UNCHANGED V!vars
  <2>1. UNCHANGED <<saved, ctx, read, active, inflight, waiters, req, V!service>> /\ stale' \subseteq Works
    BY <1>1 DEF V!vars, V!service, ContextInv, ContextTypes
  <2> QED BY <2>1, TimeKeeps
<1>2. ASSUME NEW r \in Requests, NEW w \in Works, NEW bind \in BOOLEAN, NEW rev \in Nat, V!Arrive(r, w, rev, bind)
      PROVE  ContextInv'
  BY <1>2, ArriveKeeps
<1>3. ASSUME NEW r \in Requests, V!Serve(r) PROVE ContextInv'
  BY <1>3, CheckFirstKeeps, GateKeeps, GiveUpKeeps, EnterKeeps, LoadKeeps, AnswerKeeps, LeaveKeeps DEF V!Serve
<1>4. ASSUME NEW w \in Works, V!Grow(w) PROVE ContextInv'
  <2>1. UNCHANGED <<saved, ctx, read, active, inflight, waiters, req, V!service>> /\ stale' \subseteq Works
    BY <1>4 DEF V!Grow, ContextInv, ContextTypes
  <2> QED BY <2>1, TimeKeeps
<1>5. ASSUME NEW w \in Works, V!Save(w) PROVE ContextInv'
  BY <1>5, SaveKeeps
<1>6. CASE V!Activity \/ V!Quiet
  <2>1. UNCHANGED <<saved, ctx, read, active, inflight, waiters, req, V!service>> /\ stale' \subseteq Works
    BY <1>6 DEF V!Activity, V!Quiet, V!table, ContextInv, ContextTypes
  <2> QED BY <2>1, TimeKeeps
<1>7. CASE V!Sweep \/ V!Stop \/ V!Drain \/ V!Close
  BY <1>7, SweepKeeps, StopKeeps, DrainKeeps, CloseKeeps
<1> QED BY <1>1, <1>2, <1>3, <1>4, <1>5, <1>6, <1>7 DEF V!Next

\* The invariant holds whatever the number of threads, Works and places.
THEOREM ContextInvariant == ASSUME V!ContextConstants PROVE V!Spec => []ContextInv
<1>0. ContextsGiven
  BY GivenContexts
<1>1. V!Init => ContextInv
  BY <1>0, ContextInit
<1>2. ContextInv /\ [V!Next]_(V!vars) => ContextInv'
  BY <1>0, ContextStep
<1> QED BY <1>1, <1>2, PTL DEF V!Spec

\* No thread waits beside a place it could have: whoever frees a place or retires
\* the host tells those who wait, and a dropped context, of which nobody is told,
\* never was what they waited for (Lifecycle.heavy, sweep).
THEOREM NobodyWaitsForNothing == ASSUME V!ContextConstants PROVE V!Spec => []V!NoLostWakeup
<1>0. ContextsGiven
  BY GivenContexts
<1>1. ContextInv => V!NoLostWakeup
  <2> SUFFICES ASSUME ContextInv, NEW r \in Requests, req[r].pc = "waiting"
               PROVE  serving = "accepting" /\ ~V!Available(req[r].work)
    BY DEF V!NoLostWakeup
  <2>1. serving = "accepting" /\ (req[r].work \in active \/ Slots <= Cardinality(active))
    BY DEF ContextInv, Woken
  <2>2. Slots \in Nat /\ Cardinality(active) \in Nat
    BY <1>0, NumbersAre
  <2>3. ~(req[r].work \notin active /\ Cardinality(active) < Slots)
    BY <2>1, <2>2
  <2> QED BY <2>1, <2>3, PlacesAre
<1> QED BY <1>1, ContextInvariant, PTL

\* There are never more projections than places, one request reads a Work at a
\* time, and what it reads from is neither taken away nor replaced under it,
\* whoever makes room, sweeps or stops (Lifecycle.heavy, sweep).
THEOREM ContextsStayBounded == ASSUME V!ContextConstants PROVE V!Spec => []V!ContextsBounded
<1>0. ContextsGiven
  BY GivenContexts
<1>1. ContextInv => V!ContextsBounded
  BY SameCounts DEF ContextInv, TableFits, OneReader, RowFits, V!ContextsBounded
<1> QED BY <1>1, ContextInvariant, PTL

\* inflight, waiters and active count exactly the requests at work, waiting and
\* reading, through every refusal, timeout and failure (Lifecycle.heavy).
THEOREM PinsStayReal == ASSUME V!ContextConstants PROVE V!Spec => []V!PinsAreReal
<1>0. ContextsGiven
  BY GivenContexts
<1>1. ASSUME ContextInv PROVE V!PinsAreReal
  <2>1. Pinned = {r \in Requests : req[r].pc \in V!Inside \/ (req[r].bind /\ req[r].pc # "idle")}
    BY DEF Pinned, Pins
  <2>2. \A r \in Requests : req[r].pc \in V!Inside => req[r].work \in active
    BY <1>1 DEF ContextInv, RowFits
  <2>3. \A w \in active : \E r \in Requests : req[r].pc \in V!Inside /\ req[r].work = w
    BY <1>1 DEF ContextInv, OneReader
  <2>4. active = {req[r].work : r \in {q \in Requests : req[q].pc \in V!Inside}}
    BY <2>2, <2>3
  <2>5. inflight = Cardinality(Pinned) /\ waiters = Cardinality(Queued)
    BY <1>1 DEF ContextInv, Counted
  <2>6. V!Cardinality(Pinned) = Cardinality(Pinned) /\ V!Cardinality(Queued) = Cardinality(Queued)
    BY SameCounts
  <2> QED BY <2>1, <2>4, <2>5, <2>6 DEF V!PinsAreReal, Queued
<1> QED BY <1>1, ContextInvariant, PTL

\* A host that went idle left no request behind, and a stop that gave up waiting
\* says for how many (Lifecycle.stop, sweep).
THEOREM ExitStaysHonest == ASSUME V!ContextConstants PROVE V!Spec => []V!ExitIsHonest
<1>0. ContextsGiven
  BY GivenContexts
<1>1. ContextInv => V!ExitIsHonest
  BY DEF ContextInv, Departs, V!ExitIsHonest
<1> QED BY <1>1, ContextInvariant, PTL

\* Every variable of the lifecycle keeps its type (TypeOK of ViewContexts).
THEOREM ContextsWellTyped == ASSUME V!ContextConstants PROVE V!Spec => []V!TypeOK
<1>0. ContextsGiven
  BY GivenContexts
<1>1. ASSUME ContextInv PROVE V!TypeOK
  <2>1. Pinned \in SUBSET Requests /\ IsFiniteSet(Requests)
    BY <1>0 DEF Pinned, ContextsGiven
  <2>2. inflight \in 0..Cardinality(Requests)
    <3>1. /\ Cardinality(Pinned) \in Nat /\ Cardinality(Requests) \in Nat
          /\ Cardinality(Pinned) <= Cardinality(Requests) /\ inflight = Cardinality(Pinned)
      BY <1>1, <2>1, PartCount DEF ContextInv, Counted
    <3> QED BY <3>1
  <2>3. waiters \in 0..MaxWaiters
    BY <1>0, <1>1, NumbersAre
  <2>4. read \in [DOMAIN read -> SUBSET Works] /\ DOMAIN read \subseteq Works
    BY <1>1 DEF ContextInv, ReadInOrder
  <2>5. \A r \in Requests : req[r].pc \in {"idle", "check", "gate", "waiting"} \union V!Inside
    BY <1>1 DEF ContextInv, ContextTypes, RequestRows
  <2>6. V!Cardinality(Requests) = Cardinality(Requests)
    BY SameCounts
  <2> QED BY <1>1, <2>2, <2>3, <2>4, <2>5, <2>6 DEF ContextInv, ContextTypes, V!TypeOK
<1> QED BY <1>1, ContextInvariant, PTL

\* Nobody else touches a request that is being answered.
LEMMA OthersLeaveAnswers ==
  ASSUME req \in [Requests -> RequestRows], NEW q \in Requests, NEW r \in Requests, q # r,
         req[r].pc = "answer", V!Serve(q)
  PROVE  req'[r] = req[r]
<1>1. \A s \in [Requests -> RequestRows] : s[r].pc = "answer" => V!Notified(s)[r] = s[r]
  BY DEF V!Notified
<1>2. V!Ends(q) \in [Requests -> RequestRows] /\ V!Ends(q)[r] = req[r]
  BY IdleRow DEF V!Ends
<1>3. V!Notified(V!Ends(q))[r] = req[r]
  BY <1>1, <1>2
<1>4. CASE V!CheckFirst(q)
  BY <1>2, <1>3, <1>4 DEF V!CheckFirst, V!Goes
<1>5. CASE V!Gate(q)
  BY <1>2, <1>3, <1>5 DEF V!Gate
<1>6. CASE V!GiveUp(q)
  BY <1>2, <1>3, <1>6 DEF V!GiveUp
<1>7. CASE V!Enter(q)
  BY <1>7 DEF V!Enter
<1>8. CASE V!Load(q) \/ V!Answer(q)
  BY <1>8 DEF V!Load, V!Answer
<1>9. CASE V!Leave(q)
  BY <1>3, <1>9 DEF V!Leave, V!Wakes
<1> QED BY <1>4, <1>5, <1>6, <1>7, <1>8, <1>9 DEF V!Serve

LEMMA OnlyAnswerAnswers ==
  ASSUME req \in [Requests -> RequestRows], NEW r \in Requests, V!Next,
         req[r].pc = "answer", req'[r].pc = "leave"
  PROVE  V!StillSaved(r)
<1>1. req'[r] # req[r]
  OBVIOUS
<1>2. ASSUME NEW q \in Requests, NEW w \in Works, NEW bind \in BOOLEAN, NEW rev \in Nat, V!Arrive(q, w, rev, bind)
      PROVE  FALSE
  <2>1. q # r
    BY <1>2 DEF V!Arrive
  <2>2. req' = [req EXCEPT ![q] = [V!Idle EXCEPT !.work = w, !.rev = rev, !.bind = bind, !.pc = "check"]]
    BY <1>2 DEF V!Arrive
  <2> QED BY <1>1, <2>1, <2>2
<1>3. ASSUME NEW q \in Requests, V!Serve(q) PROVE V!StillSaved(r)
  <2>1. CASE q # r
    BY <1>1, <1>3, <2>1, OthersLeaveAnswers
  <2>2. CASE q = r
    <3>1. V!Answer(r)
      BY <1>3, <2>2 DEF V!Serve, V!CheckFirst, V!Gate, V!GiveUp, V!Enter, V!Load, V!Leave
    <3>2. req' # [req EXCEPT ![r].pc = "fail"]
      <4>1. [req EXCEPT ![r].pc = "fail"][r].pc = "fail"
        BY DEF RequestRows
      <4> QED BY <4>1
    <3> QED BY <3>1, <3>2 DEF V!Answer
  <2> QED BY <2>1, <2>2
<1>4. ~(req' = req)
  BY <1>1
<1>5. ~(req' = V!Notified(req))
  BY <1>1 DEF V!Notified
<1>6. ~(\E w \in Works : V!Grow(w) \/ V!Save(w))
  BY <1>4 DEF V!Grow, V!Save
<1>7. ~(V!Activity \/ V!Quiet \/ V!Drain \/ V!Close)
  BY <1>4 DEF V!Activity, V!Quiet, V!Drain, V!Close
<1>8. ~(V!Sweep \/ V!Stop)
  BY <1>4, <1>5 DEF V!Sweep, V!Stop
<1> QED BY <1>2, <1>3, <1>6, <1>7, <1>8 DEF V!Next

\* What is answered for a revision was made from that revision while it was the
\* saved one, whichever context it came from (PlanView._load, _check).
THEOREM AnswersAreOfTheirRevision == ASSUME V!ContextConstants PROVE V!Spec => V!AnswersItsRevision
<1>0. ContextsGiven
  BY GivenContexts
<1>1. ASSUME ContextInv, [V!Next]_(V!vars) PROVE [V!AnswersItsRevisionStep]_(V!vars)
  <2> SUFFICES ASSUME V!Next, NEW r \in Requests, req[r].pc = "answer", req'[r].pc = "leave"
               PROVE  req[r].from.rev = req[r].rev /\ saved[req[r].work].rev = req[r].rev
    BY <1>1 DEF V!AnswersItsRevisionStep
  <2>1. req[r].from.rev = req[r].rev
    BY <1>1 DEF ContextInv, RowFits
  <2>2. V!StillSaved(r)
    BY <1>1, OnlyAnswerAnswers DEF ContextInv, ContextTypes
  <2> QED BY <2>1, <2>2 DEF V!StillSaved
<1> QED BY <1>1, ContextInvariant, PTL DEF V!Spec, V!AnswersItsRevision
=============================================================================
