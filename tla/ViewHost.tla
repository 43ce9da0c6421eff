------------------------------- MODULE ViewHost -------------------------------
(***************************************************************************)
(* The Plan view host from the outside (runtime/plan_views.py, and the     *)
(* start and the end of runtime/_view_server.py): processes that own one   *)
(* runtime directory one after the other by the lock of process.lock, the  *)
(* header they keep in that file, the connection.json that tells where     *)
(* they listen, and the clients, which look for a host, start one, deliver *)
(* a saved Work to it or stop it, under the parent's lifecycle.lock.       *)
(***************************************************************************)
EXTENDS Integers, FiniteSets

CONSTANTS Hosts,      \* the processes that may be started
          Clients,    \* each delivers once or stops once
          None,
          MaxFaults   \* crashes and answers that come too late

ASSUME ViewHostConstants == None \notin Hosts \union Clients /\ MaxFaults \in Nat

VARIABLES host,    \* process -> where it is
          owner,   \* who holds the lock of process.lock
          header,  \* what process.lock says: nothing, an empty file, or an instance
          conn,    \* the instance in connection.json
          parent,  \* who holds lifecycle.lock
          client,  \* client -> where it is
          faults
vars == <<host, owner, header, conn, parent, client, faults>>
files == <<header, conn>>

NoHeader == [kind |-> "absent", of |-> None, ended |-> FALSE]
EmptyHeader == [kind |-> "empty", of |-> None, ended |-> FALSE]
HeaderOf(h, ended) == [kind |-> "header", of |-> h, ended |-> ended]

At(c, pc) == client[c].pc = pc
Moves(c, pc) == client' = [client EXCEPT ![c].pc = pc]
Ends(c, outcome) == client' = [client EXCEPT ![c].pc = "done", ![c].outcome = outcome]
Becomes(h, pc) == host' = [host EXCEPT ![h] = pc]
Fault == faults < MaxFaults /\ faults' = faults + 1

-----------------------------------------------------------------------------
(* A process: it takes the lock of process.lock or ends, writes its header *)
(* over the old one, listens and publishes where.                          *)
Lock(h) ==
  /\ host[h] = "born"
  /\ IF owner # None THEN Becomes(h, "gone") /\ UNCHANGED owner
     ELSE Becomes(h, "locked") /\ owner' = h
  /\ header' = IF header = NoHeader THEN EmptyHeader ELSE header
  /\ UNCHANGED <<conn, parent, client, faults>>

Truncate(h) ==
  /\ host[h] \in {"locked", "cleaning"}
  /\ Becomes(h, IF host[h] = "locked" THEN "starting" ELSE "ending")
  /\ header' = EmptyHeader
  /\ UNCHANGED <<owner, conn, parent, client, faults>>

WriteHeader(h) ==
  /\ host[h] = "starting" /\ Becomes(h, "headed") /\ header' = HeaderOf(h, FALSE)
  /\ UNCHANGED <<owner, conn, parent, client, faults>>

(* It listens and publishes its address; it may fail before or after. *)
Publish(h) ==
  /\ host[h] = "headed" /\ conn' = h /\ Becomes(h, "serving")
  /\ UNCHANGED <<owner, header, parent, client, faults>>

StartFails(h) ==
  /\ host[h] = "headed" /\ Fault
  /\ \/ Becomes(h, "leaving") /\ header' = HeaderOf(h, TRUE)
     \/ Becomes(h, "closing") /\ UNCHANGED header
  /\ UNCHANGED <<owner, conn, parent, client>>

(* An idle host accepts nothing more, then closes its listener; one whose  *)
(* start is still awaited has not been idle for long.                      *)
Retire(h) == /\ host[h] = "serving" /\ \A c \in Clients : At(c, "await") => client[c].child # h
             /\ Becomes(h, "draining")
             /\ UNCHANGED <<owner, files, parent, client, faults>>

\* Variant: the lock of process.lock goes with the listener.
ShutReleases(h) == host[h] = "draining" /\ Becomes(h, "closing") /\ owner' = None
                   /\ UNCHANGED <<files, parent, client, faults>>

Shut(h) == host[h] = "draining" /\ Becomes(h, "closing")
           /\ UNCHANGED <<owner, files, parent, client, faults>>

(* The end: under the parent's lock it takes its own address away and      *)
(* writes how it ended; the lock of process.lock goes last.                *)
TakeParent(h) ==
  /\ host[h] = "closing" /\ parent = None /\ parent' = h
  /\ conn' = (IF conn = h THEN None ELSE conn)
  /\ Becomes(h, "cleaning")
  /\ UNCHANGED <<owner, header, client, faults>>

WriteEnd(h) ==
  /\ host[h] = "ending" /\ header' = HeaderOf(h, TRUE) /\ parent' = None
  /\ Becomes(h, "leaving")
  /\ UNCHANGED <<owner, conn, client, faults>>

Exit(h) == host[h] = "leaving" /\ Becomes(h, "gone") /\ owner' = None
           /\ UNCHANGED <<files, parent, client, faults>>

(* A process dies anywhere; the system gives its locks back. *)
Crash(h) ==
  /\ host[h] \notin {"unborn", "gone"} /\ Fault /\ Becomes(h, "gone")
  /\ owner' = IF owner = h THEN None ELSE owner
  /\ parent' = IF parent = h THEN None ELSE parent
  /\ UNCHANGED <<files, client>>

-----------------------------------------------------------------------------
(* process_state: the lock itself is probed, and the header read with it.  *)
Ownership ==
  CASE header.kind = "absent" -> "absent"
    [] owner # None -> "held"
    [] header.kind = "empty" -> "unknown"
    [] OTHER -> "released"

Ask(c, what) ==
  /\ At(c, "idle")
  /\ client' = [client EXCEPT ![c].pc = "wait", ![c].what = what]
  /\ UNCHANGED <<host, owner, files, parent, faults>>

(* lifecycle_lock. *)
TakeLock(c) ==
  /\ At(c, "wait") /\ parent = None /\ parent' = c
  /\ Moves(c, IF client[c].proving THEN "prove" ELSE "look")
  /\ UNCHANGED <<host, owner, files, faults>>

(* _info: the host of connection.json answers for itself, or it does not;  *)
(* an answer may be too late.                                              *)
Answers(h) == h # None /\ host[h] \in {"serving", "draining"}

Look(c) ==
  /\ At(c, "look")
  /\ \/ client' = [client EXCEPT ![c].pc = "probe", ![c].info = IF Answers(conn) THEN conn ELSE None,
                                 ![c].drains = Answers(conn) /\ host[conn] = "draining"]
        /\ UNCHANGED faults
     \/ Answers(conn) /\ Fault
        /\ client' = [client EXCEPT ![c].pc = "probe", ![c].info = None, ![c].drains = FALSE]
  /\ UNCHANGED <<host, owner, files, parent>>

KnowsRetiring(c) == header.of # None /\ client[c].retiring = header.of

(* ensure_host waits for an old process it knows to be retiring. *)
Waits(c) == (client[c].info # None /\ client[c].drains) \/ KnowsRetiring(c)

Found(c) == client[c].info # None /\ ~client[c].drains

(* What a delivery does when it has looked: the found host is used; an old *)
(* one is waited for without the lock, or nothing can be done; without an  *)
(* old one a new host is started.                                          *)
Ensure(c) ==
  /\ At(c, "probe") /\ client[c].what = "deliver"
  /\ \/ Found(c) /\ Moves(c, "bind") /\ parent' = None /\ UNCHANGED host
     \/ ~Found(c) /\ Ownership = "held" /\ Waits(c) /\ Moves(c, "wait") /\ parent' = None /\ UNCHANGED host
     \/ ~Found(c) /\ Ownership = "held" /\ ~Waits(c) /\ Ends(c, "unreachable") /\ parent' = None /\ UNCHANGED host
     \/ ~Found(c) /\ Ownership = "unknown" /\ Ends(c, "unverified") /\ parent' = None /\ UNCHANGED host
     \/ /\ ~Found(c) /\ Ownership \in {"absent", "released"}
        /\ \E h \in Hosts :
             /\ host[h] = "unborn" /\ Becomes(h, "born")
             /\ client' = [client EXCEPT ![c].pc = "await", ![c].child = h]
        /\ UNCHANGED parent
  /\ UNCHANGED <<owner, files, faults>>

(* The client that started a host keeps the lock until it answers, ends,   *)
(* or takes too long.                                                      *)
Await(c) ==
  /\ At(c, "await")
  /\ \/ host[client[c].child] = "gone" /\ Ends(c, "unavailable") /\ UNCHANGED faults
     \/ host[client[c].child] # "gone" /\ Answers(conn) /\ UNCHANGED faults
        /\ client' = [client EXCEPT ![c].pc = "bind", ![c].info = conn]
     \/ Fault /\ Ends(c, "unavailable")
  /\ parent' = None
  /\ UNCHANGED <<host, owner, files>>

(* The delivery itself: answered, refused by a retiring host, or nobody    *)
(* listens; it is tried once more.                                         *)
Bind(c) ==
  LET h == client[c].info
      again(retiring) ==
        IF client[c].again THEN Ends(c, "unavailable")
        ELSE client' = [client EXCEPT ![c].pc = "wait", ![c].again = TRUE, ![c].info = None,
                                      ![c].drains = FALSE, ![c].retiring = retiring]
  IN /\ At(c, "bind")
     /\ \/ host[h] = "serving" /\ Ends(c, "delivered") /\ UNCHANGED faults
        \/ host[h] = "serving" /\ Fault /\ Ends(c, "unavailable")
        \/ host[h] = "draining" /\ again(h) /\ UNCHANGED faults
        \/ host[h] \notin {"serving", "draining"} /\ again(None) /\ UNCHANGED faults
     /\ UNCHANGED <<host, owner, files, parent>>

-----------------------------------------------------------------------------
\* Variant: a host that does not answer is taken for a dead one.
ProvenBySilence == TRUE

Proven == Ownership = "released" \/ (Ownership = "absent" /\ conn = None)

(* control("stop"): without a host that answers, only the lock proves that *)
(* none runs; otherwise the found instance is told to stop.                *)
Stop(c) ==
  /\ At(c, "probe") /\ client[c].what = "stop" /\ parent' = None
  /\ \/ client[c].info = None /\ Ends(c, IF Proven THEN "stopped" ELSE "unknown")
     \/ client[c].info # None /\ Moves(c, "tell")
  /\ UNCHANGED <<host, owner, files, faults>>

Tell(c) ==
  /\ At(c, "tell")
  /\ client' = [client EXCEPT ![c].pc = "wait", ![c].proving = TRUE]
  /\ IF host[client[c].info] = "serving" THEN Becomes(client[c].info, "draining") ELSE UNCHANGED host
  /\ UNCHANGED <<owner, files, parent, faults>>

(* The exit is proven by the free lock and the header of that instance. *)
ExitProven(c) == Ownership = "released" /\ header.of = client[c].info

Prove(c) ==
  /\ At(c, "prove") /\ parent' = None
  /\ \/ ExitProven(c) /\ Ends(c, "stopped")
     \/ ~ExitProven(c) /\ Moves(c, "wait")
  /\ UNCHANGED <<host, owner, files, faults>>

(* The deadline of the whole delivery, or of the proof of the exit. *)
Deadline(c) ==
  /\ At(c, "wait") /\ Fault /\ Ends(c, IF client[c].what = "deliver" THEN "unavailable" ELSE "unknown")
  /\ UNCHANGED <<host, owner, files, parent>>

(* A client dies; its lock is given back, its child lives on. *)
ClientDies(c) ==
  /\ client[c].pc \notin {"idle", "done"} /\ Fault /\ Ends(c, "died")
  /\ parent' = IF parent = c THEN None ELSE parent
  /\ UNCHANGED <<host, owner, files>>

Init ==
  /\ host = [h \in Hosts |-> "unborn"] /\ owner = None
  /\ header = NoHeader /\ conn = None /\ parent = None
  /\ client = [c \in Clients |-> [pc |-> "idle", what |-> "none", info |-> None, drains |-> FALSE,
                                  child |-> None, again |-> FALSE, retiring |-> None,
                                  proving |-> FALSE, outcome |-> "none"]]
  /\ faults = 0

HostNext(h) ==
  \/ Lock(h) \/ Truncate(h) \/ WriteHeader(h) \/ Publish(h) \/ StartFails(h)
  \/ Retire(h) \/ Shut(h) \/ TakeParent(h) \/ WriteEnd(h) \/ Exit(h) \/ Crash(h)

ClientNext(c) ==
  \/ Ask(c, "deliver") \/ Ask(c, "stop")
  \/ TakeLock(c) \/ Look(c) \/ Ensure(c) \/ Await(c) \/ Bind(c)
  \/ Stop(c) \/ Tell(c) \/ Prove(c) \/ Deadline(c) \/ ClientDies(c)

Next == (\E h \in Hosts : HostNext(h)) \/ (\E c \in Clients : ClientNext(c))

Spec == Init /\ [][Next]_vars

-----------------------------------------------------------------------------
Owning == {"locked", "starting", "headed", "serving", "draining", "closing", "cleaning", "ending", "leaving"}

TypeOK ==
  /\ host \in [Hosts -> {"unborn", "born", "gone"} \union Owning]
  /\ owner \in Hosts \union {None} /\ conn \in Hosts \union {None}
  /\ parent \in Hosts \union Clients \union {None}
  /\ header \in {NoHeader, EmptyHeader} \union [kind : {"header"}, of : Hosts, ended : BOOLEAN]
  /\ faults \in 0..MaxFaults

(* L12, L14: one process at a time is the host of the directory, and while *)
(* it serves, the address and the header are its own: neither an old       *)
(* instance that cleans up late nor one that starts beside it takes them.  *)
OneHost ==
  /\ \A h, i \in Hosts : host[h] \in Owning /\ host[i] \in Owning => h = i
  /\ \A h \in Hosts : host[h] \in {"serving", "draining", "closing"} =>
       header = HeaderOf(h, FALSE) /\ (conn = h \/ host[h] = "closing")

(* "stopped" is said only when no process owns the directory, and of an    *)
(* instance that was told to stop only when its process is gone.           *)
StoppedIsRealStep ==
  \A c \in Clients : client'[c].outcome = "stopped" /\ client[c].outcome = "none" =>
    /\ owner = None
    /\ client[c].info # None => host[client[c].info] = "gone"

StoppedIsReal == [][StoppedIsRealStep]_vars

(* The race of a delivery with an orderly exit is bridged by one retry:    *)
(* without any fault no delivery is given up.                              *)
OrderlyExitIsBridged ==
  \A c \in Clients : faults = 0 => client[c].outcome \in {"none", "delivered", "stopped", "unknown"}

(* After a crash the next delivery brings a host back: a directory without *)
(* an owner never refuses one.                                             *)
UnknownIsNeverDead ==
  \A c \in Clients : client[c].outcome = "unverified" => owner # None
=============================================================================
