----------------------------- MODULE ViewContexts -----------------------------
(***************************************************************************)
(* The Plan view host from the inside (runtime/_view_lifecycle.py and the  *)
(* requests of runtime/_view_server.py): threads that read projections of  *)
(* Works, at most Slots of which are kept; a bounded number of waiters;    *)
(* the sweep that drops idle projections and retires an idle host; stop.   *)
(* Beside them Plan Work saves new revisions and freezes Works.            *)
(***************************************************************************)
EXTENDS Integers, FiniteSets

CONSTANTS Works,       \* the routes of this host
          Requests,    \* its request threads
          Slots,       \* Policy.contexts
          MaxWaiters,  \* Policy.waiters
          None, MaxSaves, MaxArrivals

\* Assumed of the constants, and checked where they are given values.
ContextConstants ==
  /\ IsFiniteSet(Works) /\ IsFiniteSet(Requests)
  /\ {Slots, MaxWaiters, MaxSaves, MaxArrivals} \subseteq Nat

VARIABLES saved,     \* Work -> the binding in the store: revision and whether frozen
          ctx,       \* Work -> no context, a reserved one, or the binding it was built for
          read,      \* last_read: of each Work that has one, the Works read before it
          stale,     \* contexts not read for cache_idle
          active,    \* Works with a heavy request inside
          inflight, waiters,
          req,       \* thread -> its request
          host,      \* accepting, draining, closing or down
          reason,    \* why it retired
          cut,       \* requests a stop gave up waiting for
          quiet,     \* no use for service_idle
          saves, arrivals
vars == <<saved, ctx, read, stale, active, inflight, waiters, req, host, reason, cut, quiet, saves, arrivals>>
table == <<ctx, read, stale, active>>
service == <<host, reason, cut>>
counted == <<saves, arrivals>>

NoContext == [kind |-> "none", rev |-> 0, closed |-> FALSE]
Reserved == [kind |-> "reserved", rev |-> 0, closed |-> FALSE]
Built(b) == [kind |-> "built", rev |-> b.rev, closed |-> b.closed]
Idle == [pc |-> "idle", work |-> None, rev |-> 0, bind |-> FALSE, waiting |-> FALSE,
         held |-> NoContext, from |-> NoContext]
Contexts == {w \in Works : ctx[w] # NoContext}

Goes(r, pc) == [req EXCEPT ![r].pc = pc]
Ends(r) == [req EXCEPT ![r] = Idle]
\* notify_all: every waiting thread looks again.
Notified(q) == [r \in Requests |-> IF q[r].pc = "waiting" THEN [q[r] EXCEPT !.pc = "gate"] ELSE q[r]]

-----------------------------------------------------------------------------
(* A request arrives with the revision its page or receipt speaks of.  A   *)
(* retiring host refuses it, and a page of a revision that is no longer    *)
(* saved is refused before it takes anything; a delivery is pinned at once.*)
Arrive(r, w, rev, bind) ==
  /\ req[r].pc = "idle" /\ arrivals < MaxArrivals /\ arrivals' = arrivals + 1
  /\ host = "accepting" /\ (saved[w].rev = rev \/ bind)
  /\ req' = [req EXCEPT ![r] = [Idle EXCEPT !.work = w, !.rev = rev, !.bind = bind, !.pc = "check"]]
  /\ inflight' = IF bind THEN inflight + 1 ELSE inflight
  /\ UNCHANGED <<saved, table, waiters, service, quiet, saves>>

(* An open page that is still current reports that somebody looks at it. *)
Activity == host = "accepting" /\ quiet /\ quiet' = FALSE
            /\ UNCHANGED <<saved, table, inflight, waiters, req, service, counted>>

\* The pin of a delivery is given back with its answer.
Unpinned(r) == IF req[r].bind THEN inflight - 1 ELSE inflight

(* heavy() looks at the binding before it asks for a place. *)
CheckFirst(r) ==
  /\ req[r].pc = "check"
  /\ IF saved[req[r].work].rev # req[r].rev
     THEN /\ inflight' = Unpinned(r)
          /\ quiet' = (quiet /\ ~req[r].bind)
          /\ req' = IF req[r].bind THEN Notified(Ends(r)) ELSE Ends(r)
     ELSE req' = Goes(r, "gate") /\ UNCHANGED <<inflight, quiet>>
  /\ UNCHANGED <<saved, table, waiters, service, counted>>

Available(w) == w \notin active /\ Cardinality(active) < Slots
Dropped(W) == [w \in Works |-> IF w \in W THEN NoContext ELSE ctx[w]]

Forgotten(W) == [w \in DOMAIN read \ W |-> read[w] \ W]
Latest(w) == [v \in DOMAIN read \union {w} |-> IF v = w THEN DOMAIN read \ {w} ELSE read[v] \ {w}]

(* The longest unread context that nobody uses makes room for a new one. *)
Victim(w) ==
  LET idle == Contexts \ active
  IN IF w \in Contexts \/ Cardinality(Contexts) < Slots THEN {}
     ELSE {v \in idle : read[v] \intersect idle = {}}

Fits(w) == w \in Contexts \/ Cardinality(Contexts \ Victim(w)) < Slots

Leaves(r) == IF req[r].waiting THEN waiters - 1 ELSE waiters

(* The admission: a place, a place in the bounded queue, or a refusal. *)
Gate(r) ==
  LET w == req[r].work
      v == Victim(w)
      refuse == /\ inflight' = Unpinned(r)
                /\ waiters' = Leaves(r)
                /\ quiet' = (quiet /\ ~req[r].bind)
                /\ req' = IF req[r].bind THEN Notified(Ends(r)) ELSE Ends(r)
                /\ UNCHANGED table
  IN /\ req[r].pc = "gate"
     /\ \/ host # "accepting" /\ refuse
        \/ /\ host = "accepting" /\ Available(w) /\ Fits(w)
           /\ active' = active \union {w}
           /\ ctx' = [Dropped(v) EXCEPT ![w] = IF @ = NoContext THEN Reserved ELSE @]
           /\ read' = Forgotten(v) /\ stale' = stale \ v
           /\ inflight' = IF req[r].bind THEN inflight ELSE inflight + 1
           /\ waiters' = Leaves(r)
           /\ req' = [req EXCEPT ![r].pc = "enter", ![r].waiting = FALSE]
           /\ UNCHANGED quiet
        \/ /\ host = "accepting" /\ ~(Available(w) /\ Fits(w))
           /\ IF ~req[r].waiting /\ waiters >= MaxWaiters THEN refuse
              ELSE /\ req' = [req EXCEPT ![r].pc = "waiting", ![r].waiting = TRUE]
                   /\ waiters' = IF req[r].waiting THEN waiters ELSE waiters + 1
                   /\ UNCHANGED <<table, inflight, quiet>>
     /\ UNCHANGED <<saved, service, counted>>

(* wait_seconds are over. *)
GiveUp(r) ==
  /\ req[r].pc = "waiting"
  /\ waiters' = waiters - 1 /\ inflight' = Unpinned(r) /\ quiet' = (quiet /\ ~req[r].bind)
  /\ req' = IF req[r].bind THEN Notified(Ends(r)) ELSE Ends(r)
  /\ UNCHANGED <<saved, table, service, counted>>

(* Only a context built for exactly what is saved is used again. *)
Reuse(w) == ctx[w] = Built(saved[w])

(* Under the Work's lock: the revision is checked again and the projection *)
(* taken or built; building it may fail.                                   *)
Enter(r) ==
  LET w == req[r].work
  IN /\ req[r].pc = "enter"
     /\ \/ saved[w].rev # req[r].rev /\ req' = [req EXCEPT ![r].pc = "fail"]
           /\ UNCHANGED ctx
        \/ saved[w].rev = req[r].rev /\ ~Reuse(w) /\ req' = [req EXCEPT ![r].pc = "fail"]
           /\ ctx' = [ctx EXCEPT ![w] = Reserved]
        \/ /\ saved[w].rev = req[r].rev
           /\ ctx' = [ctx EXCEPT ![w] = IF Reuse(w) THEN @ ELSE Built(saved[w])]
           /\ req' = [req EXCEPT ![r].pc = "load", ![r].held = ctx'[w]]
     /\ UNCHANGED <<saved, read, stale, active, inflight, waiters, service, quiet, counted>>

(* PlanView._load: the analysis is made anew when the Work changed since   *)
(* the projection was made.                                                *)
Load(r) ==
  LET w == req[r].work
  IN /\ req[r].pc = "load"
     /\ IF saved[w].rev # req[r].rev
        THEN req' = [req EXCEPT ![r].pc = "fail"]
        ELSE req' = [req EXCEPT ![r].pc = "answer", ![r].from = Built(saved[w])]
     /\ UNCHANGED <<saved, table, inflight, waiters, service, quiet, counted>>

\* Variant: the end of the request does not look at the revision.
Unchecked(r) == TRUE

(* PlanView._check: the revision is still the saved one. *)
StillSaved(r) == saved[req[r].work].rev = req[r].rev

(* The answer is made of the loaded analysis and sent; reading the Result  *)
(* or sending may fail.                                                    *)
Answer(r) ==
  /\ req[r].pc = "answer"
  /\ \/ ~StillSaved(r) /\ req' = [req EXCEPT ![r].pc = "fail"]
     \/ StillSaved(r) /\ req' = [req EXCEPT ![r].pc = "leave"]
     \/ req' = [req EXCEPT ![r].pc = "fail"]
  /\ UNCHANGED <<saved, table, inflight, waiters, service, quiet, counted>>

Wakes(q) == Notified(q)

(* The end of heavy(): a failed request takes its context along, the place *)
(* and the pin are given back and the waiting threads told.                *)
Leave(r) ==
  LET w == req[r].work
      failed == req[r].pc = "fail"
  IN /\ req[r].pc \in {"leave", "fail"}
     /\ ctx' = IF failed THEN Dropped({w}) ELSE ctx
     /\ read' = IF failed THEN Forgotten({w}) ELSE Latest(w)
     /\ stale' = stale \ {w}
     /\ active' = active \ {w}
     /\ inflight' = inflight - 1
     /\ quiet' = FALSE
     /\ req' = Wakes(Ends(r))
     /\ UNCHANGED <<saved, waiters, service, counted>>

-----------------------------------------------------------------------------
(* Time passes: contexts grow stale, the service has long been unused. *)
Grow(w) == w \in Contexts \ stale /\ w \notin active /\ stale' = stale \union {w}
           /\ UNCHANGED <<saved, ctx, read, active, inflight, waiters, req, service, quiet, counted>>
Quiet == ~quiet /\ quiet' = TRUE
         /\ UNCHANGED <<saved, table, inflight, waiters, req, service, counted>>

MayRetire == quiet /\ inflight = 0

(* The sweep drops stale contexts nobody uses and retires an idle host. *)
Sweep ==
  LET gone == stale \ active
      retires == host = "accepting" /\ MayRetire
  IN /\ host # "down" /\ (gone # {} \/ retires)
     /\ ctx' = Dropped(gone) /\ stale' = stale \ gone
     /\ read' = Forgotten(gone)
     /\ IF retires THEN host' = "closing" /\ reason' = "idle_timeout" /\ req' = Notified(req)
        ELSE UNCHANGED <<host, reason, req>>
     /\ UNCHANGED <<saved, active, inflight, waiters, cut, quiet, counted>>

Stop ==
  /\ host = "accepting" /\ host' = "draining" /\ reason' = "explicit_stop"
  /\ req' = Notified(req)
  /\ UNCHANGED <<saved, table, inflight, waiters, cut, quiet, counted>>

(* The drain ends with the last request or with its deadline. *)
Drain ==
  /\ host = "draining" /\ host' = "closing" /\ cut' = inflight
  /\ UNCHANGED <<saved, table, inflight, waiters, req, reason, quiet, counted>>

(* The listener is closed, unused contexts are released; the process ends  *)
(* with its request threads.                                               *)
Close ==
  /\ host = "closing" /\ host' = "down"
  /\ ctx' = Dropped(Contexts \ active) /\ stale' = {}
  /\ read' = Forgotten(DOMAIN read \ active)
  /\ UNCHANGED <<saved, active, inflight, waiters, req, reason, cut, quiet, counted>>

(* Plan Work saves a revision, or freezes the Work. *)
Save(w) ==
  /\ saves < MaxSaves /\ ~saved[w].closed
  /\ \/ saved' = [saved EXCEPT ![w].rev = @ + 1]
     \/ saved' = [saved EXCEPT ![w].closed = TRUE]
  /\ saves' = saves + 1
  /\ UNCHANGED <<table, inflight, waiters, req, service, quiet, arrivals>>

Init ==
  /\ saved = [w \in Works |-> [rev |-> 0, closed |-> FALSE]]
  /\ ctx = [w \in Works |-> NoContext] /\ read = [w \in {} |-> {}] /\ stale = {} /\ active = {}
  /\ inflight = 0 /\ waiters = 0
  /\ req = [r \in Requests |-> Idle]
  /\ host = "accepting" /\ reason = "none" /\ cut = 0 /\ quiet = FALSE
  /\ saves = 0 /\ arrivals = 0

Serve(r) == CheckFirst(r) \/ Gate(r) \/ GiveUp(r) \/ Enter(r) \/ Load(r) \/ Answer(r) \/ Leave(r)

Next ==
  \/ \E r \in Requests, w \in Works, bind \in BOOLEAN :
       \E rev \in {saved[w].rev, saved[w].rev - 1} \cap Nat : Arrive(r, w, rev, bind)
  \/ host # "down" /\ \E r \in Requests : Serve(r)
  \/ \E w \in Works : Grow(w) \/ Save(w)
  \/ Activity \/ Quiet \/ Sweep \/ Stop \/ Drain \/ Close

Spec == Init /\ [][Next]_vars

-----------------------------------------------------------------------------
Inside == {"enter", "load", "answer", "leave", "fail"}

TypeOK ==
  /\ active \subseteq Works /\ stale \subseteq Works
  /\ DOMAIN read \subseteq Works /\ read \in [DOMAIN read -> SUBSET Works]
  /\ inflight \in 0..Cardinality(Requests) /\ waiters \in 0..MaxWaiters
  /\ host \in {"accepting", "draining", "closing", "down"}
  /\ \A r \in Requests : req[r].pc \in {"idle", "check", "gate", "waiting"} \union Inside

(* L08, L09: no more projections than Slots exist, being built, in use or  *)
(* kept; one request reads a Work at a time; and what a request reads from *)
(* is not taken away or replaced under it.                                 *)
ContextsBounded ==
  /\ Cardinality(Contexts) <= Slots /\ active \subseteq Contexts
  /\ \A r, s \in Requests : req[r].pc \in Inside /\ req[s].pc \in Inside /\ req[r].work = req[s].work => r = s
  /\ \A r \in Requests : req[r].pc \in {"load", "answer", "leave"} => ctx[req[r].work] = req[r].held
  /\ DOMAIN read \subseteq Contexts /\ Contexts \ active \subseteq DOMAIN read

(* L11: the pins count the requests at work, and no failure, refusal or    *)
(* timeout leaves a pin or a waiting place behind.                         *)
PinsAreReal ==
  /\ inflight = Cardinality({r \in Requests : req[r].pc \in Inside \/ (req[r].bind /\ req[r].pc # "idle")})
  /\ waiters = Cardinality({r \in Requests : req[r].waiting})
  /\ active = {req[r].work : r \in {q \in Requests : req[q].pc \in Inside}}

(* No thread waits beside a place it could have: who frees one says so. *)
NoLostWakeup ==
  \A r \in Requests : req[r].pc = "waiting" =>
    host = "accepting" /\ ~(Available(req[r].work) /\ Fits(req[r].work))

(* L11-L13: the idle exit never happens under a request, and a stop that   *)
(* does not wait for one says so.                                          *)
ExitIsHonest ==
  host \in {"closing", "down"} =>
    /\ reason = "idle_timeout" => inflight = 0
    /\ inflight <= cut

(* L04, L10: what is answered for a revision was made from that revision   *)
(* while it was the saved one, whichever context it came from.             *)
AnswersItsRevisionStep ==
  \A r \in Requests : req[r].pc = "answer" /\ req'[r].pc = "leave" =>
    req[r].from.rev = req[r].rev /\ saved[req[r].work].rev = req[r].rev

AnswersItsRevision == [][AnswersItsRevisionStep]_vars
=============================================================================
