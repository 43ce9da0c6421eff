------------------------------- MODULE ResultRead -------------------------------
(***************************************************************************)
(* How precheck.read comes to a verified Result (precheck/read.py _load,   *)
(* _read_file.py).  Callers share one reader, whose lock covers a load and *)
(* whose cache holds one decoded Result, or two while a selection of one   *)
(* is resolved against another.  Under a load the sealed file, the         *)
(* workspace directory and the registered artifact proofs may change.      *)
(***************************************************************************)
EXTENDS Integers, FiniteSets

CONSTANTS Callers, Results,
          Bytes,        \* Result -> its size
          MaxCached,    \* _MAX_CACHED_RESULT_BYTES
          Unsound,      \* Results whose sealed bytes are no valid graph
          None, MaxChanges, MaxReads

VARIABLES file,     \* Result -> what the file at its path holds, and which one it is
          home,     \* which workspace stands at the reader's path
          proofs,   \* which artifact proofs are registered
          lock,     \* the caller inside _load
          first, second,   \* _cached_result and _cached_secondary
          call,     \* caller -> its load
          recent,   \* the Results of the last paired loads since anything else happened
          changes, reads   \* how often the world changed, how many loads began
vars == <<file, home, proofs, lock, first, second, call, recent, changes, reads>>
cache == <<first, second>>
disk == <<file, home, proofs>>

Holdings == {"sealed", "altered", "cut", "gone"}
Idle == [pc |-> "idle", want |-> None, pair |-> FALSE, key |-> None, hit |-> None, peer |-> None,
         opened |-> None, graph |-> None, decoded |-> FALSE, sure |-> FALSE, error |-> "none"]

Key(r) == [result |-> r, home |-> home, proofs |-> proofs]
Size(e) == IF e = None THEN 0 ELSE Bytes[e.key.result]

-----------------------------------------------------------------------------
(* The peer stays beside a newly verified Result when both fit. *)
Keeps(peer, key) == peer # None /\ peer.key # key /\ Size(peer) + Bytes[key.result] <= MaxCached

(* The cached entry under a key, and what stays aside for a paired read. *)
Search(key, pair) ==
  IF first # None /\ first.key = key THEN [hit |-> first, peer |-> IF pair THEN second ELSE None]
  ELSE [hit |-> IF second # None /\ second.key = key THEN second ELSE None,
        peer |-> IF pair THEN first ELSE None]

(* The registration is looked up, the cache searched and emptied. *)
Lookup(c, r, pair) ==
  LET s == Search(Key(r), pair)
  IN /\ call[c].pc \in {"idle", "done", "failed"} /\ lock = None /\ reads < MaxReads
     /\ lock' = c /\ reads' = reads + 1
     /\ first' = None /\ second' = None
     /\ call' = [call EXCEPT ![c] = [Idle EXCEPT !.pc = "open", !.want = r, !.pair = pair,
                                                 !.key = Key(r), !.hit = s.hit, !.peer = s.peer]]
     /\ recent' = IF pair /\ (r \in recent \/ Cardinality(recent) < 2) THEN recent ELSE {}
     /\ UNCHANGED <<disk, changes>>

(* Any error leaves the cache empty and the lock free. *)
Reject(c, code) ==
  /\ first' = None /\ second' = None /\ lock' = None
  /\ call' = [call EXCEPT ![c] = [Idle EXCEPT !.pc = "failed", !.want = call[c].want, !.error = code]]
  /\ recent' = {}
  /\ UNCHANGED <<disk, changes, reads>>

Step(c, new) ==
  /\ call' = [call EXCEPT ![c] = new]
  /\ UNCHANGED <<disk, lock, cache, recent, changes, reads>>

(* The file is opened and its size compared. *)
Open(c) ==
  LET f == file[call[c].want]
  IN /\ call[c].pc = "open"
     /\ \/ f.holds = "gone" /\ Reject(c, "result_unavailable")
        \/ f.holds = "cut" /\ Reject(c, "result_untrusted")
        \/ f.holds \in {"sealed", "altered"} /\ Step(c, [call[c] EXCEPT !.pc = "digest", !.opened = f])

(* The current bytes are hashed, cached or not. *)
Verifies(c, bytes) == bytes = "sealed"

(* The opened file is read: as it was, if another was put in its place     *)
(* since, or as it is.  Decoding is spared for the very file in the cache. *)
Digest(c) ==
  LET k == call[c]
      same == k.hit # None /\ Bytes[k.want] <= MaxCached /\ k.hit.id = k.opened.id
  IN /\ k.pc = "digest"
     /\ \E bytes \in {file[k.want].holds} \union
                    (IF file[k.want].id = k.opened.id THEN {} ELSE {k.opened.holds}) :
          \/ ~Verifies(c, bytes) /\ Reject(c, "result_untrusted")
          \/ /\ Verifies(c, bytes)
             /\ Step(c, [k EXCEPT !.pc = "stat", !.decoded = ~same,
                           !.sure = file[k.want].holds = "sealed",
                           !.graph = IF same THEN k.hit.graph ELSE [result |-> k.want, proofs |-> k.key.proofs]])

\* Variant: the path is not looked at again.
StillIsOpened(c) == TRUE

(* The path, its directories and the workspace still name what was read. *)
StillThere(c) == file[call[c].want].id = call[c].opened.id

Check(c) ==
  /\ call[c].pc = "stat"
  /\ \/ ~StillThere(c) /\ Reject(c, "result_untrusted")
     \/ StillThere(c) /\ Step(c, [call[c] EXCEPT !.pc = "publish"])

(* A graph for this caller alone when the proofs changed under the load. *)
WithProofs(c) == [call[c].graph EXCEPT !.proofs = proofs]

(* A decoded package must be a valid graph. *)
Valid(k) == ~(k.decoded /\ k.want \in Unsound)

(* The registration is read again and the verified graph put into the cache. *)
Publish(c) ==
  LET k == call[c]
      entry == [key |-> k.key, id |-> k.opened.id, graph |-> k.graph]
  IN /\ k.pc = "publish"
     /\ \/ ~Valid(k) /\ Reject(c, "result_untrusted")
        \/ Valid(k) /\ home # k.key.home /\ Reject(c, "result_untrusted")
        \/ /\ Valid(k) /\ home = k.key.home
           /\ lock' = None
           /\ IF proofs # k.key.proofs
              THEN UNCHANGED cache
              ELSE /\ first' = IF Bytes[k.want] <= MaxCached THEN entry ELSE None
                   /\ second' = IF Bytes[k.want] <= MaxCached /\ Keeps(k.peer, k.key) THEN k.peer ELSE None
           /\ call' = [call EXCEPT ![c] = [Idle EXCEPT !.pc = "done", !.want = k.want, !.decoded = k.decoded,
                                             !.sure = k.sure, !.graph = WithProofs(c)]]
           /\ recent' = IF ~k.pair \/ Key(k.want) # k.key \/ ~StillThere(c) THEN {} ELSE recent \union {k.want}
           /\ UNCHANGED <<disk, changes, reads>>

(* A Run that continues a Result lets go of its graph. *)
Evict(r) ==
  /\ lock = None
  /\ \E e \in {first, second} : e # None /\ e.key.result = r
  /\ first' = IF first # None /\ first.key.result = r THEN None ELSE first
  /\ second' = IF second # None /\ second.key.result = r THEN None ELSE second
  /\ recent' = {}
  /\ UNCHANGED <<disk, lock, call, changes, reads>>

-----------------------------------------------------------------------------
\* What happens beside the readers.
Happens ==
  /\ changes < MaxChanges /\ changes' = changes + 1
  /\ recent' = {}
  /\ UNCHANGED <<lock, cache, reads>>

(* The file is written, replaced, cut off or removed, or put back: another *)
(* identity in every case.                                                 *)
Write(r, h) ==
  /\ Happens
  /\ file' = [file EXCEPT ![r] = [holds |-> h, id |-> changes + 1]]
  /\ call' = [c \in Callers |-> [call[c] EXCEPT !.sure = @ /\ ~(call[c].want = r /\ call[c].pc = "stat")]]
  /\ UNCHANGED <<home, proofs>>

(* Its bytes rot without a trace in the directory. *)
Rot(r) ==
  /\ Happens
  /\ file[r].holds = "sealed" /\ file' = [file EXCEPT ![r].holds = "altered"]
  /\ UNCHANGED <<home, proofs, call>>

(* The workspace is moved away and a copy of it put in its place. *)
Move ==
  /\ Happens
  /\ home' = home + 1
  /\ file' = [r \in Results |-> [file[r] EXCEPT !.id = changes + 1]]
  /\ UNCHANGED <<proofs, call>>

(* Artifact rows of the Result change (a status, a location). *)
Reregister == Happens /\ proofs' = proofs + 1 /\ UNCHANGED <<file, home, call>>

Init ==
  /\ file = [r \in Results |-> [holds |-> "sealed", id |-> 0]]
  /\ home = 0 /\ proofs = 0
  /\ lock = None /\ first = None /\ second = None
  /\ call = [c \in Callers |-> Idle]
  /\ recent = {} /\ changes = 0 /\ reads = 0

Next ==
  \/ \E c \in Callers, r \in Results, pair \in BOOLEAN : Lookup(c, r, pair)
  \/ \E c \in Callers : Open(c) \/ Digest(c) \/ Check(c) \/ Publish(c)
  \/ \E r \in Results : Evict(r) \/ Rot(r) \/ \E h \in Holdings : Write(r, h)
  \/ Move \/ Reregister

Spec == Init /\ [][Next]_vars

-----------------------------------------------------------------------------
TypeOK ==
  /\ file \in [Results -> [holds : Holdings, id : 0..MaxChanges]]
  /\ lock \in Callers \union {None}
  /\ \A c \in Callers : call[c].pc \in {"idle", "open", "digest", "stat", "publish", "done", "failed"}
  /\ lock = None <=> \A c \in Callers : call[c].pc \in {"idle", "done", "failed"}

(* An answer rests on the bytes of this call: whatever the cache held, the *)
(* sealed bytes were at the path when they were hashed, the path still     *)
(* named that file afterwards, they decode to a valid graph, and the       *)
(* artifact proofs that come with it are the registered ones.              *)
AnswerIsVerifiedStep ==
  \A c \in Callers : call[c].pc = "publish" /\ call'[c].pc = "done" =>
    /\ call'[c].sure
    /\ call'[c].graph.result = call[c].want /\ call[c].want \notin Unsound
    /\ call'[c].graph.proofs = proofs

AnswerIsVerified == [][AnswerIsVerifiedStep]_vars

(* The decoded graphs kept never exceed the budget of bytes, and each is a *)
(* valid one.                                                              *)
CacheIsBounded ==
  /\ Size(first) + Size(second) <= MaxCached
  /\ \A e \in {first, second} : e # None => e.graph.result \notin Unsound /\ e.graph.proofs = e.key.proofs

(* Two Results that fit together, resolved against each other page after   *)
(* page, are decoded once each: a paired read finds its own in the cache.  *)
PairStaysWarm ==
  \A c \in Callers :
    call[c].pc = "stat" /\ call[c].pair /\ call[c].want \in recent
      /\ (\A a, b \in recent : a # b => Bytes[a] + Bytes[b] <= MaxCached) => ~call[c].decoded
=============================================================================
