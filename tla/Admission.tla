------------------------------ MODULE Admission ------------------------------
(***************************************************************************)
(* One phase of a PreCheck Run at its thread pool (precheck/resources.py,  *)
(* and the phases of precheck/_orchestrator.py that submit to it): the     *)
(* budget of the host, what each call claims of it, calls pulled lazily,   *)
(* admitted, executed and answered while the Run may be stopped.           *)
(***************************************************************************)
EXTENDS Integers, FiniteSets, FiniteSetsExt, SequencesExt

CONSTANTS
    Hosts,      \* [storage, cpus, memory, ceiling]: what a host has, and what the caller permits
    Sources,    \* bound: the media sources of the phase
    TrackSize,  \* the bytes of the GPX tracks, in units of 64 KiB
    FrameSize,  \* what decoding one video frame takes, in the same units
    Unknown

MiB == 16
Infinite == 2^30

Kinds == {"source_io", "workspace_io", "cpu", "process", "memory", "temporary",
          "model", "exiftool", "decoder", "encoder", "network"}
Phases == {"metadata", "renditions", "video-frames", "gpx", "embeddings", "reverse-geocode"}

VARIABLES
    phase,     \* the phase
    budget,    \* what the Run resolved, and froze
    running,   \* whether the Run is still running
    cancelled, \* the Event of a caller of iter_run
    consumer,  \* the step of the generator
    next,      \* the call that would be pulled next
    at,        \* where each call is
    answer,    \* the outcome of each call
    batch,     \* completed calls, not yet handed on
    taken,     \* outcomes the phase has received
    used       \* what the admission believes is in use

vars == <<phase, budget, running, cancelled, consumer, next, at, answer, batch, taken, used>>

LeastOf(S) == Min(S)
MostOf(S) == Max(S)
Nothing == [k \in Kinds |-> 0]
Plus(a, b) == [k \in Kinds |-> a[k] + b[k]]
Minus(a, b) == [k \in Kinds |-> a[k] - b[k]]
Fits(claim, capacity) == \A k \in Kinds : claim[k] <= capacity[k]
With(claim) == [k \in Kinds |-> IF k \in DOMAIN claim THEN claim[k] ELSE 0]

-----------------------------------------------------------------------------
(* The budget. *)

\* resolve_resource_budget: without an observation of free memory, 512 MiB.
CpuSlots(h) == LeastOf({8, MostOf({1, IF h.cpus > 2 THEN h.cpus - 1 ELSE h.cpus})})
Memory(h) ==
    IF h.memory = Unknown THEN 512 * MiB
    ELSE MostOf({128 * MiB, LeastOf({4096 * MiB, h.memory \div 2})})
SourceLanes(h) == IF h.storage = "local" THEN LeastOf({4, MostOf({1, h.cpus \div 2})}) ELSE 1
ProcessLanes(h) == LeastOf({SourceLanes(h), MostOf({1, CpuSlots(h) \div 2})})

Detected(h) ==
    LET workers == LeastOf({8, CpuSlots(h), MostOf({1, Memory(h) \div (128 * MiB)})})
    IN [capacity |-> [k \in Kinds |->
            CASE k = "source_io" -> SourceLanes(h)
              [] k = "workspace_io" -> LeastOf({4, MostOf({1, h.cpus \div 2})})
              [] k = "cpu" -> CpuSlots(h)
              [] k \in {"process", "exiftool", "decoder", "encoder"} -> ProcessLanes(h)
              [] k = "memory" -> Memory(h)
              [] k = "temporary" -> 1024 * MiB
              [] k \in {"model", "network"} -> 1],
        workers |-> workers, pending |-> workers * 2]

\* _bounded_budget: a caller may only lower it.
Bounded(b, ceiling) ==
    [capacity |-> [k \in Kinds |-> LeastOf({b.capacity[k], ceiling[k]})],
     workers |-> b.workers, pending |-> b.pending]

Resolved(h) == IF h.ceiling = Unknown THEN Detected(h) ELSE Bounded(Detected(h), With([k \in Kinds |->
                  IF k \in DOMAIN h.ceiling THEN h.ceiling[k] ELSE Infinite]))

-----------------------------------------------------------------------------
(* What the calls of a phase claim. *)

Quot(a, b) == (a + b - 1) \div b

Capacity == budget.capacity
MetadataBatch == LeastOf({200, MostOf({16, (Capacity["memory"] - 16 * MiB) \div (MiB \div 2)})})

\* So many rendition batches shall run side by side.
Parallel == MostOf({1, LeastOf({budget.workers, Capacity["memory"] \div (128 * MiB)}
                                \cup {Capacity[k] : k \in {"decoder", "encoder", "cpu", "source_io", "workspace_io"}})})

Spare == Capacity["memory"] \div Parallel - 128 * MiB
RenditionBatch ==
    LeastOf({LeastOf({32, MostOf({1, Sources \div Parallel})}), MostOf({1, Spare})})

Still(n) ==
    With([k \in {"source_io", "workspace_io", "cpu", "decoder", "encoder"} |-> 1]
         @@ [memory |-> 128 * MiB + (IF n > 1 THEN n ELSE 0), temporary |-> 32 * MiB])

Threads == MostOf({1, LeastOf({2, Capacity["cpu"] \div MostOf({1, Capacity["process"]})})})

ModelBatch == MostOf({1, LeastOf({16, Capacity["memory"] \div (256 * MiB)})})

Calls ==
    1..CASE phase = "metadata" -> Quot(Sources, MetadataBatch)
         [] phase = "renditions" -> Quot(Sources, RenditionBatch)
         [] phase = "embeddings" -> Quot(Sources, ModelBatch)
         [] phase = "reverse-geocode" -> 1
         [] OTHER -> Sources

\* What a call must be given before it begins.
Claim(c) ==
    CASE phase = "metadata" ->
           With([k \in {"source_io", "cpu", "process", "exiftool"} |-> 1]
                @@ [memory |-> LeastOf({128 * MiB, 16 * MiB + LeastOf({Sources, MetadataBatch}) * 8})])
      [] phase = "renditions" ->
           Still(LeastOf({RenditionBatch, Sources - (c - 1) * RenditionBatch}))
      [] phase = "video-frames" ->
           With([Still(1) EXCEPT !["cpu"] = Threads, !["memory"] = MostOf({128 * MiB, FrameSize})])
      [] phase = "gpx" -> With([k \in {"source_io", "cpu"} |-> 1])
      [] phase = "embeddings" ->
           With([k \in {"source_io", "workspace_io", "cpu", "model"} |-> 1]
                @@ [memory |-> LeastOf({Capacity["memory"], (256 + LeastOf({Sources, ModelBatch}) * 32) * MiB}), temporary |-> 32 * MiB])
      [] phase = "reverse-geocode" -> With([k \in {"cpu", "network"} |-> 1])

\* Variant: matching asks once more for the processor that it holds.
InnerClaimAgain(c) ==
    IF phase = "gpx" THEN With([memory |-> (64 + 8) * MiB + TrackSize * 64, cpu |-> 1]) ELSE Nothing

\* Matching a photo with the tracks asks for the memory once it knows that it has
\* to be executed: the retained cache and a parse of every track.
InnerClaim(c) ==
    IF phase = "gpx" THEN With([memory |-> (64 + 8) * MiB + TrackSize * 64]) ELSE Nothing

-----------------------------------------------------------------------------
(* The pool. *)

AtWork == {"waiting", "admitted", "inner", "busy"}
Holding(c) ==
    CASE at[c] \in {"admitted", "inner"} -> Claim(c)
      [] at[c] = "busy" -> Plus(Claim(c), InnerClaim(c))
      [] OTHER -> Nothing
Pending == {c \in Calls : at[c] \notin {"unpulled", "answered"}}

TypeOK ==
    /\ phase \in Phases
    /\ budget.workers \in 1..8 /\ budget.pending >= budget.workers
    /\ running \in BOOLEAN /\ cancelled \in BOOLEAN
    /\ consumer \in {"filling", "waiting", "yielding", "draining", "raised", "over"}
    /\ next \in Nat
    /\ \A c \in Calls :
          /\ at[c] \in AtWork \cup {"unpulled", "queued", "done", "answered"}
          /\ answer[c] \in {"none", "ok", "error", "exceeded", "cancelled"}
    /\ batch \subseteq Calls /\ taken \subseteq Calls
    /\ used \in [Kinds -> Int]

Init ==
    /\ phase \in Phases
    /\ \E h \in Hosts : budget = Resolved(h)
    /\ running = TRUE /\ cancelled = FALSE
    /\ consumer = "filling" /\ next = 1
    /\ at = [c \in Calls |-> "unpulled"]
    /\ answer = [c \in Calls |-> "none"]
    /\ batch = {} /\ taken = {}
    /\ used = Nothing

frame == <<phase, budget>>

Stop ==
    /\ running /\ running' = FALSE
    /\ UNCHANGED <<frame, cancelled, consumer, next, at, answer, batch, taken, used>>

Cancel ==
    /\ ~cancelled /\ cancelled' = TRUE
    /\ UNCHANGED <<frame, running, consumer, next, at, answer, batch, taken, used>>

\* submit_one: the iterable ends where the Run is found stopped.
MayPull == ~cancelled /\ running /\ next \in Calls

Pull ==
    /\ consumer = "filling" /\ MayPull /\ Cardinality(Pending) < budget.pending
    /\ at' = [at EXCEPT ![next] = "queued"]
    /\ next' = next + 1
    /\ UNCHANGED <<frame, running, cancelled, consumer, answer, batch, taken, used>>

Filled ==
    /\ consumer = "filling"
    /\ ~MayPull \/ Cardinality(Pending) >= budget.pending
    /\ consumer' = IF Pending = {} THEN "over" ELSE "waiting"
    /\ next' = IF running THEN next ELSE Sources + 1
    /\ UNCHANGED <<frame, running, cancelled, at, answer, batch, taken, used>>

Finished == {c \in Pending : at[c] = "done"}

Completed ==
    /\ consumer = "waiting" /\ \E c \in Pending : at[c] = "done"
    /\ batch' = Finished
    /\ consumer' = "yielding"
    /\ at' = [c \in Calls |-> IF c \in Finished THEN "answered" ELSE at[c]]
    /\ UNCHANGED <<frame, running, cancelled, next, answer, taken, used>>

\* _execute: what was not admitted or not begun because of a stop is no outcome;
\* any other error ends the phase, which waits for what is still in the pool.
Yield ==
    /\ consumer = "yielding"
    /\ \/ /\ batch = {} /\ consumer' = "filling" /\ UNCHANGED <<batch, taken>>
       \/ \E c \in batch :
             /\ batch' = batch \ {c}
             /\ taken' = IF answer[c] = "ok" THEN taken \cup {c} ELSE taken
             /\ consumer' = IF answer[c] \in {"error", "exceeded"} THEN "draining" ELSE consumer
    /\ UNCHANGED <<frame, running, cancelled, next, at, answer, used>>

Drained == consumer = "draining" /\ \A c \in Pending : at[c] = "done"

Raise ==
    /\ Drained
    /\ consumer' = "raised"
    /\ UNCHANGED <<frame, running, cancelled, next, at, answer, batch, taken, used>>

-----------------------------------------------------------------------------
(* A thread of the pool. *)

Answer(c, a) ==
    /\ at' = [at EXCEPT ![c] = "done"]
    /\ answer' = [answer EXCEPT ![c] = a]

\* A thread that is free takes the oldest call.
Take(c) ==
    /\ at[c] = "queued" /\ \A d \in Calls : at[d] = "queued" => c <= d
    /\ Cardinality({d \in Calls : at[d] \in AtWork}) < budget.workers
    /\ IF Fits(Claim(c), Capacity) THEN at' = [at EXCEPT ![c] = "waiting"] /\ UNCHANGED answer
       ELSE Answer(c, "exceeded")
    /\ UNCHANGED <<frame, running, cancelled, consumer, next, batch, taken, used>>

FitsBeside(claim) == Fits(Plus(used, claim), Capacity)

Admit(c) ==
    /\ at[c] = "waiting" /\ FitsBeside(Claim(c))
    /\ used' = Plus(used, Claim(c))
    /\ at' = [at EXCEPT ![c] = "admitted"]
    /\ UNCHANGED <<frame, running, cancelled, consumer, next, answer, batch, taken>>

CancelWait(c) ==
    /\ at[c] = "waiting" /\ cancelled /\ ~FitsBeside(Claim(c))
    /\ Answer(c, "cancelled")
    /\ UNCHANGED <<frame, running, cancelled, consumer, next, batch, taken, used>>

Begin(c) ==
    /\ at[c] = "admitted"
    /\ \/ /\ cancelled \/ ~running
          /\ Answer(c, "cancelled") /\ used' = Minus(used, Claim(c))
       \/ /\ ~cancelled /\ running
          /\ IF Fits(InnerClaim(c), Capacity)
             THEN at' = [at EXCEPT ![c] = "inner"] /\ UNCHANGED <<answer, used>>
             ELSE Answer(c, "exceeded") /\ used' = Minus(used, Claim(c))
    /\ UNCHANGED <<frame, running, cancelled, consumer, next, batch, taken>>

\* The second admission has no Event: a stop does not wake it.
AdmitInner(c) ==
    /\ at[c] = "inner" /\ FitsBeside(InnerClaim(c))
    /\ used' = Plus(used, InnerClaim(c))
    /\ at' = [at EXCEPT ![c] = "busy"]
    /\ UNCHANGED <<frame, running, cancelled, consumer, next, answer, batch, taken>>

Released(c) == Plus(Claim(c), InnerClaim(c))

\* The producer returns or raises, or its decoder notices that the Run stopped.
Execute(c) ==
    /\ at[c] = "busy"
    /\ \E a \in {"ok", "error"} \cup (IF running THEN {} ELSE {"cancelled"}) : Answer(c, a)
    /\ used' = Minus(used, Released(c))
    /\ UNCHANGED <<frame, running, cancelled, consumer, next, batch, taken>>

Ended == consumer \in {"over", "raised"} /\ UNCHANGED vars

Next ==
    \/ Stop \/ Cancel \/ Pull \/ Filled \/ Completed \/ Yield \/ Raise \/ Ended
    \/ \E c \in Calls : Take(c) \/ Admit(c) \/ CancelWait(c) \/ Begin(c) \/ AdmitInner(c) \/ Execute(c)

Spec == Init /\ [][Next]_vars

-----------------------------------------------------------------------------
(* Properties. *)

\* What the admission believes is in use is what the calls in the pool hold, and
\* it is never more than the budget: hold() and its release, whichever way a call ends.
BudgetHolds ==
    \A k \in Kinds :
        /\ used[k] = MapThenSumSet(LAMBDA c : Holding(c)[k], Calls)
        /\ used[k] <= Capacity[k]

\* A phase that is over left nothing in the pool; unless the Run was stopped or an
\* error raised, it has received the outcome of every call (iter_run).
NothingLeftBehind ==
    /\ consumer \in {"over", "raised"} => used = Nothing /\ \A c \in Calls : at[c] \notin AtWork \cup {"queued"}
    /\ consumer = "over" /\ running /\ ~cancelled => taken = Calls

\* Calls that hold one claim and wait for another never wait for each other: while
\* threads wait, one of them can be admitted or another is at work.
NoHoldAndWait ==
    (\E c \in Calls : at[c] \in {"waiting", "inner"}) =>
        \E c \in Calls :
            \/ at[c] \in {"admitted", "busy"}
            \/ at[c] = "waiting" /\ FitsBeside(Claim(c))
            \/ at[c] = "inner" /\ FitsBeside(InnerClaim(c))

\* The rendition batches the budget was divided for can all be held at once.
LanesRunSideBySide ==
    phase = "renditions" /\ Fits(Claim(1), Capacity) =>
        \A k \in Kinds : Parallel * Claim(1)[k] <= Capacity[k]
=============================================================================
