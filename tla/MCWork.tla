-------------------------------- MODULE MCWork --------------------------------
(***************************************************************************)
(* The Work store by itself, under workers that claim whatever is due      *)
(* (WorkLeases), and under the passes of Runs that demand their Work kind  *)
(* by kind (P). Both are over the same tables, so what is asked of the     *)
(* tables is asked of both; part says who is at work.                      *)
(***************************************************************************)
EXTENDS WorkLeases, TLC

CONSTANTS w1, w2, r1, probe, frame, bundle

VARIABLES part, config, stage, step, target, taken, verdict, stops, lapses, faults

passVars == <<config, stage, step, target, taken, verdict, stops, lapses, faults>>
tables == <<rows, attempts, attached, held, invalidations>>

OneRun == [w \in {w1, w2} |-> r1]
Needing == (probe :> {{}}) @@ (frame :> {{probe}}) @@ (bundle :> {{frame}, {probe, frame}})

-----------------------------------------------------------------------------
(* One Run on each medium alone, and two Runs that share some records. *)
Photo == {"metadata", "bundle", "rendition", "embedding", "sensitivity", "compression"}
Video == {"probe", "frame", "sheet", "frame_embedding", "keyframe", "compression"}

WorkingRuns == {"p", "q"}
Configs == {[p |-> Photo, q |-> {}], [p |-> Video, q |-> {}],
            [p |-> {"metadata", "gpx"}, q |-> {"metadata", "bundle"}],
            [p |-> {"rendition", "embedding"}, q |-> {"rendition", "embedding"}],
            [p |-> {"probe", "frame"}, q |-> {"probe", "frame"}]}
MaxStops == 1
MaxLapses == 1
MaxFaults == 1

P == INSTANCE Production WITH Runs <- WorkingRuns, MaxWork <- 9

ASSUME P!ProductionConstants

-----------------------------------------------------------------------------
NoPass ==
    /\ config = None /\ stage = None /\ step = None /\ target = None /\ taken = None
    /\ verdict = None /\ stops = None /\ lapses = None /\ faults = None

EitherInit ==
    \/ part = "workers" /\ Init /\ NoPass
    \/ part = "passes" /\ P!Init /\ detached = 0

EitherNext ==
    \/ part = "workers" /\ Next /\ UNCHANGED <<part, passVars>>
    \/ part = "passes" /\ P!Next /\ UNCHANGED <<part, detached>>

EitherVars == <<part, vars, passVars>>
EitherSpec == EitherInit /\ [][EitherNext]_EitherVars

Alike == Permutations({w1, w2})
-----------------------------------------------------------------------------
\* The tables have their types, and tell one story: every claim has one entry,
\* closed once, by its owner, its expiry or an invalidation, whatever an owner
\* that has lost its lease reports; and of the records of a description at
\* most one is current (_work_sqlite.py).
TablesAgree ==
    /\ HistoryAgrees
    /\ part = "workers" => TypeOK /\ OneCurrent
    /\ part = "passes" => P!Works!OneCurrent

\* What is sealed is of one piece although Runs share records and invalidate them
\* while a pass collects them; a Run fails over what it finds of the records only
\* where something disturbed it, or else an exception its producer did not expect
\* ends it; and every step of a pass is one the Work store offers
\* (_orchestrator.py and the producers).
ProductionIsSound ==
    /\ [](part = "passes" => P!TypeOK /\ P!FailedWasDisturbed)
    /\ [][part = "passes" => P!SealedConsistentStep]_EitherVars
    /\ [][part = "passes" => P!Works!Next]_tables
=============================================================================
