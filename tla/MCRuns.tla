-------------------------------- MODULE MCRuns --------------------------------
(***************************************************************************)
(* Runs beside each other: two Hosts at one Run, two Runs of one Dataset   *)
(* at one Host (PrecheckRun), and what Runs and the maintenance of their   *)
(* workspace do with stored bytes (S), which PrecheckRun knows nothing of. *)
(* part says which of the three is looked at.                              *)
(***************************************************************************)
EXTENDS PrecheckRun, Sequences, TLC

CONSTANTS p, q, h1, h2, i1, i2, None

VARIABLES part,
          works, attached, artifacts, files, recent, vault, standing, step, about, seen,
          gained, filed, registered, cleaning, plan, damaged, stops

storeVars == <<works, attached, artifacts, files, recent, vault, standing, step, about, seen,
               gained, filed, registered, cleaning, plan, damaged, stops>>

-----------------------------------------------------------------------------
(* Two Hosts at one Run whose inventory i1 needs a lookup, or one Host     *)
(* with two Runs on i2, which needs none.                                  *)
HostsNext == Next /\ \E r \in Runs : state'[r] = "absent"
DatasetNext == Next /\ call'[h2] = NoCall /\ \A r \in Runs : pc'[h2][r] = "none"

-----------------------------------------------------------------------------
(* Two Runs that need the same content. *)
Bytes == {"c"}
Needs == [r \in Runs |-> Bytes]
MaxWork == 2
MaxStops == 1
MaxDamages == 1

S == INSTANCE ArtifactStore WITH Contents <- Bytes, state <- standing, sealed <- filed

ASSUME S!ArtifactConstants

-----------------------------------------------------------------------------
(* The store has no state while Runs are looked at; Runs stay where they begin. *)
NoStore ==
    /\ works = None /\ attached = None /\ artifacts = None /\ files = None /\ recent = None
    /\ vault = None /\ standing = None /\ step = None /\ about = None /\ seen = None
    /\ gained = None /\ filed = None /\ registered = None /\ cleaning = None /\ plan = None
    /\ damaged = None /\ stops = None

AnyInit ==
    \/ part = "hosts" /\ Init /\ disk = i1 /\ NoStore
    \/ part = "dataset" /\ Init /\ disk = i2 /\ NoStore
    \/ part = "store" /\ S!Init /\ Init /\ disk = i1

AnyNext ==
    /\ UNCHANGED part
    /\ \/ part = "hosts" /\ HostsNext /\ UNCHANGED storeVars
       \/ part = "dataset" /\ DatasetNext /\ UNCHANGED storeVars
       \/ part = "store" /\ S!Next /\ UNCHANGED vars

AnyVars == <<part, vars, storeVars>>
AnySpec == AnyInit /\ [][AnyNext]_AnyVars

Alike == Permutations(Runs)
-----------------------------------------------------------------------------
\* A scope that is taken over without asking was accepted by the Human for the
\* same inventory, in a Run that was carried to its Result (_run_sqlite.py).
ReusedScopesCount == part = "dataset" => ReusesAccepted

\* Bytes that anything counts on are never destroyed, but are exact in place or in
\* quarantine (a collection that races a publication does move them there), each
\* Run's sealed Result keeps its own, and a record is reused only by a pass that saw
\* its bytes, though rows and files change apart from each other and passes die
\* between the two (_artifact_sqlite.py, _result_sqlite.py, maintenance.py).
BytesAreKept ==
    /\ [](part = "store" => S!TypeOK /\ S!BytesSurvive /\ S!ResultsKeepTheirOwn)
    /\ [][part = "store" => S!ReuseSawTheBytesStep]_AnyVars
===============================================================================
