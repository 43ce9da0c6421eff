------------------------------ MODULE MCServices ------------------------------
(***************************************************************************)
(* Plan Work (PlanWork) and what goes on around it: the opening of the     *)
(* Dataset (D), the analysis of a candidate (C), and of a PreCheck Run the *)
(* accounting of sources (S), the resources its calls are admitted to (A)  *)
(* and the calls to the Geo provider (G). They share no state, so nothing  *)
(* is lost by looking at one at a time: part says at which.                *)
(***************************************************************************)
EXTENDS PlanWork, Sequences, TLC

CONSTANTS x, y,     \* names, for whatever there are two of that may change places
          req1, req2 \* names of two requests

VARIABLES part,
          workspace, writable, opening, opened, opens, changes,
          analysis, memo,
          plugged, disks, working, source, items, removed, pass, held, mishaps,
          phase, budget, running, halted, consumer, next, place, outcome, batch, taken, used,
          request, executions, locked, asking, sent

datasetVars == <<workspace, writable, opening, opened, opens, changes>>
candidateVars == <<analysis, memo>>
accountingVars == <<plugged, disks, working, source, items, removed, pass, held, mishaps>>
admissionVars == <<phase, budget, running, halted, consumer, next, place, outcome, batch, taken, used>>
geoVars == <<request, executions, locked, asking, sent>>

-----------------------------------------------------------------------------
(* Two Hosts open the Dataset of one source. *)
MaxOpens == 4
MaxChanges == 2

D == INSTANCE DatasetOpen WITH Hosts <- {x, y}, call <- opening

-----------------------------------------------------------------------------
(* A Result of three Source Items and two Evidence, a candidate that passes *)
(* and variations of it with one thing wrong.                               *)

Only(refs) == [kind |-> "explicit", refs |-> refs]
By(evidence) == [kind |-> "represents", origin |-> evidence]
All == [kind |-> "accounts_for"]
Either(s, t) == [kind |-> "union", left |-> s, right |-> t]
Without(s, t) == [kind |-> "difference", left |-> s, right |-> t]
Group(set, path, names) == [members |-> set, path |-> path, names |-> names]

Good ==
    [kind |-> "candidate", sound |-> TRUE, scope |-> All,
     groups |-> <<Group(By("e1"), <<"x">>, <<>>), Group(Only(<<3>>), <<"x", "y">>, <<>>)>>,
     outcomes |-> <<>>, notes |-> <<By("e2")>>]

Variations ==
    {Good,
     [Good EXCEPT !.sound = FALSE],
     [Good EXCEPT !.scope = Without(By("e1"), By("e1"))],
     [Good EXCEPT !.scope = By("e1"), !.groups = <<Good.groups[1]>>],   \* the note is outside
     [Good EXCEPT !.groups = <<Good.groups[1]>>],             \* 3 is nowhere
     [Good EXCEPT !.groups = <<Good.groups[1]>>, !.outcomes = <<Without(All, By("e1"))>>],
     [Good EXCEPT !.outcomes = <<Only(<<3>>)>>],              \* 3 is there twice
     [Good EXCEPT !.groups[2].members = By("nowhere")],
     [Good EXCEPT !.groups = <<Group(Either(By("e2"), By("e1")), <<"x">>, <<>>)>>],
     [Good EXCEPT !.groups[1].names = 1 :> "y"],              \* also a directory
     [Good EXCEPT !.groups[1].names = 3 :> "c"],              \* not its member
     [Good EXCEPT !.groups[2].path = <<"x">>]}                \* the path of group 1

Draft == [Good EXCEPT !.kind = "draft", !.notes = <<>>,
                      !.groups = <<Group(Either(By("e2"), By("e1")), <<"x">>, 3 :> "c")>>]

Small == [Good EXCEPT !.kind = "draft", !.scope = By("e2"), !.notes = <<>>,
                      !.groups = <<Good.groups[1]>>]

-----------------------------------------------------------------------------
Analyses == {"a1", "a2"}
ResultItems == 1..3
Represented == [e1 |-> {1, 2}, e2 |-> {3}]
Anchor == [e1 |-> 2, e2 |-> 3]
Basename == <<"a", "b", "a">>
Given == [a1 |-> Variations \cup {Draft}, a2 |-> {Small}]
PageLimit == 2
NoName == "noname"

C == INSTANCE PlanCandidate WITH Items <- ResultItems, Candidates <- Given

-----------------------------------------------------------------------------
(* Two Working Runs, one after the other, over two paths. *)
NumPaths == 2
Dir == {2}
Volumes == {"v1", "v2"}
BatchSize == 1
MaxPasses == 2
MaxMishaps == 1

S == INSTANCE Accounting WITH Runs <- {1, 2}, Contents <- {x, y}, Absent <- None, attached <- plugged,
                              files <- disks, run <- working

-----------------------------------------------------------------------------
(* A machine with just enough memory for two calls, and one whose free     *)
(* memory is not known and whose caller permits two processors.            *)
TrackSize == 16
FrameSize == 4500
Machines ==
    {[storage |-> "local", cpus |-> 6, memory |-> 8192 + 6, ceiling |-> None],
     [storage |-> "local", cpus |-> 6, memory |-> None, ceiling |-> [cpu |-> 2]]}

A == INSTANCE Admission WITH Hosts <- Machines, Unknown <- None, at <- place,
                             cancelled <- halted, answer <- outcome, Sources <- 3

-----------------------------------------------------------------------------
(* Two invocations of two requests, one of which may be from before the    *)
(* cycles were recorded.                                                   *)
Invocations == {x, y}
Legacy == {"q1"}
Grants == {"g1"}
Coordinates == 2
CallCeiling == 1
Ceiling == 2
MaxAttempts == 2

G == INSTANCE GeoCalls WITH Calls <- Invocations, Requests <- {"q1", "q2"},
                            rows <- executions, owner <- locked, call <- asking

ASSUME D!DatasetConstants /\ C!CandidateConstants /\ G!GeoConstants

-----------------------------------------------------------------------------
(* The parts that are not looked at have no state; Plan Work stays where it begins. *)
NoDataset ==
    /\ workspace = None /\ writable = None /\ opening = None /\ opened = None
    /\ opens = None /\ changes = None
NoCandidate ==
    /\ analysis = None /\ memo = None
NoAccounting ==
    /\ plugged = None /\ disks = None /\ working = None /\ source = None /\ items = None
    /\ removed = None /\ pass = None /\ held = None /\ mishaps = None
NoAdmission ==
    /\ phase = None /\ budget = None /\ running = None /\ halted = None
    /\ consumer = None /\ next = None /\ place = None /\ outcome = None /\ batch = None
    /\ taken = None /\ used = None
NoGeo ==
    /\ request = None /\ executions = None /\ locked = None /\ asking = None
    /\ sent = None

AnyInit ==
    /\ Init
    /\ \/ part = "plan" /\ NoDataset /\ NoCandidate /\ NoAccounting /\ NoAdmission /\ NoGeo
       \/ part = "dataset" /\ D!Init /\ NoCandidate /\ NoAccounting /\ NoAdmission /\ NoGeo
       \/ part = "candidate" /\ C!Init /\ NoDataset /\ NoAccounting /\ NoAdmission /\ NoGeo
       \/ part = "accounting" /\ S!Init /\ NoDataset /\ NoCandidate /\ NoAdmission /\ NoGeo
       \/ part = "admission" /\ A!Init /\ NoDataset /\ NoCandidate /\ NoAccounting /\ NoGeo
       \/ part = "geo" /\ G!Init /\ NoDataset /\ NoCandidate /\ NoAccounting /\ NoAdmission
    /\ part # "plan" => \A w \in Existing : work[w].content = None

AnyNext ==
    /\ UNCHANGED part
    /\ \/ part = "plan" /\ Next
          /\ UNCHANGED <<datasetVars, candidateVars, accountingVars, admissionVars, geoVars>>
       \/ part = "dataset" /\ D!Next
          /\ UNCHANGED <<vars, candidateVars, accountingVars, admissionVars, geoVars>>
       \/ part = "candidate" /\ C!Next
          /\ UNCHANGED <<vars, datasetVars, accountingVars, admissionVars, geoVars>>
       \/ part = "accounting" /\ S!Next
          /\ UNCHANGED <<vars, datasetVars, candidateVars, admissionVars, geoVars>>
       \/ part = "admission" /\ A!Next
          /\ UNCHANGED <<vars, datasetVars, candidateVars, accountingVars, geoVars>>
       \/ part = "geo" /\ G!Next
          /\ UNCHANGED <<vars, datasetVars, candidateVars, accountingVars, admissionVars>>

AnyVars == <<part, vars, datasetVars, candidateVars, accountingVars, admissionVars, geoVars>>
AnySpec == AnyInit /\ [][AnyNext]_AnyVars

Alike == Permutations({x, y}) \cup Permutations({req1, req2})
-----------------------------------------------------------------------------
\* A Host works only in a Dataset that is complete and of this version, an open
\* never passes over a Dataset that was there when it began, and a Dataset that
\* has its name keeps it, however many Hosts open and wherever they die
\* (runtime/dataset.py: open, _initialize, _migrate).
DatasetIsCurrentAndKept ==
    /\ [](part = "dataset" => D!TypeOK /\ D!OpenedIsCurrent /\ D!PrecedenceHolds)
    /\ [][part = "dataset" => D!PublishedStaysStep]_AnyVars

\* The analysis is right in both directions: what passes without an issue is a
\* partition of the scope with a place for every Source Item, and what is
\* refused, while the Result answered every page, has something wrong with it
\* (plan/_candidate.py).
AnalysisDecides ==
    part = "candidate" => C!PassedIsSound /\ C!RefusedIsUnsound

\* A revision of a path means one observation for good, and what a completed Run
\* accounts for was really there, whatever passes, crashes, edits and changes of
\* the volume lie between (_accounting_sqlite.py).
AccountingIsTrue ==
    /\ [](part = "accounting" => S!TypeOK /\ S!RevisionMeansOneThing)
    /\ [][part = "accounting" => S!InventoryIsTrueStep]_AnyVars

\* Admission never exceeds the budget, waits in no circle, and leaves nothing
\* behind, whichever way the calls of a phase end (resources.py: hold, iter_run).
AdmissionIsSound ==
    part = "admission" =>
        A!TypeOK /\ A!BudgetHolds /\ A!NothingLeftBehind /\ A!NoHoldAndWait /\ A!LanesRunSideBySide

\* However often an execution dies and is recovered, the requests really sent stay
\* within the ceiling the Human accepted, the last result accounts for all of
\* them, and a request does not ask for what its own journal or the result it
\* recovers has evidence for (geo/journal.py).
LookupsAreAccountedFor ==
    part = "geo" => G!LookupsAreAccountedFor
===============================================================================
