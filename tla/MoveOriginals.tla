--------------------------- MODULE MoveOriginals ---------------------------
(***************************************************************************)
(* What the effect "move_originals" promises of a set of files, whatever   *)
(* happens to the process that carries it out: a file is at its source, at *)
(* both places or at its target, it only ever goes forward, it starts to   *)
(* move only while a Human authorization stands, and a sealed account      *)
(* names only files that have arrived and is never revised.                *)
(***************************************************************************)
CONSTANT Files

VARIABLES authorized, place, sealed, certified

vars == <<authorized, place, sealed, certified>>

Places == {"source", "both", "target"}

Init ==
  /\ authorized = FALSE
  /\ place = [f \in Files |-> "source"]
  /\ sealed = FALSE /\ certified = {}

Authorize == authorized' = TRUE /\ UNCHANGED <<place, sealed, certified>>

\* New facts about a file may take the authorization away.
Withdraw == authorized' = FALSE /\ UNCHANGED <<place, sealed, certified>>

\* The file appears at its target: by rename, or as a copy.
Arrive(f) ==
  /\ authorized /\ ~sealed
  /\ place[f] = "source"
  /\ \E p \in {"both", "target"} : place' = [place EXCEPT ![f] = p]
  /\ UNCHANGED <<authorized, sealed, certified>>

\* The retained source goes; recovery may do this under an earlier authorization.
RemoveSource(f) ==
  /\ ~sealed
  /\ place[f] = "both"
  /\ place' = [place EXCEPT ![f] = "target"]
  /\ UNCHANGED <<authorized, sealed, certified>>

Seal ==
  /\ ~sealed
  /\ sealed' = TRUE
  /\ certified' \in SUBSET {f \in Files : place[f] = "target"}
  /\ UNCHANGED <<authorized, place>>

Next ==
  \/ Authorize \/ Withdraw \/ Seal
  \/ \E f \in Files : Arrive(f) \/ RemoveSource(f)

Spec == Init /\ [][Next]_vars
=============================================================================
