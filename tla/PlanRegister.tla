---------------------------- MODULE PlanRegister ----------------------------
(***************************************************************************)
(* What Plan Work promises of a Working State: a register of versions that *)
(* a Human accepts one by one and that is sealed at most once, with the    *)
(* version it holds at that moment, and only if that version was accepted. *)
(* PlanWork implements it.                                                 *)
(***************************************************************************)
CONSTANTS Works, Versions, NoVersion

VARIABLES current, accepted, sealed

vars == <<current, accepted, sealed>>

Init ==
    /\ current \in [Works -> Versions \cup {NoVersion}]
    /\ accepted = [w \in Works |-> {}]
    /\ sealed = [w \in Works |-> NoVersion]

\* A save replaces the version of an unsealed Work by one never seen before,
\* so that no earlier acceptance can stand for it.
Save(w) ==
    /\ sealed[w] = NoVersion
    /\ current'[w] \in Versions \ ({current[w]} \cup accepted[w])
    /\ current' = [current EXCEPT ![w] = current'[w]]
    /\ UNCHANGED <<accepted, sealed>>

Accept(w) ==
    /\ current[w] # NoVersion
    /\ accepted' = [accepted EXCEPT ![w] = @ \cup {current[w]}]
    /\ UNCHANGED <<current, sealed>>

Seal(w) ==
    /\ sealed[w] = NoVersion
    /\ current[w] \in accepted[w]
    /\ sealed' = [sealed EXCEPT ![w] = current[w]]
    /\ UNCHANGED <<current, accepted>>

Next ==
    \E w \in Works :
        \/ Save(w)
        \/ Accept(w)
        \/ Seal(w)

Spec == Init /\ [][Next]_vars
=============================================================================
