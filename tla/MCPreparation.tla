---------------------------- MODULE MCPreparation ----------------------------
(***************************************************************************)
(* Preparation for TLC: a Run that moved the first of three items, and two *)
(* Runs to prepare, be it from two Plans that overlap or as rewinds.       *)
(***************************************************************************)
EXTENDS Preparation, TLC

CONSTANTS e, c1, c2, r1, r2, q1, q2, s1, s2, s3, t1, t2, t3, t4
FoundAt == (1 :> s1) @@ (2 :> s2) @@ (3 :> s3)
Wants == (q1 :> {2, 3}) @@ (q2 :> {2})
GoesTo == (q1 :> (2 :> t2 @@ 3 :> t3)) @@ (q2 :> (2 :> t4))
MovedBefore == 1 :> t1
Alike == Permutations({r1, r2})

\* One call at a time at each Run, while the user's volumes change at the places of
\* the item that was moved and of the one that both Plans want.
OneByOne ==
    /\ overlapped' = {} /\ \A r \in Runs : call'[r][c2] = None
    /\ drift' # drift => \A p \in {s3, t3, t4} : at'[p] = at[p]

\* Calls that overlap, while the volumes stay: one Plan of a single item, and rewinds.
AtOnce == drift' = 0 /\ \A r \in Runs : run'[r].request # q1

SmallSpec == Init /\ [][Next /\ (OneByOne \/ AtOnce)]_vars
=============================================================================
