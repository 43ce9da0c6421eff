------------------------------ MODULE MCViewHost ------------------------------
(* Two clients and three processes. *)
EXTENDS ViewHost, TLC

CONSTANTS h1, h2, h3, c1, c2

Alike == Permutations(Hosts) \union Permutations(Clients)
=============================================================================
