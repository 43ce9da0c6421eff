----------------------------- MODULE MCApplyRun -----------------------------
(* ApplyRun on small instances: the losses a copy may exhibit are d1 and d2. *)
EXTENDS ApplyRun

CONSTANTS d1, d2
=============================================================================
