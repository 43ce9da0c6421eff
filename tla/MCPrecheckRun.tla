---------------------------- MODULE MCPrecheckRun ----------------------------
(* PrecheckRun on small instances: two inventories, the first of which needs *)
(* an external lookup.                                                       *)
EXTENDS PrecheckRun

CONSTANTS r1, r2, h1, h2, i1, i2
=============================================================================
