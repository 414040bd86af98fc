---------------------------- MODULE MCJobDecisions ----------------------------
(***************************************************************************)
(* Small instances of JobDecisions for TLC.                                *)
(***************************************************************************)
EXTENDS JobDecisions, TLC

CONSTANTS j1, j2, i1, i2, q1, q2, r1, r2

Interchangeable == Permutations({q1, q2}) \union Permutations({i1, i2})
==============================================================================
