----------------------------- MODULE MCAccounts -----------------------------
(***************************************************************************)
(* Small instances of Accounts for TLC.                                    *)
(***************************************************************************)
EXTENDS Accounts, TLC

CONSTANTS n1, n2, p1, p2, t1, t2, q1, q2

Interchangeable == Permutations({q1, q2}) \union Permutations({p1, p2})
                     \union Permutations({n1, n2}) \union Permutations({t1, t2})
==============================================================================
