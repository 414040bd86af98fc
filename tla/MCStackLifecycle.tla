--------------------------- MODULE MCStackLifecycle ---------------------------
(***************************************************************************)
(* A small instance of StackLifecycle for TLC: a service with two          *)
(* containers, the first of which is probed, and what is left of a service *)
(* that is not configured any more.                                        *)
(***************************************************************************)
EXTENDS StackLifecycle, TLC

CONSTANTS c1, c2, old, p1, p2

Services == (c1 :> "server") @@ (c2 :> "server") @@ (old :> "web")

Configuration == ("server" :> 2)

Interchangeable == Permutations({p1, p2})
==============================================================================
