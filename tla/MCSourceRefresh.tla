--------------------------- MODULE MCSourceRefresh ---------------------------
(***************************************************************************)
(* Small instances of SourceRefresh for TLC.                               *)
(***************************************************************************)
EXTENDS SourceRefresh, TLC

CONSTANTS a, b, o, j

\* Two local days, the second of which opens three ticks after the first.
Midnights == {0, 3}
Openings  == [m \in Midnights |-> m + 1]

NoCooldown == [s \in Source |-> 0]

\* Source 1 is a feed.
FeedCooldown == [s \in Source |-> IF s = 1 THEN 1 ELSE 0]

Interchangeable == Permutations({a, b})
==============================================================================
