-------------------------- MODULE MCCollectionQueue --------------------------
(***************************************************************************)
(* Small instances of CollectionQueue for TLC: which source belongs to     *)
(* which provider, and which provider is a feed with a cooldown.           *)
(***************************************************************************)
EXTENDS CollectionQueue, TLC

CONSTANTS w1, w2, s1, s2, feed, board

OneBoard == (s1 :> board)
OneFeed == (s1 :> feed)
TwoOnOneFeed == (s1 :> feed) @@ (s2 :> feed)

NoCooldown == (board :> 0)
FeedCooldown == (feed :> 4)

Interchangeable == Permutations({w1, w2})
==============================================================================
