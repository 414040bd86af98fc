-------------------------- MODULE MCBoardCollection --------------------------
(***************************************************************************)
(* A board of three keys: a posting that may be edited into one that is    *)
(* quarantined and outside the US, one that is quarantined whatever its    *)
(* title says, and one whose location does not say its country, or that    *)
(* has a secret.                                                           *)
(***************************************************************************)
EXTENDS BoardCollection

Director == [level |-> "Director", executive |-> FALSE, data |-> TRUE, ai |-> FALSE,
             science |-> FALSE, cdo |-> FALSE, hedged |-> FALSE]

Good == [title |-> Director, country |-> "US", saysUS |-> FALSE, flags |-> {},
         hidden |-> FALSE, words |-> {1, 2}]

Offers ==
  {[key |-> 1, content |-> Good],
   [key |-> 1, content |-> [Good EXCEPT !.flags = {"prompt_injection"},
                                        !.country = "other", !.words = {2}]],
   [key |-> 2, content |-> [Good EXCEPT !.flags = {"prompt_injection"},
                                        !.title.data = FALSE, !.words = {1}]],
   [key |-> 3, content |-> [Good EXCEPT !.country = "", !.words = {2}]],
   [key |-> 3, content |-> [Good EXCEPT !.flags = {"credential"}, !.hidden = TRUE]]}
==============================================================================
