-------------------------- MODULE MCFeedbackLearning --------------------------
(***************************************************************************)
(* Two postings of one source and one level, one of which may be edited    *)
(* to another function; two decisions make a rule.                         *)
(***************************************************************************)
EXTENDS FeedbackLearning, TLC

CONSTANTS q1, q2

F(dim, value) == [dim |-> dim, value |-> value]

Editions ==
  [i \in 1..2 |->
     IF i = 1 THEN {{F("level", "Director"), F("source", "a")}}
     ELSE {{F("level", "Director"), F("function", "AI"), F("source", "a")},
           {F("function", "AI")}}]

Interchangeable == Permutations({q1, q2})
==============================================================================
