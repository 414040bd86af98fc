------------------------------ MODULE RunLedger ------------------------------
(***************************************************************************)
(* What the collection queue promises to everything that reads the tables  *)
(* runs and jobs: a run is requested, attempted a bounded number of times, *)
(* and settles once; a source has one unsettled run at a time; and the     *)
(* postings of a source are those of ONE attempt, the latest attempt of    *)
(* its run, and only ever replaced by those of a later run.                *)
(*                                                                         *)
(* There are no workers, leases, locks or clocks here.  CollectionQueue    *)
(* shows how the code keeps this promise with them.                        *)
(***************************************************************************)
EXTENDS Naturals

CONSTANTS
  Run,          \* the runs, numbered in the order of their creation
  Source,       \* the collection sources
  NoSource,     \* the source of a run that was not created yet
  MaxAttempts   \* worker_max_attempts

VARIABLES
  state,        \* runs.status, with "absent" for a row that does not exist
  source,       \* runs.source_id
  attempt,      \* runs.attempts
  published     \* per source: the run and the attempt whose postings are stored

vars == <<state, source, attempt, published>>

Unsettled == {"queued", "running"}

Init ==
  /\ state = [r \in Run |-> "absent"]
  /\ source = [r \in Run |-> NoSource]
  /\ attempt = [r \in Run |-> 0]
  /\ published = [s \in Source |-> <<0, 0>>]

\* A refresh of s is requested, provided that none is under way.
Request(s, r) ==
  /\ state[r] = "absent"
  /\ \A q \in Run : source[q] = s => state[q] \notin Unsettled
  /\ state' = [state EXCEPT ![r] = "queued"]
  /\ source' = [source EXCEPT ![r] = s]
  /\ UNCHANGED <<attempt, published>>

Given(F) == [q \in Run |-> IF q \in F THEN "failed" ELSE state[q]]

\* Unsettled runs are given up.
GiveUp(F) ==
  /\ \A q \in F : state[q] \in Unsettled
  /\ state' = Given(F)
  /\ UNCHANGED <<source, attempt, published>>

\* A run starts its next attempt; runs found hopeless meanwhile are given up.
Start(r, F) ==
  /\ r \notin F
  /\ \A q \in F \union {r} : state[q] \in Unsettled
  /\ attempt[r] < MaxAttempts
  /\ state' = [Given(F) EXCEPT ![r] = "running"]
  /\ attempt' = [attempt EXCEPT ![r] = @ + 1]
  /\ UNCHANGED <<source, published>>

\* The latest attempt of a run stores its postings and completes the run.
Publish(r) ==
  /\ state[r] = "running"
  /\ published[source[r]][1] < r
  /\ state' = [state EXCEPT ![r] = "completed"]
  /\ published' = [published EXCEPT ![source[r]] = <<r, attempt[r]>>]
  /\ UNCHANGED <<source, attempt>>

Next ==
  \/ \E s \in Source, r \in Run : Request(s, r)
  \/ \E F \in SUBSET Run : GiveUp(F)
  \/ \E r \in Run, F \in SUBSET Run : Start(r, F)
  \/ \E r \in Run : Publish(r)

Spec == Init /\ [][Next]_vars
==============================================================================
