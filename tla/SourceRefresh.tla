---------------------------- MODULE SourceRefresh ----------------------------
(***************************************************************************)
(* The transactions that meet on a source and its runs: a pass of the      *)
(* scheduler (scheduler.py, schedule), a refresh an operator asks for      *)
(* (main.py, refresh), both through enqueue (supervisor.py), and the       *)
(* result and failure transactions of the worker (supervisor.py, run_one;  *)
(* leases.py, fail).                                                       *)
(*                                                                         *)
(* CollectionQueue takes each of these as one step.  Here they are open    *)
(* for a while: they hold and await row locks, they deadlock, and the      *)
(* now() they write is the time at which they BEGAN.  Leases and retries   *)
(* are left out: a collector that fails just goes "lost", to be reclaimed. *)
(***************************************************************************)
EXTENDS Naturals, FiniteSets

CONSTANTS
  Source,     \* ids of the enabled sources, numbers
  Posting,    \* source_job_ids a source may list
  Scheduler,  \* scheduler processes
  Operator,   \* refresh requests in flight at a time
  Cooldown,   \* per source: ticks the enqueue of a feed waits
  Midnight,   \* the ticks at which a local day begins
  Opening,    \* per local day: the tick of its schedule_hour
  Interval,   \* schedule_hours, in ticks
  MaxRuns,    \* bound: runs ever created
  MaxTime,    \* bound: the last tick
  None        \* no holder of a lock

Run      == 1..MaxRuns
Time     == 0..MaxTime
Producer == Scheduler \union Operator

ASSUME RefreshAssumption ==
  /\ Source \subseteq Nat /\ IsFiniteSet(Source)
  /\ Scheduler \intersect Operator = {} /\ None \notin Producer \union Source
  /\ Cooldown \in [Source -> Nat]
  /\ Midnight \subseteq Nat /\ Opening \in [Midnight -> Nat] /\ Interval \in Nat
  /\ MaxRuns \in Nat /\ MaxTime \in Nat

VARIABLES
  now,          \* the clock
  \* the tables
  status,       \* runs.status; "pending": inserted and not committed
  source,       \* runs.source_id
  createdAt,    \* runs.created_at
  requestedBy,  \* runs.requested_by
  lastSeen,     \* jobs.last_seen_at per source and posting, 0 without a row
  open,         \* jobs.availability = 'observed_open'
  \* the transactions of producers
  pass,         \* holder of the scheduler's advisory lock
  lockedBy,     \* per source: the transaction that has its row locked
  step,         \* where a producer's transaction is
  boundary,     \* the boundary a scheduler's pass has read, by its own clock
  began,        \* the transaction's now()
  todo,         \* the sources it has yet to enqueue
  \* the collectors of runs
  phase,        \* where the collector of a run is
  listing,      \* the postings it fetched
  resultAt      \* now() of its result transaction

runVars      == <<status, source, createdAt, requestedBy>>
jobVars      == <<lastSeen, open>>
producerVars == <<pass, lockedBy, step, boundary, began, todo>>
collectVars  == <<phase, listing, resultAt>>
vars == <<now, runVars, jobVars, producerVars, collectVars>>

------------------------------------------------------------------------------
Active   == {"queued", "running"}
Settling == {"written", "failing"}  \* the run's row is updated, uncommitted

Of(s) == {r \in Run : source[r] = s /\ status[r] # "absent"}

InTransaction(p) == step[p] \in {"enqueue", "insert"}

\* m began the local day of now.
IsToday(m) == m <= now /\ \A n \in Midnight : n <= now => n <= m

\* The WHERE clause of schedule, on committed runs.
Due(p, s) ==
  \A r \in Of(s) : status[r] # "pending" =>
    createdAt[r] < boundary[p] /\ createdAt[r] + Interval <= now

\* Timestamps are finer than ticks: requests and results that begin in one
\* tick would wrongly compare as equal, so a tick sees only one kind begin.
RequestBegan ==
  \/ \E p \in Producer : InTransaction(p) /\ began[p] = now
  \/ \E r \in Run : status[r] # "absent" /\ createdAt[r] = now

ResultBegan ==
  \/ \E r \in Run : phase[r] \in {"writing", "written"} /\ resultAt[r] = now
  \/ now > 0 /\ \E s \in Source, j \in Posting : lastSeen[s][j] = now

\* The source a producer is about to enqueue: ORDER BY s.id.
IsNext(p, s) == s \in todo[p] /\ \A t \in todo[p] : s <= t

\* The feed cooldown of enqueue, by the transaction's own now().
Cooling(p, s) ==
  Cooldown[s] > 0 /\ \E r \in Of(s) : createdAt[r] + Cooldown[s] > began[p]

\* The result of r adds postings: their foreign key share-locks the source's
\* row, which only FOR UPDATE minds.
Adds(r) == \E j \in listing[r] : lastSeen[source[r]][j] = 0

Shared(s) == \E r \in Of(s) : phase[r] = "written" /\ Adds(r)

\* The INSERT of p awaits the transaction of r's collector, which in turn
\* will await the source row that p has locked.
Deadlocked(p, r) ==
  /\ status[r] \in Active /\ phase[r] \in Settling
  /\ step[p] = "insert" /\ IsNext(p, source[r]) /\ ~Cooling(p, source[r])

Unlocked(p) == [s \in Source |-> IF lockedBy[s] = p THEN None ELSE lockedBy[s]]

Init ==
  /\ now = 0
  /\ status = [r \in Run |-> "absent"]
  /\ source = [r \in Run |-> None]
  /\ createdAt = [r \in Run |-> 0]
  /\ requestedBy = [r \in Run |-> None]
  /\ lastSeen = [s \in Source |-> [j \in Posting |-> 0]]
  /\ open = [s \in Source |-> [j \in Posting |-> FALSE]]
  /\ pass = None
  /\ lockedBy = [s \in Source |-> None]
  /\ step = [p \in Producer |-> "idle"]
  /\ boundary = [p \in Producer |-> 0]
  /\ began = [p \in Producer |-> 0]
  /\ todo = [p \in Producer |-> {}]
  /\ phase = [r \in Run |-> "none"]
  /\ listing = [r \in Run |-> {}]
  /\ resultAt = [r \in Run |-> 0]

Tick ==
  /\ now < MaxTime
  /\ now' = now + 1
  /\ UNCHANGED <<runVars, jobVars, producerVars, collectVars>>

------------------------------------------------------------------------------
(* producers *)

\* due_boundary: after the schedule hour of the local day a pass goes on, with the
\* boundary it has read.
ReadBoundary(p) ==
  /\ step[p] = "idle"
  /\ \E m \in Midnight :
       /\ IsToday(m) /\ Opening[m] <= now
       /\ boundary' = [boundary EXCEPT ![p] = Opening[m]]
  /\ step' = [step EXCEPT ![p] = "due"]
  /\ UNCHANGED <<now, runVars, jobVars, pass, lockedBy, began, todo, collectVars>>

\* Mutant: a pass does not try for the advisory lock.
ScheduleUnlocked(p) ==
  /\ step[p] = "due" /\ ~ResultBegan
  /\ \E s \in Source : Due(p, s)
  /\ todo' = [todo EXCEPT ![p] = {s \in Source : Due(p, s)}]
  /\ pass' = p
  /\ began' = [began EXCEPT ![p] = now]
  /\ step' = [step EXCEPT ![p] = "enqueue"]
  /\ UNCHANGED <<now, runVars, jobVars, lockedBy, boundary, collectVars>>

\* schedule: the transaction of a pass that gets the advisory lock and finds
\* sources due.
Schedule(p) ==
  /\ step[p] = "due" /\ pass = None /\ ~ResultBegan
  /\ \E s \in Source : Due(p, s)
  /\ todo' = [todo EXCEPT ![p] = {s \in Source : Due(p, s)}]
  /\ pass' = p
  /\ began' = [began EXCEPT ![p] = now]
  /\ step' = [step EXCEPT ![p] = "enqueue"]
  /\ UNCHANGED <<now, runVars, jobVars, lockedBy, boundary, collectVars>>

\* refresh: the transaction of a request begins with the check of the source.
Refresh(p, s) ==
  /\ step[p] = "idle" /\ ~ResultBegan
  /\ todo' = [todo EXCEPT ![p] = {s}]
  /\ began' = [began EXCEPT ![p] = now]
  /\ step' = [step EXCEPT ![p] = "enqueue"]
  /\ UNCHANGED <<now, runVars, jobVars, pass, lockedBy, boundary, collectVars>>

\* enqueue: SELECT ... FROM sources FOR UPDATE.
LockSource(p, s) ==
  /\ step[p] = "enqueue" /\ IsNext(p, s) /\ lockedBy[s] = None /\ ~Shared(s)
  /\ lockedBy' = [lockedBy EXCEPT ![s] = p]
  /\ step' = [step EXCEPT ![p] = "insert"]
  /\ UNCHANGED <<now, runVars, jobVars, pass, boundary, began, todo, collectVars>>

\* enqueue: the feed's cooldown, or ON CONFLICT with an active run that no open
\* transaction has updated, leaves nothing to insert.
SkipSource(p, s) ==
  /\ step[p] = "insert" /\ IsNext(p, s)
  /\ \/ Cooling(p, s)
     \/ \E r \in Of(s) : status[r] \in Active /\ phase[r] \notin Settling
     \/ \A r \in Run : status[r] # "absent"  \* bound: MaxRuns
  /\ todo' = [todo EXCEPT ![p] = @ \ {s}]
  /\ step' = [step EXCEPT ![p] = "enqueue"]
  /\ UNCHANGED <<now, runVars, jobVars, pass, lockedBy, boundary, began, collectVars>>

\* Mutant: the INSERT has no unique index to conflict with.
InsertAnyway(p, s, r) ==
  /\ step[p] = "insert" /\ IsNext(p, s) /\ ~Cooling(p, s)
  /\ status[r] = "absent" /\ \A q \in Run : q < r => status[q] # "absent"
  /\ status' = [status EXCEPT ![r] = "pending"]
  /\ source' = [source EXCEPT ![r] = s]
  /\ createdAt' = [createdAt EXCEPT ![r] = began[p]]
  /\ requestedBy' = [requestedBy EXCEPT ![r] = p]
  /\ todo' = [todo EXCEPT ![p] = @ \ {s}]
  /\ step' = [step EXCEPT ![p] = "enqueue"]
  /\ UNCHANGED <<now, jobVars, pass, lockedBy, boundary, began, collectVars>>

\* enqueue: INSERT ... ON CONFLICT DO NOTHING inserts a run.
InsertRun(p, s, r) ==
  /\ step[p] = "insert" /\ IsNext(p, s) /\ ~Cooling(p, s)
  /\ \A q \in Of(s) : status[q] \notin Active
  /\ status[r] = "absent" /\ \A q \in Run : q < r => status[q] # "absent"
  /\ status' = [status EXCEPT ![r] = "pending"]
  /\ source' = [source EXCEPT ![r] = s]
  /\ createdAt' = [createdAt EXCEPT ![r] = began[p]]
  /\ requestedBy' = [requestedBy EXCEPT ![r] = p]
  /\ todo' = [todo EXCEPT ![p] = @ \ {s}]
  /\ step' = [step EXCEPT ![p] = "enqueue"]
  /\ UNCHANGED <<now, jobVars, pass, lockedBy, boundary, began, collectVars>>

\* Mutant: the connection of a finished request is left open, its locks held.
CloseKeepingLocks(p) ==
  /\ pass' = IF pass = p THEN None ELSE pass
  /\ step' = [step EXCEPT ![p] = "idle"]
  /\ todo' = [todo EXCEPT ![p] = {}]
  /\ boundary' = [boundary EXCEPT ![p] = 0]
  /\ began' = [began EXCEPT ![p] = 0]
  /\ UNCHANGED <<now, jobVars, lockedBy, collectVars>>

\* What the end of a transaction does to its locks.
Close(p) ==
  /\ lockedBy' = Unlocked(p)
  /\ pass' = IF pass = p THEN None ELSE pass
  /\ step' = [step EXCEPT ![p] = "idle"]
  /\ todo' = [todo EXCEPT ![p] = {}]
  /\ boundary' = [boundary EXCEPT ![p] = 0]
  /\ began' = [began EXCEPT ![p] = 0]
  /\ UNCHANGED <<now, jobVars, collectVars>>

\* schedule: another pass has the lock, or no source is due.
FindNothing(p) ==
  /\ step[p] = "due"
  /\ pass # None \/ \A s \in Source : ~Due(p, s)
  /\ Close(p)
  /\ UNCHANGED runVars

\* The transaction of a producer commits: its runs can be claimed.
CommitRequest(p) ==
  /\ step[p] = "enqueue" /\ todo[p] = {}
  /\ status' = [r \in Run |-> IF status[r] = "pending" /\ requestedBy[r] = p
                              THEN "queued" ELSE status[r]]
  /\ Close(p)
  /\ UNCHANGED <<source, createdAt, requestedBy>>

\* It rolls back: the process is gone, or an error ends the whole pass.
Abort(p) ==
  /\ step[p] # "idle"
  /\ LET undone == {r \in Run : status[r] = "pending" /\ requestedBy[r] = p}
         Undo(f, v) == [r \in Run |-> IF r \in undone THEN v ELSE f[r]]
     IN  /\ status' = Undo(status, "absent")
         /\ source' = Undo(source, None)
         /\ createdAt' = Undo(createdAt, 0)
         /\ requestedBy' = Undo(requestedBy, None)
  /\ Close(p)

------------------------------------------------------------------------------
(* collectors *)

Move(r, to) ==
  /\ phase' = [phase EXCEPT ![r] = to]
  /\ UNCHANGED <<now, jobVars, producerVars, source, createdAt, requestedBy>>

\* The collector is done with what it fetched.
Drop(r, to) ==
  /\ Move(r, to)
  /\ listing' = [listing EXCEPT ![r] = {}]
  /\ resultAt' = [resultAt EXCEPT ![r] = 0]

\* A worker has claimed the run and fetched the source.
Collect(r, L) ==
  /\ status[r] = "queued" \/ (status[r] = "running" /\ phase[r] = "lost")
  /\ status' = [status EXCEPT ![r] = "running"]
  /\ listing' = [listing EXCEPT ![r] = L]
  /\ Move(r, "fetched")
  /\ UNCHANGED resultAt

\* The result transaction begins and locks the run.
BeginResult(r) ==
  /\ phase[r] = "fetched" /\ ~RequestBegan
  /\ resultAt' = [resultAt EXCEPT ![r] = now]
  /\ Move(r, "writing")
  /\ UNCHANGED <<status, listing>>

\* It has written the jobs and updates the run.
UpdateRun(r) ==
  /\ phase[r] = "writing"
  /\ Adds(r) => lockedBy[source[r]] = None
  /\ Move(r, "written")
  /\ UNCHANGED <<status, listing, resultAt>>

\* Mutant of Seen: a posting that is listed again keeps the time it was inserted at.
SeenFirst(r) ==
  [j \in Posting |-> IF j \in listing[r] /\ lastSeen[source[r]][j] = 0
                     THEN resultAt[r] ELSE lastSeen[source[r]][j]]

\* The postings listed are seen now; those not seen since the run was created
\* are no longer observed.
Seen(r) ==
  [j \in Posting |-> IF j \in listing[r] THEN resultAt[r]
                     ELSE lastSeen[source[r]][j]]

Observed(r) ==
  [j \in Posting |->
     \/ j \in listing[r]
     \/ open[source[r]][j] /\ ~(lastSeen[source[r]][j] < createdAt[r])]

\* It updates the source's row, for which it may have waited, and commits.
CommitResult(r) ==
  /\ phase[r] = "written" /\ lockedBy[source[r]] = None
  /\ lastSeen' = [lastSeen EXCEPT ![source[r]] = Seen(r)]
  /\ open' = [open EXCEPT ![source[r]] = Observed(r)]
  /\ status' = [status EXCEPT ![r] = "completed"]
  /\ phase' = [phase EXCEPT ![r] = "none"]
  /\ listing' = [listing EXCEPT ![r] = {}]
  /\ resultAt' = [resultAt EXCEPT ![r] = 0]
  /\ UNCHANGED <<now, source, createdAt, requestedBy, producerVars>>

\* fail begins: the fetch or the result transaction has raised.
BeginFail(r) ==
  /\ phase[r] \in {"fetched", "writing", "written", "broken"}
  /\ Drop(r, "failing")
  /\ UNCHANGED status

\* fail updates the source's row too, and commits.
CommitFail(r) ==
  /\ phase[r] = "failing" /\ lockedBy[source[r]] = None
  /\ status' = [status EXCEPT ![r] = "failed"]
  /\ Drop(r, "none")

\* The worker dies or loses its lease.
LoseCollector(r) ==
  /\ phase[r] \in {"fetched", "broken", "writing"} \union Settling
  /\ Drop(r, "lost")
  /\ UNCHANGED status

\* The exhaustion UPDATE of claim.
GiveUp(r) ==
  /\ phase[r] = "lost"
  /\ status' = [status EXCEPT ![r] = "failed"]
  /\ Drop(r, "none")

------------------------------------------------------------------------------
(* PostgreSQL's deadlock detector ends one of the two transactions. *)

\* An error in result leads to fail, an error in fail out of run_one.
BreakResult(p, r) ==
  /\ Deadlocked(p, r)
  /\ Drop(r, IF phase[r] = "written" THEN "broken" ELSE "lost")
  /\ UNCHANGED status

BreakRequest(p, r) == Deadlocked(p, r) /\ Abort(p)

------------------------------------------------------------------------------
ProducerStep(p) ==
  \/ \E s \in Source : LockSource(p, s)
  \/ \E s \in Source : SkipSource(p, s)
  \/ \E s \in Source, r \in Run : InsertRun(p, s, r)
  \/ CommitRequest(p)

CollectorStep(r) ==
  \/ \E L \in SUBSET Posting : Collect(r, L)
  \/ BeginResult(r) \/ UpdateRun(r) \/ BeginFail(r) \/ GiveUp(r)

Settle(r) == CommitResult(r) \/ CommitFail(r)

Detect == \E p \in Producer, r \in Run : BreakResult(p, r) \/ BreakRequest(p, r)

Next ==
  \/ Tick
  \/ \E p \in Scheduler : ReadBoundary(p) \/ Schedule(p) \/ FindNothing(p)
  \/ \E p \in Operator, s \in Source : Refresh(p, s)
  \/ \E p \in Producer : ProducerStep(p) \/ Abort(p)
  \/ \E r \in Run : CollectorStep(r) \/ Settle(r) \/ LoseCollector(r)
  \/ Detect

Spec == Init /\ [][Next]_vars

------------------------------------------------------------------------------
\* The variables have their types, and the index of active runs has no duplicate.
TypeOK ==
  /\ now \in Time
  /\ status \in [Run -> Active \union {"absent", "pending", "completed", "failed"}]
  /\ source \in [Run -> Source \union {None}]
  /\ createdAt \in [Run -> Time]
  /\ requestedBy \in [Run -> Producer \union {None}]
  /\ lastSeen \in [Source -> [Posting -> Time]]
  /\ open \in [Source -> [Posting -> BOOLEAN]]
  /\ pass \in Scheduler \union {None}
  /\ lockedBy \in [Source -> Producer \union {None}]
  /\ step \in [Producer -> {"idle", "due", "enqueue", "insert"}]
  /\ boundary \in [Producer -> Time]
  /\ began \in [Producer -> Time]
  /\ todo \in [Producer -> SUBSET Source]
  /\ phase \in [Run ->
        Settling \union {"none", "fetched", "writing", "broken", "lost"}]
  /\ listing \in [Run -> SUBSET Posting]
  /\ resultAt \in [Run -> Time]
  \* the unique index one_active_source_run
  /\ \A q, r \in Run :
       {status[q], status[r]} \subseteq Active \union {"pending"}
       /\ source[q] = source[r] => q = r

Scheduled(r) == status[r] # "absent" /\ requestedBy[r] \in Scheduler

Apart(q, r) ==
  /\ createdAt[q] + Interval <= createdAt[r]
  /\ \E m \in Midnight : createdAt[q] < Opening[m] /\ Opening[m] <= createdAt[r]

\* However many schedulers run, whatever the operators request meanwhile, however
\* soon runs settle and even if a pass is overtaken by midnight: between two
\* scheduled runs of a source a schedule hour and schedule_hours have passed
\* (scheduler.py:15-49, test_worker_leases.py:173).
OneScheduledRunPerDay ==
  \A q, r \in Run :
    Scheduled(q) /\ Scheduled(r) /\ source[q] = source[r] /\ q # r =>
      Apart(q, r) \/ Apart(r, q)

\* What is open has been seen since the request of each refresh of its source that
\* succeeded, although requests and results begin, wait and commit out of order:
\* a posting that a refresh did not list stays open only if another result, begun
\* after that request, listed it (created_at and last_seen_at are both the now() of
\* a transaction; supervisor.py:68-71, collection.md:7).
OpenWasSeen ==
  \A r \in Run : status[r] = "completed" =>
    \A j \in Posting : open[source[r]][j] => createdAt[r] <= lastSeen[source[r]][j]

(***************************************************************************)
(* Fairness: a transaction that is not blocked goes on, one that waits for *)
(* another is woken when that one ends (waiters are queued, hence strong   *)
(* fairness), and the server breaks deadlocks, it does not matter how.     *)
(* Nothing is assumed of aborts, errors or lost workers.                   *)
(***************************************************************************)
LiveSpec ==
  /\ Spec
  /\ WF_vars(Detect)
  /\ \A p \in Producer : SF_vars(ProducerStep(p))
  /\ \A r \in Run : SF_vars(Settle(r))

\* Requests and results lock sources and runs in opposite orders, and yet none
\* waits for ever (supervisor.py:23-30 and 48-74, leases.py:133-137).
NoStandstill ==
  /\ \A p \in Producer : InTransaction(p) ~> ~InTransaction(p)
  /\ \A r \in Run : phase[r] \in Settling ~> phase[r] \notin Settling

------------------------------------------------------------------------------
(* The inductive invariant that the proofs use. *)

\* A run is of a source and of the past; only a running run is collected; an
\* uncommitted run is its open transaction's, which has the source locked and is
\* done with it.
RunsSound ==
  \A r \in Run :
    /\ status[r] # "absent" => source[r] \in Source /\ createdAt[r] <= now
    /\ phase[r] # "none" => status[r] = "running"
    /\ status[r] = "pending" =>
         /\ requestedBy[r] \in Producer
         /\ InTransaction(requestedBy[r])
         /\ lockedBy[source[r]] = requestedBy[r]
         /\ source[r] \notin todo[requestedBy[r]]

\* A boundary is past, and so is the beginning of a transaction, which inserts into
\* a source it has locked; a pass holds the advisory lock.
ProducerSound(p) ==
  /\ InTransaction(p) => began[p] <= now
  /\ step[p] = "insert" => \E s \in Source : IsNext(p, s) /\ lockedBy[s] = p
  /\ p \in Scheduler /\ step[p] # "idle" =>
       /\ \E m \in Midnight : boundary[p] = Opening[m]
       /\ boundary[p] <= now
  /\ p \in Scheduler /\ InTransaction(p) => pass = p /\ boundary[p] <= began[p]

ProducersSound == \A p \in Producer : ProducerSound(p)

\* The scheduled runs of what a pass has yet to enqueue are committed and old.
PassSound ==
  \A p \in Scheduler : InTransaction(p) =>
    \A s \in todo[p], r \in Run : Scheduled(r) /\ source[r] = s =>
      /\ status[r] # "pending" /\ createdAt[r] < boundary[p]
      /\ createdAt[r] + Interval <= began[p]

\* No request of a run of the source is later than a result being written.
ResultsSound ==
  \A q, r \in Run :
    /\ phase[r] \in {"writing", "written"}
    /\ status[q] # "absent" /\ source[q] = source[r]
    => createdAt[q] <= resultAt[r]

IInv ==
  /\ TypeOK /\ RunsSound /\ ProducersSound /\ PassSound /\ ResultsSound
  /\ OneScheduledRunPerDay /\ OpenWasSeen

------------------------------------------------------------------------------
(* Why nobody stands still: the safety half of NoStandstill. *)

\* A producer locks sources in the order of their ids, each before it inserts.
LocksOrdered ==
  \A s \in Source : lockedBy[s] # None =>
    LET p == lockedBy[s] IN
    /\ InTransaction(p)
    /\ \A t \in todo[p] : s < t \/ (s = t /\ step[p] = "insert")

\* The next statement of a producer awaits nothing: a guard of ProducerStep holds.
CanGoOn(p) ==
  \/ step[p] = "enqueue" /\ todo[p] = {}
  \/ \E s \in Source : step[p] = "enqueue" /\ IsNext(p, s) /\ lockedBy[s] = None /\ ~Shared(s)
  \/ \E s \in Source :
       /\ step[p] = "insert" /\ IsNext(p, s)
       /\ \/ Cooling(p, s)
          \/ \E r \in Of(s) : status[r] \in Active /\ phase[r] \notin Settling
          \/ \A r \in Of(s) : status[r] \notin Active

\* A guard of Settle holds.
CanSettle(r) == phase[r] \in Settling /\ lockedBy[source[r]] = None

\* Whenever transactions are open, one of them awaits nothing or PostgreSQL sees a
\* deadlock of two of them.  No longer circle of waiting exists: only passes hold
\* several sources and they take them in order (ORDER BY in schedule), and a result
\* that has its run needs nothing more than its source.
SomeoneGoesOn ==
  (\E p \in Producer : InTransaction(p)) \/ (\E r \in Run : phase[r] \in Settling) =>
    \/ \E p \in Producer : CanGoOn(p)
    \/ \E r \in Run : CanSettle(r)
    \/ \E p \in Producer, r \in Run : Deadlocked(p, r)
==============================================================================
