--------------------------- MODULE CollectionQueue ---------------------------
(***************************************************************************)
(* The durable collection queue: leases.py (claim, heartbeat, renew,       *)
(* require_lease, fail) and the worker and producer halves of              *)
(* supervisor.py (run_one, enqueue) over the PostgreSQL tables runs and    *)
(* sources.                                                                *)
(*                                                                         *)
(* One step is one SQL transaction, or one statement where the code holds  *)
(* a transaction or a session lock open across statements that others can  *)
(* observe: the claim transaction (scan, gate, take) and the result        *)
(* transaction (require_lease ... commit).  What a transaction has written *)
(* and not committed is in the worker's own variables; RowLocked gives the *)
(* rows it keeps locked meanwhile.                                         *)
(*                                                                         *)
(* Timestamps are modelled by the time that has passed since them (ages,   *)
(* up to AgeCap) or is left until them (lease): Tick moves all of them, so *)
(* the clock needs no bound.  Runs are numbered in the order in which they *)
(* appear, which need not be that of created_at: now() is the beginning of *)
(* the transaction that enqueues, and a pass may wait for sources in it.   *)
(***************************************************************************)
EXTENDS Integers, FiniteSets

CONSTANTS
  Worker,       \* collection worker processes
  Source,       \* rows of jobsearch.sources
  Provider,     \* providers, the unit of serialization
  ProviderOf,   \* the provider of each source
  Cooldown,     \* per provider: ticks that must pass between two attempts
  None,         \* NULL: no source, no holder
  MaxRuns,      \* bound: runs ever created
  Lease,        \* worker_lease_seconds, in ticks
  MaxRun,       \* worker_max_run_seconds, in ticks
  MaxAttempts,  \* worker_max_attempts
  ScanLimit,    \* the LIMIT of the candidate scan (100 in the code)
  AgeCap,       \* ages are counted up to this many ticks
  MaxWait,      \* bound: ticks that a transaction which enqueues stays open
  Switched,     \* bound: the sources an operator disables and enables
  GateMayDrop   \* may the server end a gate session of a worker that lives on?

Run == 1..MaxRuns

ASSUME QueueAssumption ==
  /\ MaxRuns \in Nat /\ Lease \in Nat /\ MaxRun \in Nat
  /\ MaxAttempts \in Nat /\ ScanLimit \in Nat /\ AgeCap \in Nat /\ MaxWait \in Nat
  /\ 0 < Lease /\ Lease < MaxRun       \* settings.validate_worker_timing
  /\ 0 < MaxAttempts /\ 0 < ScanLimit
  /\ ProviderOf \in [Source -> Provider]
  /\ Cooldown \in [Provider -> Nat]
  /\ \A p \in Provider : Cooldown[p] + MaxWait <= AgeCap
  /\ MaxRun + Lease <= AgeCap
  /\ None \notin Source /\ None \notin Worker
  /\ Switched \subseteq Source
  /\ GateMayDrop \in BOOLEAN

VARIABLES
  \* the tables
  enabled,      \* sources.enabled
  catalog,      \* per source: the run and attempt that last wrote its jobs
  status,       \* runs.status, "absent" for a row that does not exist yet
  source,       \* runs.source_id
  attempts,     \* runs.attempts
  token,        \* runs.lease_token: the attempt it was drawn for, 0 for NULL
  lease,        \* time left until runs.lease_expires_at
  createdAge,   \* time since runs.created_at
  startedAge,   \* time since runs.started_at
  gate,         \* per provider: the session that holds its advisory lock
  \* the worker processes
  pc,           \* where the worker is in run_one
  todo,         \* candidates of the claim scan not looked at yet
  doomed,       \* runs its open claim transaction has updated to 'failed'
  mine,         \* the candidate in hand, then the claimed run; 0 for none
  mytoken,      \* run['lease_token']
  lost,         \* the heartbeat's lost event
  dead          \* processes gone whose sessions the server has not ended yet

tableVars  == <<enabled, catalog, status, source, attempts, token, lease,
                createdAge, startedAge>>
workerVars == <<todo, doomed, mine, mytoken, lost>>
vars == <<tableVars, gate, pc, workerVars, dead>>

------------------------------------------------------------------------------
Active   == {"queued", "running"}
Beating  == {"collecting", "fetched", "writing", "failing"}
Claimed  == Beating \union {"leaving"}

ProviderOfRun(r) == ProviderOf[source[r]]

Expired(r) == status[r] = "running" /\ lease[r] = 0

\* Mutant: the exhaustion UPDATE is gone.
SpentNever == {}

\* The first UPDATE of claim: runs whose retries are exhausted.
Spent == {r \in Run : Expired(r) /\ attempts[r] >= MaxAttempts}

\* Mutant: the re-check forgets r.attempts < worker_max_attempts.
ClaimableForever(r) ==
  \/ status[r] = "queued"
  \/ Expired(r) /\ startedAge[r] >= Cooldown[ProviderOfRun(r)]

\* Mutant: a reclaim forgets the provider's cooldown.
ClaimableAtOnce(r) ==
  status[r] = "queued" \/ (Expired(r) /\ attempts[r] < MaxAttempts)

\* The WHERE clause of the candidate scan and of its locked re-check.
Claimable(r) ==
  \/ status[r] = "queued"
  \/ /\ Expired(r)
     /\ attempts[r] < MaxAttempts
     /\ startedAge[r] >= Cooldown[ProviderOfRun(r)]

\* What ORDER BY created_at LIMIT n may leave of some runs: of runs created at one
\* moment, or both before all ages that are counted, either may come first.
Oldest(S, n) ==
  {T \in SUBSET S :
     /\ Cardinality(T) = IF Cardinality(S) < n THEN Cardinality(S) ELSE n
     /\ \A r \in T, q \in S \ T : createdAge[r] >= createdAge[q]}

IsHead(w, r) == r \in todo[w] /\ \A q \in todo[w] : createdAge[r] >= createdAge[q]

\* Mutant: require_lease reads the row without FOR UPDATE.
LocksWithoutForUpdate(w, r) == r \in doomed[w]

\* Rows locked by the open transaction of a worker.
Locks(w, r) == r \in doomed[w] \/ (pc[w] = "writing" /\ mine[w] = r)
RowLocked(r) == \E w \in Worker : Locks(w, r)

\* Mutant: leases are renewed past worker_max_run_seconds.
HoldsLeaseForever(w) ==
  /\ status[mine[w]] = "running"
  /\ token[mine[w]] = mytoken[w]
  /\ lease[mine[w]] > 0

\* Mutant: the lease is not compared with the worker's own token.
HoldsAnyLease(w) ==
  /\ status[mine[w]] = "running"
  /\ lease[mine[w]] > 0
  /\ startedAge[mine[w]] < MaxRun

\* The condition of require_lease and of renew.
HoldsLease(w) ==
  /\ status[mine[w]] = "running"
  /\ token[mine[w]] = mytoken[w]
  /\ lease[mine[w]] > 0
  /\ startedAge[mine[w]] < MaxRun

\* pg_advisory_unlock, and what the end of the session does to its locks.
Released(w) == [p \in Provider |-> IF gate[p] = w THEN None ELSE gate[p]]

Up(w) == w \notin dead

------------------------------------------------------------------------------
Init ==
  /\ enabled = [s \in Source |-> TRUE]
  /\ catalog = [s \in Source |-> <<0, 0>>]
  /\ status = [r \in Run |-> "absent"]
  /\ source = [r \in Run |-> None]
  /\ attempts = [r \in Run |-> 0]
  /\ token = [r \in Run |-> 0]
  /\ lease = [r \in Run |-> 0]
  /\ createdAge = [r \in Run |-> 0]
  /\ startedAge = [r \in Run |-> 0]
  /\ gate = [p \in Provider |-> None]
  /\ pc = [w \in Worker |-> "idle"]
  /\ todo = [w \in Worker |-> {}]
  /\ doomed = [w \in Worker |-> {}]
  /\ mine = [w \in Worker |-> 0]
  /\ mytoken = [w \in Worker |-> 0]
  /\ lost = [w \in Worker |-> FALSE]
  /\ dead = {}

\* An operator enables or disables a source in the database.
SetEnabled(s) ==
  /\ s \in Switched
  /\ enabled' = [enabled EXCEPT ![s] = ~@]
  /\ UNCHANGED <<catalog, status, source, attempts, token, lease, createdAge,
                 startedAge, gate, pc, workerVars, dead>>

\* A run appears: the transaction of a pass or a refresh commits, `waited` ticks after
\* it has begun, which is now() for the cooldown and for created_at.  Meanwhile it
\* had the source's row locked, so that nothing it has looked at has changed since.
Enqueue(s, r, waited) ==
  /\ status[r] = "absent" /\ \A q \in Run : q < r => status[q] # "absent"
  /\ enabled[s]
  /\ \A q \in Run : source[q] = s =>
       /\ Cooldown[ProviderOf[s]] > 0 => createdAge[q] >= Cooldown[ProviderOf[s]] + waited
       /\ status[q] \notin Active                    \* one_active_source_run
  /\ status' = [status EXCEPT ![r] = "queued"]
  /\ source' = [source EXCEPT ![r] = s]
  /\ createdAge' = [createdAge EXCEPT ![r] = waited]
  /\ UNCHANGED <<enabled, catalog, attempts, token, lease, startedAge, gate,
                 pc, workerVars, dead>>

------------------------------------------------------------------------------
(* claim *)

\* The exhaustion UPDATE, which waits for locked rows, and the candidate scan.
Scan(w) ==
  /\ Up(w) /\ pc[w] = "idle"
  /\ \A r \in Spent : ~RowLocked(r)
  /\ doomed' = [doomed EXCEPT ![w] = Spent]
  /\ \E candidates \in Oldest({r \in Run : Claimable(r)}, ScanLimit) :
       todo' = [todo EXCEPT ![w] = candidates]
  /\ pc' = [pc EXCEPT ![w] = "scanning"]
  /\ UNCHANGED <<tableVars, gate, mine, mytoken, lost, dead>>

\* pg_try_advisory_lock says no: on to the next candidate.
SkipBusy(w) ==
  /\ Up(w) /\ pc[w] = "scanning"
  /\ \E r \in todo[w] :
       /\ IsHead(w, r)
       /\ gate[ProviderOfRun(r)] # None
       /\ todo' = [todo EXCEPT ![w] = @ \ {r}]
  /\ UNCHANGED <<tableVars, gate, pc, doomed, mine, mytoken, lost, dead>>

\* Mutant: the answer of pg_try_advisory_lock is not looked at.
AcquireGateBlindly(w) ==
  /\ Up(w) /\ pc[w] = "scanning"
  /\ \E r \in todo[w] :
       /\ IsHead(w, r)
       /\ gate' = [gate EXCEPT ![ProviderOfRun(r)] = w]
       /\ mine' = [mine EXCEPT ![w] = r]
  /\ pc' = [pc EXCEPT ![w] = "gated"]
  /\ UNCHANGED <<tableVars, todo, doomed, mytoken, lost, dead>>

\* pg_try_advisory_lock says yes.
AcquireGate(w) ==
  /\ Up(w) /\ pc[w] = "scanning"
  /\ \E r \in todo[w] :
       /\ IsHead(w, r)
       /\ gate[ProviderOfRun(r)] = None
       /\ gate' = [gate EXCEPT ![ProviderOfRun(r)] = w]
       /\ mine' = [mine EXCEPT ![w] = r]
  /\ pc' = [pc EXCEPT ![w] = "gated"]
  /\ UNCHANGED <<tableVars, todo, doomed, mytoken, lost, dead>>

\* The gate is given back and the claim goes on to the next candidate.
Skip(w) ==
  /\ gate' = Released(w)
  /\ pc' = [pc EXCEPT ![w] = "scanning"]
  /\ todo' = [todo EXCEPT ![w] = @ \ {mine[w]}]
  /\ mine' = [mine EXCEPT ![w] = 0]
  /\ UNCHANGED <<tableVars, mytoken, lost, dead>>

\* The re-check under FOR UPDATE SKIP LOCKED finds the candidate gone.
SkipGone(w) ==
  /\ Up(w) /\ pc[w] = "gated"
  /\ ~Claimable(mine[w]) \/ RowLocked(mine[w])
  /\ Skip(w)
  /\ UNCHANGED doomed

\* The candidate's source was disabled: the run fails with this transaction.
SkipDisabled(w) ==
  /\ Up(w) /\ pc[w] = "gated"
  /\ Claimable(mine[w]) /\ ~RowLocked(mine[w]) /\ ~enabled[source[mine[w]]]
  /\ Skip(w)
  /\ doomed' = [doomed EXCEPT ![w] = @ \union {mine[w]}]

\* The claim succeeds and its transaction commits, the failed runs with it.
Take(w) ==
  /\ Up(w) /\ pc[w] = "gated"
  /\ LET r == mine[w] IN
       /\ Claimable(r) /\ ~RowLocked(r) /\ enabled[source[r]]
       /\ status' = [q \in Run |-> IF q = r THEN "running"
                                   ELSE IF q \in doomed[w] THEN "failed"
                                   ELSE status[q]]
       /\ attempts' = [attempts EXCEPT ![r] = @ + 1]
       /\ token' = [q \in Run |-> IF q = r THEN attempts[r] + 1
                                  ELSE IF q \in doomed[w] THEN 0
                                  ELSE token[q]]
       /\ lease' = [lease EXCEPT ![r] = Lease]
       /\ startedAge' = [startedAge EXCEPT ![r] = 0]
       /\ mytoken' = [mytoken EXCEPT ![w] = attempts[r] + 1]
  /\ pc' = [pc EXCEPT ![w] = "collecting"]
  /\ todo' = [todo EXCEPT ![w] = {}]
  /\ doomed' = [doomed EXCEPT ![w] = {}]
  /\ lost' = [lost EXCEPT ![w] = FALSE]
  /\ UNCHANGED <<enabled, catalog, source, createdAge, gate, mine, dead>>

\* No candidate is left: claim commits and yields None.
FindNothing(w) ==
  /\ Up(w) /\ pc[w] = "scanning" /\ todo[w] = {}
  /\ status' = [q \in Run |-> IF q \in doomed[w] THEN "failed" ELSE status[q]]
  /\ token' = [q \in Run |-> IF q \in doomed[w] THEN 0 ELSE token[q]]
  /\ doomed' = [doomed EXCEPT ![w] = {}]
  /\ pc' = [pc EXCEPT ![w] = "idle"]
  /\ UNCHANGED <<enabled, catalog, source, attempts, lease, createdAge,
                 startedAge, gate, todo, mine, mytoken, lost, dead>>

------------------------------------------------------------------------------
(* heartbeat *)

\* renew extends a lease that is still held; it waits for a locked row.
Renew(w) ==
  /\ Up(w) /\ pc[w] \in Beating /\ ~lost[w]
  /\ HoldsLease(w) /\ ~RowLocked(mine[w])
  /\ lease' = [lease EXCEPT ![mine[w]] = Lease]
  /\ UNCHANGED <<enabled, catalog, status, source, attempts, token,
                 createdAge, startedAge, gate, pc, workerVars, dead>>

\* One renewal finds no row, times out on the row lock or cannot reach the
\* database: the heartbeat thread ends for good.
StopBeating(w) ==
  /\ Up(w) /\ pc[w] \in Beating /\ ~lost[w]
  /\ lost' = [lost EXCEPT ![w] = TRUE]
  /\ UNCHANGED <<tableVars, gate, pc, todo, doomed, mine, mytoken, dead>>

------------------------------------------------------------------------------
(* run_one *)

Go(w, to) ==
  /\ pc' = [pc EXCEPT ![w] = to]
  /\ UNCHANGED <<tableVars, gate, workerVars, dead>>

\* collect returns; the lost event is read once, here.
FetchOk(w) ==
  /\ Up(w) /\ pc[w] = "collecting"
  /\ Go(w, IF lost[w] THEN "leaving" ELSE "fetched")

\* collect raises.
FetchError(w) ==
  /\ Up(w) /\ pc[w] = "collecting"
  /\ Go(w, "failing")

\* Mutant: the result transaction starts without require_lease.
BeginResultUnchecked(w) ==
  /\ Up(w) /\ pc[w] = "fetched" /\ ~RowLocked(mine[w])
  /\ Go(w, "writing")

\* require_lease opens the result transaction and locks the run's row.
BeginResult(w) ==
  /\ Up(w) /\ pc[w] = "fetched" /\ ~RowLocked(mine[w])
  /\ Go(w, IF HoldsLease(w) THEN "writing" ELSE "leaving")

\* Something in the result transaction raises and rolls it back.
ResultError(w) ==
  /\ Up(w) /\ pc[w] \in {"fetched", "writing"}
  /\ Go(w, "failing")

\* The result transaction commits.  An error after it (a lost COMMIT
\* acknowledgement, the metrics) still leads to the exception handler.
Commit(w) ==
  /\ Up(w) /\ pc[w] = "writing"
  /\ catalog' = [catalog EXCEPT ![source[mine[w]]] = <<mine[w], mytoken[w]>>]
  /\ status' = [status EXCEPT ![mine[w]] = "completed"]
  /\ token' = [token EXCEPT ![mine[w]] = 0]
  /\ lease' = [lease EXCEPT ![mine[w]] = 0]
  /\ \E to \in {"leaving", "failing"} : pc' = [pc EXCEPT ![w] = to]
  /\ UNCHANGED <<enabled, source, attempts, createdAge, startedAge, gate,
                 workerVars, dead>>

\* fail: require_lease and the update in one short transaction.
MarkFailed(w) ==
  /\ Up(w) /\ pc[w] = "failing" /\ ~RowLocked(mine[w]) /\ HoldsLease(w)
  /\ status' = [status EXCEPT ![mine[w]] = "failed"]
  /\ token' = [token EXCEPT ![mine[w]] = 0]
  /\ lease' = [lease EXCEPT ![mine[w]] = 0]
  /\ pc' = [pc EXCEPT ![w] = "leaving"]
  /\ UNCHANGED <<enabled, catalog, source, attempts, createdAge, startedAge,
                 gate, workerVars, dead>>

\* fail raises LeaseLost, or cannot reach the database at all.
FailRefused(w) ==
  /\ Up(w) /\ pc[w] = "failing"
  /\ Go(w, "leaving")

\* The heartbeat is joined, the gate unlocked and its session closed.
Leave(w) ==
  /\ Up(w) /\ pc[w] = "leaving"
  /\ gate' = Released(w)
  /\ pc' = [pc EXCEPT ![w] = "idle"]
  /\ mine' = [mine EXCEPT ![w] = 0]
  /\ mytoken' = [mytoken EXCEPT ![w] = 0]
  /\ lost' = [lost EXCEPT ![w] = FALSE]
  /\ UNCHANGED <<tableVars, todo, doomed, dead>>

------------------------------------------------------------------------------
(* failures and time *)

\* SIGKILL, a lost host, the run deadline's os._exit(1), the drain's 143; for
\* a claim also an error in it, which ends its sessions like a crash does.
Crash(w) ==
  /\ Up(w) /\ pc[w] # "idle"
  /\ dead' = dead \union {w}
  /\ UNCHANGED <<tableVars, gate, pc, workerVars>>

\* The server ends the sessions of a dead process: open transactions roll
\* back, advisory locks go, and a replacement process starts.
Reap(w) ==
  /\ w \in dead
  /\ gate' = Released(w)
  /\ pc' = [pc EXCEPT ![w] = "idle"]
  /\ todo' = [todo EXCEPT ![w] = {}]
  /\ doomed' = [doomed EXCEPT ![w] = {}]
  /\ mine' = [mine EXCEPT ![w] = 0]
  /\ mytoken' = [mytoken EXCEPT ![w] = 0]
  /\ lost' = [lost EXCEPT ![w] = FALSE]
  /\ dead' = dead \ {w}
  /\ UNCHANGED tableVars

\* The gate connection breaks (a restart or failover of the server, a cut
\* connection) while the worker collects; it is only used again in Leave.
DropGate(w) ==
  /\ GateMayDrop
  /\ Up(w) /\ pc[w] \in Claimed /\ \E p \in Provider : gate[p] = w
  /\ gate' = Released(w)
  /\ UNCHANGED <<tableVars, pc, workerVars, dead>>

Older(age) == [r \in Run |-> IF age[r] < AgeCap THEN age[r] + 1 ELSE AgeCap]

Tick ==
  /\ lease' = [r \in Run |-> IF lease[r] > 0 THEN lease[r] - 1 ELSE 0]
  /\ createdAge' = Older(createdAge)
  /\ startedAge' = Older(startedAge)
  /\ UNCHANGED <<enabled, catalog, status, source, attempts, token, gate, pc,
                 workerVars, dead>>

------------------------------------------------------------------------------
ClaimStep(w) ==
  \/ Scan(w) \/ SkipBusy(w) \/ AcquireGate(w) \/ SkipGone(w)
  \/ SkipDisabled(w) \/ Take(w) \/ FindNothing(w)

RunStep(w) ==
  \/ FetchOk(w) \/ FetchError(w) \/ BeginResult(w) \/ ResultError(w)
  \/ Commit(w) \/ MarkFailed(w) \/ FailRefused(w) \/ Leave(w)

Next ==
  \/ \E s \in Source : SetEnabled(s)
  \/ \E s \in Source, r \in Run, waited \in 0..MaxWait : Enqueue(s, r, waited)
  \/ \E w \in Worker : ClaimStep(w)
  \/ \E w \in Worker : Renew(w) \/ StopBeating(w)
  \/ \E w \in Worker : RunStep(w)
  \/ \E w \in Worker : Crash(w) \/ Reap(w) \/ DropGate(w)
  \/ Tick

Spec == Init /\ [][Next]_vars

(***************************************************************************)
(* Fairness.  Time passes.  A live worker goes on with what it is doing:   *)
(* main polls for ever, lock waits are queued, a fetch ends or the run     *)
(* deadline kills the process.  The server notices dead sessions.  Nothing *)
(* is assumed of renewals, operators or producers.  Processes may crash    *)
(* any number of times, but not for ever.                                  *)
(***************************************************************************)
LiveSpec ==
  /\ Spec
  /\ WF_vars(Tick)
  /\ \A w \in Worker :
       WF_vars(Reap(w)) /\ WF_vars(RunStep(w)) /\ WF_vars(ClaimStep(w))
  /\ <>[][\A w \in Worker : ~Crash(w)]_vars

------------------------------------------------------------------------------
Attempt   == 0..MaxAttempts
Age       == 0..AgeCap
LeaseTime == 0..Lease
RunOrNone == 0..MaxRuns
Status    == Active \union {"absent", "completed", "failed"}
Place     == Claimed \union {"idle", "scanning", "gated"}

TypeOK ==
  /\ enabled \in [Source -> BOOLEAN]
  /\ catalog \in [Source -> RunOrNone \X Attempt]
  /\ status \in [Run -> Status]
  /\ source \in [Run -> Source \union {None}]
  /\ attempts \in [Run -> Attempt]
  /\ token \in [Run -> Attempt]
  /\ lease \in [Run -> LeaseTime]
  /\ createdAge \in [Run -> Age]
  /\ startedAge \in [Run -> Age]
  /\ gate \in [Provider -> Worker \union {None}]
  /\ pc \in [Worker -> Place]
  /\ todo \in [Worker -> SUBSET Run]
  /\ doomed \in [Worker -> SUBSET Run]
  /\ mine \in [Worker -> RunOrNone]
  /\ mytoken \in [Worker -> Attempt]
  /\ lost \in [Worker -> BOOLEAN]
  /\ dead \subseteq Worker

\* From require_lease to the commit a result transaction owns its run: no
\* other worker gives it up, restarts it or writes results for it, however
\* long ago the lease has run out (leases.py:12-20, test_worker_leases.py:86).
WriterOwnsRun ==
  \A w \in Worker : pc[w] = "writing" =>
    /\ status[mine[w]] = "running" /\ token[mine[w]] = mytoken[w]
    /\ \A v \in Worker \ {w} : ~Locks(v, mine[w])

\* No two workers fetch from one provider at a time, dead and stale ones
\* included: what the session advisory lock of claim is for (leases.py:88-92;
\* worker-leases.md:11).  It needs gate sessions that last (GateMayDrop).
OneCollectionPerProvider ==
  \A v, w \in Worker :
    v # w /\ pc[v] = "collecting" /\ pc[w] = "collecting"
    => ProviderOfRun(mine[v]) # ProviderOfRun(mine[w])

\* A run that hangs loses its lease: renewals stop MaxRun after the start, so
\* a lease is gone MaxRun + Lease after it, whatever the heartbeat thread of
\* the worker does (leases.py:23-33).
LeaseBounded ==
  \A r \in Run : status[r] = "running" /\ lease[r] > 0
                 => startedAge[r] + lease[r] < MaxRun + Lease

\* The steps that start an attempt of r.
Starts(r) == attempts'[r] # attempts[r]

\* The runs of a source whose last attempt is more recent than this many ticks.
TriedWithin(s, ticks) ==
  {q \in Run : source[q] = s /\ attempts[q] > 0 /\ startedAge[q] < ticks}

\* No cooldown, less the time that a request waits in its transaction, sees more than
\* two fetches of one feed start: the cooldown of enqueue counts between beginnings of
\* transactions and that of claim from started_at, so a run that was queued for long can
\* be followed at once by the next one, but not by a third attempt, whatever was
\* stale in the scan (supervisor.py:25-29, leases.py:82-100).
TwoTriesStep ==
  \A r \in Run : Starts(r) =>
    \A p, q \in Run :
      {p, q} \subseteq TriedWithin(source[r], Cooldown[ProviderOfRun(r)] - MaxWait) => p = q

FeedTriedTwice == [][TwoTriesStep]_vars

\* The stored postings of a source only move on to a later run of it, and
\* come from the attempt that owned that run when it completed: no result of
\* an earlier run or of a stale attempt arrives late (supervisor.py:48-72).
ForwardStep ==
  \A s \in Source : catalog'[s] # catalog[s] =>
    \E r \in Run :
      /\ catalog'[s] = <<r, attempts[r]>>
      /\ r > catalog[s][1] /\ source[r] = s
      /\ status[r] = "running" /\ status'[r] = "completed"

CatalogMovesForward == [][ForwardStep]_vars

------------------------------------------------------------------------------
(* The inductive invariant behind the safety properties. *)

\* Rows: ids are created in order, only a running row has a lease or a token
\* to present, and the token is that of its last attempt.
RowsSound ==
  \A r \in Run :
    /\ status[r] = "absent" => attempts[r] = 0
    /\ status[r] # "absent" => source[r] \in Source
    /\ status[r] = "queued" => attempts[r] = 0
    /\ status[r] = "running" => token[r] = attempts[r]
    /\ status[r] # "running" => lease[r] = 0
    /\ \A q \in Run : q < r /\ status[q] = "absent" => status[r] = "absent"

\* The unique index one_active_source_run.
OneActivePerSource ==
  \A q, r \in Run :
    status[q] \in Active /\ status[r] \in Active /\ source[q] = source[r]
    => q = r

\* What a worker holds in its process exists in the tables.
WorkersSound ==
  \A w \in Worker :
    /\ pc[w] \in Claimed =>
         /\ mine[w] \in Run /\ status[mine[w]] # "absent"
         /\ 0 < mytoken[w] /\ mytoken[w] <= attempts[mine[w]]
    /\ pc[w] = "gated" => mine[w] \in todo[w]
    /\ pc[w] \notin {"scanning", "gated"} => doomed[w] = {}
    /\ \A r \in todo[w] : status[r] # "absent"
    /\ \A r \in doomed[w] : status[r] \in Active /\ lease[r] = 0

\* Each attempt of a run belongs to one worker.
AttemptsOwned ==
  \A v, w \in Worker :
    v # w /\ pc[v] \in Claimed /\ pc[w] \in Claimed /\ mine[v] = mine[w]
    => mytoken[v] # mytoken[w]

\* A result transaction holds the row it has checked.
WriterHolds ==
  \A w \in Worker : pc[w] = "writing" =>
    /\ mine[w] \in Run
    /\ status[mine[w]] = "running" /\ token[mine[w]] = mytoken[w]

\* A row is locked by one transaction.
LocksExclusive ==
  \A v, w \in Worker, r \in Run : Locks(v, r) /\ Locks(w, r) => v = w

\* A worker past the gate holds it, unless gate sessions may break.
GateHeld ==
  \A w \in Worker :
    /\ pc[w] = "gated" => gate[ProviderOfRun(mine[w])] = w
    /\ ~GateMayDrop /\ pc[w] \in Claimed => gate[ProviderOfRun(mine[w])] = w

\* The stored postings are older than every run still to come.
CatalogBehind ==
  \A s \in Source, r \in Run :
    status[r] = "absent" \/ (status[r] \in Active /\ source[r] = s)
    => catalog[s][1] < r

\* Of the runs of one source only the newest can be active.  Runs of a feed were created
\* a cooldown apart, and none was created, but for the wait of its transaction, before
\* the attempts of an earlier one had started.
FeedHistory ==
  \A q, r \in Run :
    q < r /\ source[q] = source[r] /\ status[r] # "absent" =>
      /\ status[q] \notin Active
      /\ Cooldown[ProviderOfRun(q)] > 0 => createdAge[q] >= Cooldown[ProviderOfRun(q)]
      /\ startedAge[q] + MaxWait >= createdAge[r]

IInv ==
  /\ TypeOK /\ RowsSound /\ OneActivePerSource /\ WorkersSound
  /\ AttemptsOwned /\ LocksExclusive /\ WriterHolds /\ GateHeld
  /\ CatalogBehind /\ FeedHistory /\ LeaseBounded

------------------------------------------------------------------------------
\* The abstract promise, with the tables read as they are.
Ledger == INSTANCE RunLedger WITH
            NoSource <- None, state <- status, attempt <- attempts,
            published <- catalog

\* The queue implements RunLedger.
ImplementsLedger == Ledger!Spec

\* Every requested refresh settles: crashes, hung fetches, lost heartbeats
\* and disabled sources included, it is completed or failed in the end.
RunsSettle ==
  \A r \in Run : status[r] = "queued" ~> status[r] \in {"completed", "failed"}
==============================================================================
