# A verification of Agentic-JobSearch in TLA+

Agentic-JobSearch collects postings from job boards, stores the ones that fit,
lets an owner decide about them, learns a ranking from the decisions and emails
reports of what was done. The parts that are hard to test are the ones that meet
in PostgreSQL, in files under locks, in Gmail, in Docker and on boards that move
while they are read: workers with leases, schedulers, requests of the owner,
sign-ins, the report sender and the script that starts and stops it all. This
directory models them in TLA+, checks small instances with TLC and proves the most important properties for every size with TLAPS.

`PROJECT.json` lists for every definition the lines of the source it models.
Paths below are relative to the root of the repository.

## 1. The system

| Component | State | Operations | Meets |
|---|---|---|---|
| **Worker lease queue** `ai_core/agents/leases.py`, `supervisor.py` | rows of `runs` (status, attempts, `lease_token`, `lease_expires_at`), advisory lock per provider, process state of a worker | `enqueue`, `claim`, `heartbeat`/`renew`, `require_lease`, result transaction of `run_one`, `fail` | other workers, scheduler, API, PostgreSQL sessions |
| **Scheduler and refresh** `ai_core/agents/scheduler.py`, `src/api/main.py` (`refresh`) | `runs`, `sources`, one advisory lock | `schedule` (a pass over all due sources), `refresh` | queue, through `enqueue` and the unique index `one_active_source_run` |
| **Catalog of postings** `supervisor.py` (`run_one`) | `jobs` (`last_seen_at`, `availability`), `observations` | upsert, mark absent | owner's decisions, by the URL of a posting |
| **Email report** `scripts/email_report.py`, `src/applications/email_history.py` | delivery journal, its `flock`, `emailed_jobs` | `send_tracked`, `deliver`, `record_report` | Gmail, database, a second sender |
| **Owner's decisions** `src/api/main.py`, `src/applications/archives.py`, `dismissals.py` | `saved_jobs`, `job_dismissals`, `job_archives`, two advisory locks | `dismiss_job`, `mark_applied`, `save` | each other, reports, refreshes |
| **Intake and checks** `src/api/intake.py`, `private.py` | `private_resume`, `private_intake`, `private_applications` | `upload`, `delete_resume`, `delete_intake`, `check`, `applications` | decisions, external submission bridge |
| **Report export** `src/applications/reporting.py` | none of its own | `export_rows`, `record_report_data` | decisions, email report |
| **Feedback learning** `src/applications/learning.py`, `src/api/main.py` (`jobs`, `/api/learning`) | `learning_settings`, `learning_versions`, an advisory lock of the owner | `current` with `train`, `explain`, `configure` | archive, refreshes that edit postings |
| **Login** `src/auth/local.py`, `passwords.py`, `scripts/accounts.py` | `users`, `sessions`, `login_limits` | `login`, `logout`, `current_user`, account changes | all requests |
| **Lifecycle** `scripts/lifecycle.py` | lock file, `status.json`, log, containers | `start`, `stop`, `check` | Docker, systemd |
| **Board clients** `ai_core/agents/researcher.py`, `ai_core/tools/*.py` | pages, rows and attempts of one collection | `collect`, `collect_dice`, `collect_public`, `fetch_json` | boards, result transaction |
| **Classification** `src/pipelines/classification.py`, `src/guardrails/content.py` | none | `title_match`, `geography`, `classify`, `findings` | result transaction |
| **Parsers, telemetry, frontend, deployment** | none that the above rely on | text, dashboards | |

How they interact: a pass of the scheduler or a request of an operator inserts a
`queued` run. A worker claims it, holds it by a lease that a thread renews,
fetches from the board without any transaction, and stores the result in one
transaction that first checks that the lease is still its own. The owner's
requests change decisions about the stored postings under two advisory locks,
one per posting and one per *identity* (the URL without tracking). A report
lists applications that are not archived; when Gmail has accepted it, its
postings count as emailed, and from then on a decision about one of them is
final. Archived decisions are what the ranking is trained from, whenever jobs or
settings are read. Every request of the owner presents a session, which a sign-in
made and a console command may end.

### What is hard

* **Concurrency in the database.** Several workers and schedulers; transactions
  that wait for rows, whose `now()` is the time they began; statements whose
  `WHERE` was true before they waited; session locks that end with a session
  and not with the work they protect.
* **Time.** Leases, deadlines, cooldowns of feeds, a daily boundary, windows of
  failed sign-ins, resets that compare the beginnings of transactions.
* **Crashes.** A worker can die anywhere; a sender can die between the
  acceptance of a message and the line that says so; a line can be torn; the
  lifecycle script can be killed while Docker goes on with its command.
* **Things that move.** A board changes between two pages, containers change
  between two looks, postings are edited between decision and training.
* **Stale knowledge.** A candidate scan, a posting read one transaction before
  it is decided about, a resume read before it is deleted, a report exported
  before a decision.

### What makes each part correct

* Queue: only the owner of the last attempt settles a run; retries are bounded;
  every run settles; one collection per provider; feeds are not fetched too
  often; stored postings only move forward.
* Scheduler: one scheduled run of a source a day; no transaction waits for ever;
  a refresh marks what it did not see.
* Email: at most one delivery of a report; emailed means accepted; history
  catches up when the command is repeated.
* Decisions: an archived decision is final; nothing dismissed is prepared; an
  attempt to apply is never forgotten; deletion deletes.
* Learning: an answer is made from the settings in force; a reset separates what
  is forgotten from what is learned; rules move a job only as far, and for the
  reasons, they may.
* Login: sessions belong to active accounts with their present password; what a
  reset or a logout ends does not come back; throttles count all attempts.
* Board clients and classification: a run leaves open what its requests reach of
  a board, never what must be excluded; what a moving board makes it miss is
  bounded; it ends however busy the source is.
* Lifecycle: one operation at a time; "verified" only if the containers have been
  as desired after the command; status and log agree; every run ends.

The hazards, each at its line and with the properties that would catch it, are
in `PROJECT.json` under `hazards`.

## 2. The modules

| Module | Models | Used by |
|---|---|---|
| `RunLedger` | abstract promise of the queue: bounded attempts, one settlement, postings of ever later runs | refined by `CollectionQueue` |
| `CollectionQueue` | leases, claims, heartbeats, results, feeds, provider gates | `MCCollectionQueue`, `CollectionQueueProofs` |
| `CollectionQueueProofs` | theorems about it | |
| `SourceRefresh` | the transactions on sources, runs and jobs, open for a while | `MCSourceRefresh`, `SourceRefreshProofs` |
| `SourceRefreshProofs` | theorems about it | |
| `EmailReport` | delivery journal, file lock, Gmail, history | `MCEmailReport`, `EmailReportProofs` |
| `EmailReportProofs` | theorems about it | |
| `JobDecisions` | decisions, archive, checks, deletions, reports in flight | `MCJobDecisions`, `JobDecisionsProofs` |
| `JobDecisionsProofs` | theorems about it | |
| `Accounts` | sign-in, throttles, sessions, the console's commands | `MCAccounts`, `AccountsProofs` |
| `AccountsProofs` | theorems about it | |
| `BoardCollection` | requests to a board that moves, classification, what a run stores and closes | `MCBoardCollection`, `BoardCollectionProofs` |
| `BoardCollectionProofs` | theorems about it | |
| `FeedbackLearning` | versions, pins, pauses and resets of the learned ranking | `MCFeedbackLearning`, `FeedbackLearningProofs` |
| `FeedbackLearningProofs` | theorems about it | |
| `StackLifecycle` | the script, Docker and the containers, status file and events | `MCStackLifecycle`, `StackLifecycleProofs` |
| `StackLifecycleProofs` | theorems about it | |
| `MC...` | values of the constants for TLC | runs |

Definitions whose comment begins with "Mutant" are not part of a model. Each is
the form a definition would have after a plausible mistake (a lock not taken, a
guard forgotten); put in the place of the definition, it makes the property it
is listed with in `PROJECT.json` fail. They show that the property depends on
that line of the code.

### CollectionQueue

*State.* The columns of `runs` and `sources` that the code reads are functions
from run and source. Timestamps are ages (`createdAge`, `startedAge`) or what is
left of them (`lease`): `Tick` moves all of them, so no clock needs a bound. The
tokens are numbered by the attempt they are drawn for; a `uuid4` is fresh, and
so is the number. `gate` is the session advisory lock per provider. `pc`,
`todo`, `doomed`, `mine`, `mytoken` and `lost` are a worker's local variables and
what its open transaction has written.

`created_at` and the `now()` of a cooldown are the beginning of the transaction that
enqueues, and a pass enqueues all its sources in one transaction, waiting for rows on
the way. `Enqueue` is the commit, when the run appears, and `waited` are the ticks since
that beginning, `MaxWait` at most. From the look at a source to the commit the
transaction has the source's row locked, so nothing it has looked at changes. A run may
therefore be older than the fetch of its predecessor, and `ORDER BY created_at` need
not be the order in which runs appear: `Oldest` and `IsHead` go by the age, and allow
each choice among runs of one age.

*Actions.* A claim is several steps, for it holds a transaction and a session
lock open: `Scan` (exhausted runs are failed, candidates are read), then for the
oldest candidate `SkipBusy` or `AcquireGate`, then `SkipGone`, `SkipDisabled` or
`Take` after the locked re-check; `FindNothing` ends an empty scan. `FetchOk`,
`FetchError`, `BeginResult` (with `require_lease`), `ResultError`, `Commit`,
`MarkFailed`, `FailRefused` and `Leave` are `run_one`. `Renew` and `StopBeating`
are the heartbeat thread. `Crash` kills a process, `Reap` is the server that
notices: until then the sessions, their row locks and gates, remain. `DropGate`
ends the gate session of a worker that lives on.

*Approximations.* An error inside `claim` is a crash that is reaped. A
statement that waited for a row is a step after the wait; PostgreSQL's rule that
an unchanged row is not looked at again makes no difference for the statements
here, since a row they waited for has changed or is still claimable.

### SourceRefresh

`CollectionQueue` takes an `enqueue` and a result as one step. Here they are
transactions that stay open: `Schedule` and `Refresh` begin one and fix its
`now()` (`began`). A pass has read the boundary before, by the clock of its own
process (`ReadBoundary`), so that time, and even midnight, may pass between
(`FindNothing` ends a pass without work). `LockSource`, `SkipSource`, `InsertRun` and `Close` follow
`enqueue` source by source, `CommitRequest` and `Abort` end it. A pass does all
its sources in one transaction under the scheduler's advisory lock. A collector
goes `Collect`, `BeginResult`, `UpdateRun` (it has the run's row), then needs the
source's row for `CommitResult`; adding a posting holds that row shared through
the foreign key. `BeginFail` and `CommitFail` are `fail`. `BreakResult` and
`BreakRequest` are the server's deadlock detector. Leases are left out: a
collector may be lost at any time and its run given up (`LoseCollector`,
`GiveUp`), which is more than the queue allows. `Midnight` and `Opening` are the
ticks at which local days begin and reach the schedule hour. They may be any: a
time zone whose days have 23 or 25 hours is one of their values.

### EmailReport

A report is its digest; the same rows in the same window are the same report.
The journal is kept per report, because no reader looks at lines of another one;
a line that does not parse (`torn`) stops every reader. A sender goes `Start`,
`Prepare` (history prepared), `Lock`, `Connect` or `Refuse`, `Intend` (the intent
is on disk), `Accept` or `Reject` by Gmail, with an answer that may be lost,
`Settle` (the outcome is on disk), `Sync` (history emailed); after an exception
`Reconcile` asks the journal whether this very report was accepted. `Crash`,
`CrashSending`, `Tear` and `TrackError` are failures, at every point where the
code can meet them.

Two consequences of the code that the model has, and that a reader may not
expect: `smtplib` raises when the only recipient is refused, so `rejected` is
hardly ever written, and when it is, the `sending` line before it still blocks
the report; and a command repeated after a row has changed sends a new report
rather than repairing the history of the old one.

### JobDecisions

One owner, for all rows and both locks carry the owner's id. A request is `Open`
(the handlers of `main.py` read the posting in a transaction of its own, so
`seen` may be stale), `LockJob`, `RequireActive` (identity lock, then a look at
the archive), then one deciding step: everything from there on touches rows that
only holders of these locks write, or reads `history` once. `Check` and
`StoreCheck` are two steps, since documents and applications also change under a
check: by `Upload`, `Delete` and `Attempt`, the submission bridge, which is
outside the repository and known from the statuses that `check` reads. `Export`
and `RecordReport` are a report in flight: which postings it lists is fixed long
before they count as emailed. `Move` is the upsert of a refresh that finds a
posting under another URL; `moved` remembers which did, for the properties. One
resume stands for the two variants and the
profile; "closed" for the stages "interviewing" and "offer".

### Accounts

`limit`, `account` and `session` are the tables; `lock` and `rowLock` the rows of
`login_limits` and `users` that open transactions hold. A sign-in is `SignIn`,
`CountGlobal`, `CountName`, `ReadRow`, and `Grant` or `Refuse`, or `Throttle` when a
bucket is full; what it has counted is written by its last step (`CommitCounts`), for
the transaction commits before an error is raised. A console command is `Command`,
`ReadRow`, `Administer`; `Create` is one insert. A request arrives with a token
(`Arrive`), is checked (`Admit`, `Reject`) in a transaction of its own, and then is
`Served` or is a `Logout`. `Fail` loses a connection at any step. A password is a
model value, so `verify` compares; a hash may be weak, which `Grant` renews. `live` in
a request and `verdicts` of a bucket are history. A request that was admitted is
served although its session ends meanwhile, as in the code.

### BoardCollection

`board` is a list of postings, the newest first, that anybody changes at any time
(`Post`, `Withdraw`, `Edit`); a run remembers what it could have seen (`shown`,
`steady`). A request looks through the places of `Listing`, and a page is the places of a
range of `Rank`s among them; `rows` is the set of postings collected, one of each key,
because `run_one` passes over the rows of a key it has seen. The providers differ in what `Batch`, `More`, `Kept` and `Collected` say: one answer
(Ashby, Greenhouse, Remotive; Jobicy with a limit), pages until a short one (Lever), two
pages per search word (Dice), a request for each posting that may fit (Greenhouse's
`Detail`). The number of Dice's pages is `metadata.get('totalPages') or 1` of its first
answer: in `Page` an answer that does not say it (`told` is false) ends its word, and
`untold` remembers the word. `withdrawn` counts what was taken off the board during the
run. `Retry` is a busy source, `GiveUp` and `Fail` end the run with nothing
stored. `Verdict` is `classify` over what the regular expressions tell apart: the
levels that lead are one, and the patterns are fields of `Title`. A flag of a posting is
what `findings` reports, which searches the row as JSON: a secret right after a newline
follows the letter of the escape `\n` there, so that `\b` does not match and it is not
reported. `Store` is the result
transaction: excluded rows are skipped, and rows of the source that were not stored
are closed. Runs of one source follow each other here;
`SourceRefresh` has those whose transactions overlap.

Consequences of the code that the model has: an unsafe link, or a Greenhouse posting
withdrawn between list and detail, fails the whole run; a quarantined posting is
reviewed even if its title is excluded; beyond 200 postings of Jobicy and two pages
per word of Dice everything is closed; so is everything beyond the first page of a word
of Dice whose answer does not tell the number of pages, although the run completes
(`StillBoardExact` counts one page of such a word, in `Span` and `Reach`; nothing in the
code keeps the rest open); and Lever's pages by offset can miss a posting that stayed
listed, one for each that is withdrawn meanwhile (`MissedAreWithdrawals`).

### FeedbackLearning

`archive` and `features` are the decisions and the postings they are joined with. A
request is `Ask`ed (its transaction begins, which fixes its `now()`), then `Lock`s and
reads the settings, and then `Learn`s and `Insert`s or `Answer`s, or is a `Configure`.
Decisions take time, too (`Decide`, `CommitDecision`), and `archived_at` is the
beginning of their transaction. A version is its fingerprint, the evidence it was
trained from and `since`; `Strength` is the weight of a rule of `train`, `Points` spells
the rules that speak about a posting out, one element for each point of weight, and
`Adjustment` is `explain`, the number of points for less that of points against, capped. The order and the pages of
the jobs are one sort of one answer and are left out. A decision is one of the marks that `train`
tells apart; "spam" stands for reports of fake postings, too, and "old_posting" for
unavailable ones. `snap`, `forgotten` and `resetDone` are history. Two resets that overlap
may put `since` back to the earlier of their beginnings, since `now()` is fixed before
the lock is waited for; what either has forgotten when it was asked stays forgotten.

### StackLifecycle

A run is `Begin` (the lock file), `Precheck`, `Command` (Docker starts to work),
`Inspect` when the command has ended, `Read` for each container, `Accept` or `Reject`, `Probe`,
`Save` and `Announce`; `Fail` and `TimeOut` lead to the handler (`GiveUp`, `Record`,
`Announce`), and `Die` ends the process at any step. `work` is what Docker is at; a
command that timed out stays there. The containers start and stop by it and change by
themselves. `met` is history: the containers that were as desired since the second
inspection began. A run that finds the lock taken exits with 2 and is no step.

Consequences that the model has: Docker may still work on a command that timed out
while a later run looks; containers are read one after another, so that
"verified" is not one moment; when the handler's own write of the status fails, the
file keeps an older status. That `docker compose up --wait` has succeeded is an exit code:
each service was waited for on its own, so `Commanded` says nothing of the containers at
that moment, and what "verified" rests on is the inspection after it. Outside the model: a `systemctl stop` that finds the lock
taken by `stack.sh status` exits with 2 without stopping anything; and a loss of power,
for `save_status` replaces the file without `fsync`: `Die` ends a process, not the host.

## 3. What the runs show

| Run | Instance | Shows |
|---|---|---|
| `queue_fencing` | 2 workers, 1 source, 2 runs, 2 attempts | `TypeOK`, `WriterOwnsRun`, `LeaseBounded`, and that the queue implements `RunLedger` (`ImplementsLedger`) |
| `queue_cooldown` | 2 workers, a feed with a cooldown, 3 runs, switched off and on | `FeedTriedTwice`, `OneCollectionPerProvider` |
| `queue_settles` | 2 workers, 1 run, 2 attempts, gate loss, source switched | `RunsSettle`: every run is completed or failed |
| `refresh_daily` | 2 schedulers, 1 operator, 3 runs, 5 ticks with two schedule hours | `TypeOK`, `OneScheduledRunPerDay`, `OpenWasSeen` |
| `refresh_standstill` | 1 scheduler, 1 operator, 2 sources | `NoStandstill`: every transaction ends |
| `email_delivery` | timer and owner, 2 reports, torn lines | `TypeOK`, `DeliveredOnce`, `HistoryHonest`, `HistoryCatchesUp` |
| `decisions_archive` | 2 requests at a time, 3 in all, 2 postings of up to 2 identities, one of which may move | `TypeOK`, `ArchiveAgrees`, `ArchivedFrozen`, `NoneDismissedPrepared`, `AttemptKept` |
| `decisions_deletion` | 1 request | *violated:* `DeletionComplete` |
| `accounts_sessions` | 2 requests at a time, 2 names, 2 passwords, 2 sessions, 1 attempt per name and 2 in all | `TypeOK`, `SessionsCurrent`, `ServedWereLive`, `Throttled`, `PasswordStands`, `SessionKept` |
| `board_collection` | each provider; 5 postings of 3 keys, 1 per page, 2 words, 1 change during a run | `TypeOK`, `StoredAdmissible`, `StillBoardExact`, `CatalogFollowsBoard`, `MissedAreWithdrawals`, `CollectionEnds` |
| `learning_feedback` | 2 requests at a time, 4 transactions, 2 postings of one source, 3 marks, rules of 2 decisions | `TypeOK`, `AnswerInForce`, `ResetSeparates`, `InfluenceBounded` |
| `lifecycle_runs` | 2 processes, 2 runs, a service of 2 containers, one probed, and one left over | `TypeOK`, `VerifiedWasMet`, `StatusHonest`, `RunsEnd` |

### Why the bounds are enough

Two workers are the smallest number with a stale and a present owner; a third
could only repeat the part of one of them, and the proofs cover any number. Two
attempts let a run be retried and exhausted. Two runs of a source let a late
result meet a later run, and three runs are what `FeedTriedTwice` is about. A
lease of two ticks, a deadline of three and ages up to five separate "valid",
"renewed", "expired", "past the deadline" and "past the cooldown" (with a lease of
one tick a renewal would have nothing to extend); larger numbers only add
waiting. A transaction that enqueues waits one tick at most (`MaxWait`), of a cooldown of
four: enough to break `FeedTriedTwice` if it did not allow for it; its proof is for any
`MaxWait`. In `SourceRefresh` the two schedule hours are three ticks apart and `schedule_hours`
are two: a run at the first hour is followed when the second comes, and one whose
pass was overtaken by midnight when the interval is over, so that either condition
is the one that decides; without either, `OneScheduledRunPerDay` fails. Two reports
are needed for the lock to matter across reports, one mail more than allowed for
`DeliveredOnce`. In `JobDecisions` an emailed posting takes one request, and two more meet at
it at the same time, of which one archives it; a second posting shares its
identity or moves there. A bound on an action (`MaxRuns`, `MaxWait`,
`MaxTime`, `MaxRequests`, `MaxUploads`, `MaxChanges`, `MaxClock`) is named in the
module and stands in the guard; where such a bound may stop the system, the
configuration says `CHECK_DEADLOCK FALSE` (`SourceRefresh`, at the end of its clock;
`StackLifecycle`, after its last run). `Token` in `Accounts` bounds the sign-ins that
succeed.

In `Accounts` two requests are a sign-in and what races it, one tick lets sessions
and windows run out, and limits of one and two make each throttle the one that denies;
the proofs cover the rest. In `BoardCollection` a page holds one posting and Jobicy
answers with two, so three postings reach past every limit (`PageLimit` of Lever
included); the five postings contain each outcome of `Verdict`, an edit that makes
a posting inadmissible, a hidden one and one that two words find; one change during a
run is enough to move a posting across a page border. In `FeedbackLearning` two
decisions make a rule, so that there are states with and without one; the cap of an
adjustment is below the sum of two rules; one posting changes the features its
decision speaks about; four transactions are a decision, a reset, a decision and a
read, in any overlap. In `StackLifecycle` two runs let one overlap, record over or
inherit the stray command of the other.

### Fairness

* `CollectionQueue!LiveSpec`: time passes; the server ends the sessions of dead
  processes; a live worker goes on (its main loop polls for ever, a fetch ends by
  its timeout or the deadline of the run kills the process, waiting rows are
  granted). Renewals, operators and producers owe nothing. A worker may crash
  any number of times but not for ever: the container is restarted, and a
  worker that always crashes collects nothing.
* `SourceRefresh!LiveSpec`: a transaction that is not blocked goes on; one that
  waits is woken in its turn, hence strong fairness; the deadlock detector runs.
  Aborts and losses owe nothing.
* `BoardCollection!Spec`: a request is answered, found busy, given up or fails, one
  or the other (its timeout of 25 seconds); which, is not assumed. The
  `CollectionEnds` that follows is for any board and any number of busy answers.
* `StackLifecycle!LiveSpec`: a command that does not end times out, the handler and
  the last event go on. Docker and the containers owe nothing.
* `Accounts` and `FeedbackLearning` have safety properties only.
* `EmailReport!LiveSpec`: the command is repeated for every report, goes on while
  it runs and gets the lock in turn. It may fail, but not for ever.

Each liveness property has a mutant that breaks it under this fairness, so it
does not hold for want of behaviours.

## 4. What is proved

All theorems hold for every value of the constants that the modules' assumptions
allow. The assumptions are those of the code: `Lease < MaxRun`
(`settings.validate_worker_timing`), positive limits, cooldowns within the
range in which ages are counted.

**CollectionQueueProofs.** `Invariance` is `Spec => []IInv`. The properties are
not inductive by themselves, and `IInv` adds what they rest on:

* `RowsSound`: ids are created in order, only a running row has a lease, and its
  token is the one of its last attempt;
* `WorkersSound`, `AttemptsOwned`: what a process holds exists, and no two
  processes hold the same attempt. A token is drawn under the row lock for an
  attempt number that nobody had before;
* `LocksExclusive`, `WriterHolds`: a row is locked by one transaction, and the
  row of an open result transaction still says what `require_lease` read;
* `GateHeld`: who is past the gate holds it, if gate sessions last;
* `OneActivePerSource`, `CatalogBehind`, `FeedHistory`: of the runs of a source
  only the newest is active, what is stored is older than any run to come, and a
  run was created a cooldown after its predecessor and at most `MaxWait` before the
  last attempt of it started.

From it: `TypeCorrect` (attempts are bounded), `Fencing` (`WriterOwnsRun`),
`ProviderExclusion` (with `GateMayDrop = FALSE`, which it
needs, see section 5), `LeaseBound`, `FeedSpacing` (`FeedTriedTwice`: by `FeedHistory` what was
tried before the newest two runs was tried a cooldown less `MaxWait` ago, and a retry
follows its own earlier attempt by a cooldown), `CatalogForward`, and `Refinement`: with the tables read
as they are, every step of the queue is a step of `RunLedger` or leaves it alone.

**SourceRefreshProofs.** `Invariance`, `TypesCorrect`, `ScheduledOnceADay`
(`OneScheduledRunPerDay`) and `OpenSeenSince` (`OpenWasSeen`). The strengthening:
`RunsSound` (an uncommitted run belongs to an open transaction that has its source
locked, which is why the index is never met by two inserts), `ProducersSound` (who
holds which lock; the boundary of a pass is one of the schedule hours and is past),
`PassSound` (what a pass has read of scheduled runs stays true to its last insert,
for it alone makes them) and `ResultsSound` (a result that is being written began
after every request of its source: no run of it is requested while this one is
active). Nothing relates `Interval` to the length of a day, and nothing the days to each other.

Two more theorems are the part of `NoStandstill` that is not about fairness.
`OrderOfLocks` (`LocksOrdered`): a transaction that enqueues holds only sources before
the one it is at, in the order of their ids. `NoneAwaitAll` (`SomeoneGoesOn`): whenever
transactions are open, one of them can take its next step at once (`CanGoOn`,
`CanSettle`: the guards of `ProducerStep` and `Settle`) or two are a deadlock that the
server's detector sees (`Deadlocked`). The argument takes, of the sources that are
locked, the last one. If its holder is inserting a run there, it awaits at most a result
that has the run's row and awaits the same source, which is a deadlock of two. If it
is at a later source, nobody has that one locked, so that it awaits at most a result
that has it shared, and this result can commit.

**EmailReportProofs.** `Invariance`, `TypeCorrect`, `AtMostOnce` (`DeliveredOnce`) and
`HonestHistory`. The strengthening is `JournalSound` (a delivered report has a
blocking line; an accepted line has a delivery) and `SendersSound` (what a sender
concluded under the file lock stays true until it acts on it).

**JobDecisionsProofs.** `Invariance`, `TypeCorrect`, `ArchiveTrue` (`ArchiveAgrees`),
`ArchiveFinal` (`ArchivedFrozen`), `DismissalRespected` (`NoneDismissedPrepared`) and
`AttemptRemembered` (`AttemptKept`). The lock invariant (a request that decides holds
the lock of its posting and that of the identity it has read) is part of `TypeOK`,
because every property fails without it. The strengthening is `Unarchived` (nobody
decides about an archived identity), `Located` (what was read or written about a
posting that has not moved is where the posting is: a request reads the identity
one transaction before it locks it) and `CheckSound` (what a check has made sure of
stays true until it writes, for its locks keep dismissals away and its row lock
the bridge). One lemma, `Writers`, names who changes a row at all.

**AccountsProofs.** `TypesCorrect`, `SessionsStayCurrent` (`SessionsCurrent`), `ServedLive`
(`ServedWereLive`), `VerdictsThrottled` (`Throttled`), and of steps `OnlyResetsChange`
(`PasswordStands`) and `SessionsSpared` (`SessionKept`). The strengthening: `Places` (which
requests are where), `Counting` (a sign-in that got past a bucket holds its row, and
what it counted is within the limit; this is why the number of verdicts follows the
attempts), `Reading` (a row of `users` that was read for update is still so; why
a sign-in and a reset cannot cross), `Visits` (a session that was not good when a
request arrived is not good later, for tokens are not used again).

**FeedbackLearningProofs.** `TypesCorrect`, `AnswersInForce` (`AnswerInForce`),
`ResetsSeparate` (`ResetSeparates`) and `InfluencesBounded` (`InfluenceBounded`). The strengthening: `LockHeld` (one holder, which read the
settings that are in force), `Moments` (decisions, resets and requests are in the
order of the clock; what a reset saw archived was decided before it began) and
`Learned` (an unpinned answer has what is archived after `since`, and all of it
that was archived when it was asked for), and `Counted` (the evidence of a version is
finite). The last is what the bounds on an adjustment need: sums of weights are
cardinalities of sets of points, so that facts about finite sets (a subset is not
larger, a set with an element is not empty) take the place of an induction over sums.

**BoardCollectionProofs.** `Typed` (`TypeOK`), `Admissible` (`StoredAdmissible`), and of
steps `StillExact` (`StillBoardExact`), `CatalogFollows` (`CatalogFollowsBoard`) and
`FewMissed` (`MissedAreWithdrawals`), for boards, pages, limits and words of any size. The strengthening: `OneOfEach` (a key has
one posting on the board and one row, so that an upsert is no choice), `Asked` (where
the requests of each provider can be), `Collecting` (what was collected was listed
during the run, and what stayed had its key to itself), `WholeList` (an answer with the whole list has all that stayed) and
`StillRows`: on a board that has not changed, the rows are the postings of the places
before the page and word in hand (`Before`). Lemmas say which places a page adds to
those, and that a page that is not full is the last one.

For a board that moves, `FewPassedOver` is the part about Lever: the postings that
stayed, were not collected and are before the border of the pages read (`PassedOver`,
`Behind`) are no more than were withdrawn. A withdrawal moves one posting at most across
that border, a new or edited posting none towards it, and a page collects all between
two borders; when a short page ends the list, nothing is behind the border but what was
passed over.

`RequestsEnd` is the part of `CollectionEnds` that is not about fairness: `Left` counts
the pages, words, attempts and details that a run may still ask for; it is zero only
when the run is over (`LeftSound`), and each step of a run lowers it, whatever the board
does (`RequestsRunOut`).

**StackLifecycleProofs.** `TypesCorrect`, `VerifiedMet` (`VerifiedWasMet`), `HonestStatus`
(`StatusHonest`). The strengthening: `WorkSound` (commands at work are of this run or
of earlier ones), `StatusSound` (the status is of an earlier run until this one
records its own) and `ReadSound` (what has been read as desired was so; with it the
counts of `state_errors` become facts about `met`, by lemma `Accepted`).

**Only model-checked.** Liveness (`RunsSettle`, `NoStandstill`, `HistoryCatchesUp`,
`CollectionEnds`, `RunsEnd`) is out of the reach of the prover, as fairness and ENABLED
are. Of `NoStandstill` and `CollectionEnds` the safety halves above are proved. That the
guards named there are those of the actions (`CanGoOn(p) => ENABLED ProducerStep(p)`,
`CanSettle(r) <=> ENABLED Settle(r)`) was checked with TLC on the instances of the
refresh runs. `LocksOrdered`, `SomeoneGoesOn`, `LeftSound` and `RequestsRunOut` were checked
on the instances of their modules before they were proved; no run repeats it. Every safety
property of a run that passes is stated by a theorem.

**Violated.** `DeletionComplete` (section 5) is false, so no theorem states it.

## 5. Where documents and code differ

*Deletion removes ... checks* (`docs/playbooks/resume-intake.md:19`): a check that has
read the resume is stored after the deletion. Run `decisions_deletion`.

Seen with TLC while modelling and not kept as runs:

* *One collection per provider at once* (`docs/playbooks/worker-leases.md:11`): the
  lock belongs to a session that nobody watches while the worker collects. With
  `GateMayDrop = TRUE`, `OneCollectionPerProvider` fails.
* *Checked at most once every six hours* (`frontend/app/JobBoards.tsx:6`): the
  cooldown counts from the creation of the earlier run, so two fetches can follow
  each other at once when the earlier run had to wait for a worker. Even three can
  start within one cooldown, when a pass waits for a row of another source: its run
  gets the `created_at` of the beginning of the pass, which may be before the fetch
  of the run that completed meanwhile. With `MaxWait = 1`, `FeedTriedTwice` for the
  whole cooldown fails; for a cooldown less that wait it holds.
* *A successful refresh marks absent jobs not_observed*
  (`docs/playbooks/collection.md:7`): not those that another result listed which
  began after the refresh was requested. `OpenWasSeen` says that these are all.
* *Permanently locks it* (`docs/playbooks/job-dismissal.md:16`): the lock is found by
  the present URL, which a refresh may change. `ArchivedFrozen` and `ArchiveAgrees`
  except postings that have moved.
* A pass may enqueue from a scan that an operator's run has overtaken, so that two
  runs are less than 24 hours apart; a decision between Gmail's acceptance and the
  writing of history is not archived; a report lists a posting archived since its
  export; deleting a resume also deletes applications that were submitted or whose
  outcome is unknown.

## 6. What is not modelled

Resume parsing and assessment, and the regular expressions (text without state); the
wording of reports; encryption and row-level security; filters of the listing and
monitoring endpoints (they only read); the frontend; deployment, migration and
evaluation scripts; the systemd unit around the lifecycle script; the two slots of the resume parser, which are taken and given back in one
`try ... finally`.

## 7. Plan

Done, in the order of what matters most to the system: the queue with its
abstract specification and proofs, the transactions of refreshes, email delivery,
decisions, accounts, boards, learning, lifecycle. What would add most next:

1. A composition of `JobDecisions` and `EmailReport` that settles when a job has been
   emailed.
2. Liveness of the schedule: a source that is due is scheduled every day as long as
   some scheduler runs. It fails by drift: each run is at least 24 hours after the one
   before, plus what the polling of 30 seconds adds, until a day is skipped; the
   property needs days of thousands of polls, or an argument about the drift.
3. A composition of `CollectionQueue` and `SourceRefresh` on the postings, so that
   leases and the times of transactions meet.
4. More abstract specifications in the manner of `RunLedger`, with proofs that they are
   implemented: a decision of the owner as one step (by `JobDecisions`), a report that
   is sent at most once and then counted (by `EmailReport`).
