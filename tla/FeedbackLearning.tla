--------------------------- MODULE FeedbackLearning ---------------------------
(***************************************************************************)
(* The ranking that is learned from an owner's archived decisions          *)
(* (learning.py): versions that are trained when jobs or settings are      *)
(* read, pauses, resets and restored versions, all under one advisory lock *)
(* of the owner, while decisions commit and postings are edited.           *)
(*                                                                         *)
(* now() is the time a transaction began at, also where it then waits for  *)
(* the lock.  Each transaction begins at a moment of its own.              *)
(***************************************************************************)
EXTENDS Integers, FiniteSets

CONSTANTS
  Identity,      \* postings, one job each
  Variants,      \* per posting: what its features may be
  Request,       \* requests at one time
  Taken,         \* bound: the decisions that are taken
  MinEvidence,   \* decisions that a rule needs, 3 in the code
  MaxWeight,     \* of a rule, 6 in the code
  MaxAdjustment, \* of a job, 15 in the code
  MaxClock,      \* bound: transactions that begin
  None           \* no row, no lock, no version

\* A decision about a posting; "not_relevant" gives no reason, "other" stands for
\* the statuses that nothing is learned from.
Mark == {"applied", "not_relevant", "wrong_function", "wrong_seniority",
         "wrong_workplace", "spam", "old_posting", "other"}

Dimension == {"function", "level", "workplace", "source"}

Feature == UNION UNION {Variants[i] : i \in Identity}

\* A row of job_archives, and the same joined with its job.
Row == [mark : Mark, at : 1..MaxClock]
Evidence == [identity : Identity, mark : Mark, at : 1..MaxClock,
             features : SUBSET Feature]

\* The fingerprint of a version: what it was trained from.
Version == [evidence : SUBSET Evidence, since : 0..MaxClock]

Settings == [enabled : BOOLEAN, since : 0..MaxClock, pinned : Version \union {None}]

Call == [kind : {"read", "pause", "resume", "reset"}, to : {None}] \union
        [kind : {"restore"}, to : Version]

ASSUME LearningAssumption ==
  /\ IsFiniteSet(Identity)
  /\ \A i \in Identity : \A f \in UNION Variants[i] : f.dim \in Dimension
  /\ \A i \in Identity : \A fs \in Variants[i] : IsFiniteSet(fs)
  /\ {MinEvidence, MaxWeight, MaxAdjustment} \subseteq Nat \ {0}
  /\ MaxClock \in Nat /\ Taken \subseteq Mark
  /\ None \notin Request \union Version \union Row \union Call \union Settings

VARIABLES
  clock,     \* the moment the last transaction began at
  features,  \* per posting: the features of its job
  deciding,  \* per posting: a decision that has not committed
  archive,   \* job_archives
  settings,  \* learning_settings
  versions,  \* learning_versions
  lock,      \* the request with the advisory lock
  pc,        \* where a request is
  call,      \* what it asks for
  begun,     \* the moment its transaction began at
  cfg,       \* the settings it has read
  draft,     \* the version it answers with
  snap,      \* history: postings archived when it began
  forgotten, \* history: postings archived when the last reset began
  resetDone  \* history: the moment the last reset committed

decisions == <<features, deciding, archive>>
requests == <<lock, pc, call, begun, cfg, draft, snap>>
resets == <<forgotten, resetDone>>
vars == <<clock, decisions, settings, versions, requests, resets>>

------------------------------------------------------------------------------
\* Mutant of Speaks: a decision without a reason is taken for each of them.
SpeaksGenerally(mark, dim) ==
  CASE mark = "applied" -> IF dim = "source" THEN 0 ELSE 1
    [] mark \in {"wrong_function", "wrong_seniority", "wrong_workplace",
                 "not_relevant"} -> IF dim = "source" THEN 0 ELSE -1
    [] mark \in {"spam", "old_posting"} -> IF dim = "source" THEN -1 ELSE 0
    [] OTHER -> 0

\* Whether a decision speaks for or against the features of a dimension.
Speaks(mark, dim) ==
  CASE mark = "applied" /\ dim # "source" -> 1
    [] mark = "wrong_function" /\ dim = "function" -> -1
    [] mark = "wrong_seniority" /\ dim = "level" -> -1
    [] mark = "wrong_workplace" /\ dim = "workplace" -> -1
    [] mark \in {"spam", "old_posting"} /\ dim = "source" -> -1
    [] OTHER -> 0

\* What decides together: applications, reasons, reports of one kind.
Kind == {{"applied"}, {"spam"}, {"old_posting"},
         {"not_relevant", "wrong_function", "wrong_seniority", "wrong_workplace"}}

\* train: the weight of one rule, a kind with a feature, without its sign; 0 when
\* there is no such rule.
Strength(rows, rule) ==
  LET speaking == {e \in rows : e.mark \in rule[1] /\ rule[2] \in e.features
                                  /\ Speaks(e.mark, rule[2].dim) # 0}
      count == Cardinality({e.identity : e \in speaking})
  IN  IF count < MinEvidence THEN 0
      ELSE IF count < MaxWeight THEN count ELSE MaxWeight

\* The rules of some kinds that apply to a job, each as often as it weighs.
Points(version, kinds, i) ==
  {p \in (kinds \X features[i]) \X (1..MaxWeight) : p[2] <= Strength(version.evidence, p[1])}

\* explain: the sum of the rules of a version that apply to a job, capped; only
\* applications speak for one.
Adjustment(version, enabled, i) ==
  LET sum == Cardinality(Points(version, {{"applied"}}, i))
               - Cardinality(Points(version, Kind \ {{"applied"}}, i))
  IN  IF ~enabled THEN 0
      ELSE IF sum > MaxAdjustment THEN MaxAdjustment
      ELSE IF sum < -MaxAdjustment THEN -MaxAdjustment ELSE sum

------------------------------------------------------------------------------
Init ==
  /\ clock = 0
  /\ features \in {f \in [Identity -> SUBSET Feature] :
                     \A i \in Identity : f[i] \in Variants[i]}
  /\ deciding = [i \in Identity |-> None]
  /\ archive = [i \in Identity |-> None]
  /\ settings = [enabled |-> TRUE, since |-> 0, pinned |-> None]
  /\ versions = {}
  /\ lock = None
  /\ pc = [r \in Request |-> "idle"]
  /\ call = [r \in Request |-> None]
  /\ begun = [r \in Request |-> 0]
  /\ cfg = [r \in Request |-> None]
  /\ draft = [r \in Request |-> None]
  /\ snap = [r \in Request |-> {}]
  /\ forgotten = {} /\ resetDone = 0

Archived == {i \in Identity : archive[i] # None}

\* A moment passes for each transaction that begins.
Moment == clock < MaxClock /\ clock' = clock + 1

Decide(i, mark) ==
  /\ Moment
  /\ archive[i] = None /\ deciding[i] = None
  /\ deciding' = [deciding EXCEPT ![i] = [mark |-> mark, at |-> clock']]
  /\ UNCHANGED <<features, archive, settings, versions, requests, resets>>

CommitDecision(i) ==
  /\ deciding[i] # None
  /\ archive' = [archive EXCEPT ![i] = deciding[i]]
  /\ deciding' = [deciding EXCEPT ![i] = None]
  /\ UNCHANGED <<clock, features, settings, versions, requests, resets>>

\* A collection stores other features of the posting.
Refresh(i, f) ==
  /\ features[i] # f
  /\ features' = [features EXCEPT ![i] = f]
  /\ UNCHANGED <<clock, deciding, archive, settings, versions, requests, resets>>

Open(r, c) ==
  /\ pc[r] = "idle"
  /\ Moment
  /\ pc' = [pc EXCEPT ![r] = "waiting"]
  /\ call' = [call EXCEPT ![r] = c]
  /\ begun' = [begun EXCEPT ![r] = clock']
  /\ snap' = [snap EXCEPT ![r] = Archived]
  /\ UNCHANGED <<decisions, settings, versions, lock, cfg, draft, resets>>

\* Mutant of Lock: the settings are read without the advisory lock.
ReadUnlocked(r) ==
  /\ pc[r] = "waiting"
  /\ pc' = [pc EXCEPT ![r] = "locked"]
  /\ cfg' = [cfg EXCEPT ![r] = settings]
  /\ UNCHANGED <<clock, decisions, settings, versions, lock, call, begun, draft, snap,
                 resets>>

\* pg_advisory_xact_lock, and the settings as they are then.
Lock(r) ==
  /\ pc[r] = "waiting" /\ lock = None
  /\ lock' = r
  /\ pc' = [pc EXCEPT ![r] = "locked"]
  /\ cfg' = [cfg EXCEPT ![r] = settings]
  /\ UNCHANGED <<clock, decisions, settings, versions, call, begun, draft, snap, resets>>

\* The end of the transaction.
End(r) ==
  /\ lock' = IF lock = r THEN None ELSE lock
  /\ pc' = [pc EXCEPT ![r] = "idle"]
  /\ call' = [call EXCEPT ![r] = None]
  /\ begun' = [begun EXCEPT ![r] = 0]
  /\ cfg' = [cfg EXCEPT ![r] = None]
  /\ draft' = [draft EXCEPT ![r] = None]
  /\ snap' = [snap EXCEPT ![r] = {}]

\* Mutant of EvidenceSince: archives of before the reset are read, too.
EvidenceEver(since) ==
  {[identity |-> i, mark |-> archive[i].mark, at |-> archive[i].at,
    features |-> features[i]] : i \in Archived}

\* The archived decisions that began after the last reset.
EvidenceSince(since) ==
  {[identity |-> i, mark |-> archive[i].mark, at |-> archive[i].at,
    features |-> features[i]] : i \in {k \in Archived : archive[k].at > since}}

\* current: the pinned version, or one trained from what is archived now.
Learn(r) ==
  /\ pc[r] = "locked" /\ call[r].kind = "read"
  /\ draft' = [draft EXCEPT ![r] =
       IF cfg[r].pinned # None THEN cfg[r].pinned
       ELSE [evidence |-> EvidenceSince(cfg[r].since), since |-> cfg[r].since]]
  /\ pc' = [pc EXCEPT ![r] = IF draft'[r] \in versions THEN "answering" ELSE "inserting"]
  /\ UNCHANGED <<clock, decisions, settings, versions, lock, call, begun, cfg, snap, resets>>

\* The commit of a version that was not found.
Insert(r) ==
  /\ pc[r] = "inserting"
  /\ versions' = versions \union {draft[r]}
  /\ End(r)
  /\ UNCHANGED <<clock, decisions, settings, resets>>

Answer(r) ==
  /\ pc[r] = "answering"
  /\ End(r)
  /\ UNCHANGED <<clock, decisions, settings, versions, resets>>

\* What a change of the settings makes of them.
Configured(r) ==
  CASE call[r].kind = "restore" -> [settings EXCEPT !.pinned = call[r].to, !.enabled = TRUE]
    [] call[r].kind = "reset" -> [settings EXCEPT !.since = begun[r], !.pinned = None]
    [] call[r].kind = "resume" -> [settings EXCEPT !.enabled = TRUE, !.pinned = None]
    [] call[r].kind = "pause" -> [settings EXCEPT !.enabled = FALSE]

Configure(r) ==
  /\ pc[r] = "locked" /\ call[r].kind # "read"
  /\ settings' = Configured(r)
  /\ IF call[r].kind = "reset"
     THEN forgotten' = snap[r] /\ resetDone' = clock
     ELSE UNCHANGED resets
  /\ End(r)
  /\ UNCHANGED <<clock, decisions, versions>>

\* The transaction is lost before it commits, with what it has inserted.
Fail(r) ==
  /\ pc[r] # "idle"
  /\ End(r)
  /\ UNCHANGED <<clock, decisions, settings, versions, resets>>

\* Mutant of Ask: nobody looks whether the version to restore is there.
AskUnchecked(r) ==
  \/ \E k \in {"read", "pause", "resume", "reset"} : Open(r, [kind |-> k, to |-> None])
  \/ \E v \in versions \union {draft[q] : q \in Request} :
       v # None /\ Open(r, [kind |-> "restore", to |-> v])

Ask(r) ==
  \/ \E k \in {"read", "pause", "resume", "reset"} : Open(r, [kind |-> k, to |-> None])
  \/ \E v \in versions : Open(r, [kind |-> "restore", to |-> v])

Next ==
  \/ \E i \in Identity :
       \/ \E mark \in Taken : Decide(i, mark)
       \/ CommitDecision(i)
       \/ \E f \in Variants[i] : Refresh(i, f)
  \/ \E r \in Request :
       Ask(r) \/ Lock(r) \/ Learn(r) \/ Insert(r) \/ Answer(r) \/ Configure(r) \/ Fail(r)

Spec == Init /\ [][Next]_vars

------------------------------------------------------------------------------
\* The variables have their types, and the pinned version exists.
TypeOK ==
  /\ clock \in 0..MaxClock
  /\ features \in [Identity -> SUBSET Feature]
  /\ \A i \in Identity : features[i] \in Variants[i]
  /\ deciding \in [Identity -> Row \union {None}]
  /\ archive \in [Identity -> Row \union {None}]
  /\ settings \in Settings
  /\ settings.pinned \in versions \union {None}
  /\ versions \subseteq Version
  /\ lock \in Request \union {None}
  /\ pc \in [Request -> {"idle", "waiting", "locked", "inserting", "answering"}]
  /\ call \in [Request -> Call \union {None}]
  /\ begun \in [Request -> 0..MaxClock]
  /\ cfg \in [Request -> Settings \union {None}]
  /\ draft \in [Request -> Version \union {None}]
  /\ snap \in [Request -> SUBSET Identity]
  /\ forgotten \subseteq Identity /\ resetDone \in 0..MaxClock

\* An answer is made from the settings and the versions in force when it is given:
\* nobody is shown a ranking that a pause, a reset, a restore or a resume has ended
\* meanwhile, and no INSERT of a version meets its UNIQUE constraint (the advisory
\* lock that both current and configure take first).
AnswerInForce ==
  \A r \in Request : pc[r] \in {"inserting", "answering"} =>
    /\ cfg[r] = settings
    /\ settings.pinned # None => draft[r] = settings.pinned
    /\ settings.pinned = None => draft[r].since = settings.since
    /\ pc[r] = "inserting" <=> draft[r] \notin versions

\* An unpinned ranking forgets what was archived before the last reset was asked
\* for, and has learned what was archived before the request, if decided after that
\* reset was done, however the three transactions wait and overlap (since = now(),
\* archived_at = now()).
ResetSeparates ==
  \A r \in Request :
    pc[r] \in {"inserting", "answering"} /\ settings.pinned = None =>
      LET learned == {e.identity : e \in draft[r].evidence}
      IN  /\ forgotten \intersect learned = {}
          /\ {i \in snap[r] : archive[i].at > resetDone} \subseteq learned

\* A version moves no job by more than its cap, moves none with fewer decisions
\* than a rule needs, and is the same without the decisions that give no reason
\* (feedback-learning.md:2, train and explain).
InfluenceBounded ==
  \A v \in versions, i \in Identity :
    LET a == Adjustment(v, TRUE, i)
        telling == {e \in v.evidence : e.mark \notin {"not_relevant", "other"}}
    IN  /\ a <= MaxAdjustment /\ -a <= MaxAdjustment
        /\ Cardinality(telling) < MinEvidence => a = 0
        /\ a = Adjustment([v EXCEPT !.evidence = telling], TRUE, i)

------------------------------------------------------------------------------
\* What makes the safety properties inductive.  The lock has one holder, which has
\* read the settings in force and works on one answer.
LockHeld ==
  \A r \in Request :
    /\ pc[r] # "idle" => call[r] \in Call
    /\ pc[r] \in {"locked", "inserting", "answering"} => lock = r /\ cfg[r] = settings
    /\ pc[r] \in {"inserting", "answering"} => draft[r] \in Version
    /\ call[r] # None /\ call[r].kind = "restore" => call[r].to \in versions

\* What is archived stays, and was decided when the clock says; so was the reset.
Moments ==
  /\ settings.since <= resetDone /\ resetDone <= clock
  /\ \A i \in Identity :
       /\ deciding[i] # None => archive[i] = None /\ deciding[i].at <= clock
       /\ archive[i] # None => archive[i].at <= clock
  /\ \A r \in Request :
       /\ pc[r] # "idle" => begun[r] <= clock
       /\ \A i \in snap[r] : archive[i] # None /\ archive[i].at < begun[r]
  /\ \A i \in forgotten : archive[i] # None /\ archive[i].at <= settings.since

\* An answer that is not pinned has what was archived after the reset.
Learned ==
  \A r \in Request : pc[r] \in {"inserting", "answering"} /\ settings.pinned = None =>
    /\ \A e \in draft[r].evidence :
         archive[e.identity] # None /\ archive[e.identity].at > settings.since
    /\ \A i \in snap[r] : archive[i].at > settings.since =>
         \E e \in draft[r].evidence : e.identity = i

\* Versions are trained from finitely many decisions.
Counted ==
  /\ \A v \in versions : IsFiniteSet(v.evidence)
  /\ \A r \in Request : draft[r] # None => IsFiniteSet(draft[r].evidence)

IInv == TypeOK /\ LockHeld /\ Moments /\ Learned /\ AnswerInForce /\ Counted
==============================================================================
