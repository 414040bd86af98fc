---------------------------- MODULE JobDecisions ----------------------------
(***************************************************************************)
(* What an owner decides about postings, while a report, the submission    *)
(* bridge and the collector touch the same rows: saving, dismissing and    *)
(* marking applied (api/main.py), the checks that prepare an application   *)
(* and the deletion of what they were made from (api/intake.py), and the   *)
(* archive that locks a decision about an emailed job (archives.py).       *)
(*                                                                         *)
(* All rows, and both advisory locks, belong to one owner, so the model    *)
(* has one.  A posting has an identity, its URL without tracking, which    *)
(* several postings may share.  One resume stands for the profile and the  *)
(* resume variants a check is made from.                                   *)
(***************************************************************************)
EXTENDS Naturals, FiniteSets

CONSTANTS
  Job,         \* postings, by their id
  Identity,    \* values of posting_identity
  Request,     \* requests that the API serves at one time
  Reason,      \* reasons to dismiss a posting
  Movable,     \* bound: the postings whose URL a refresh may change
  MaxRequests, \* bound: requests of the owner
  MaxUploads,  \* bound: uploads of a resume
  None         \* no row, no lock

\* "closed" stands for "interviewing" and "offer", too.
Stage == {"saved", "applied", "closed"}

\* Requests, with the stage or the reason they carry.
Op ==
  [kind : {"dismiss"}, job : Job, to : Reason] \union
  [kind : {"save"}, job : Job, to : Stage] \union
  [kind : {"restore", "unsave", "apply", "check"}, job : Job, to : {None}]

\* A row of job_dismissals, and one of job_archives.
DismissalRow == [reason : Reason, job : Job]

ArchiveRow == [final : Reason \union (Stage \ {"saved"}), job : Job]

ASSUME DecisionAssumption ==
  /\ None \notin Request \union Identity \union Stage
  /\ None \notin Op \union DismissalRow \union ArchiveRow
  /\ Reason \intersect Stage = {}
  /\ Movable \subseteq Job
  /\ MaxRequests \in Nat /\ MaxUploads \in Nat

VARIABLES
  url,          \* per posting: the identity of its URL
  moved,        \* history: the postings whose URL has changed
  saved,        \* saved_jobs: the stage of a posting
  dismissal,    \* job_dismissals: per identity, the reason and the posting
  archive,      \* job_archives: per identity, the final status and the posting
  application,  \* private_applications: status and the resume it was made from
  resume,       \* private_resume: the version, 0 for none
  uploads,      \* how many versions there have been
  history,      \* postings with an emailed_at in emailed_jobs
  report,       \* rows of the report that is being sent
  jobLock,      \* per posting: the request with its advisory lock
  archiveLock,  \* per identity: the request with its advisory lock
  pc,           \* where a request is
  op,           \* what it asks for
  seen,         \* the identity it has read
  basis,        \* the resume it has read
  requests      \* how many requests there have been

links == <<url, moved>>
rows == <<saved, dismissal, archive, application>>
mail == <<history, report>>
vars == <<links, rows, resume, uploads, mail, jobLock, archiveLock, pc, op, seen,
          basis, requests>>

------------------------------------------------------------------------------
\* What must not be submitted again.
Attempted == {"submitting", "submission_unknown", "submitted"}

NoApplication == [status |-> "none", from |-> 0]

\* dismissal_for, and the rows a restore deletes: by posting or by identity.
Dismissals(j, i) ==
  {k \in Identity : dismissal[k] # None /\ (k = i \/ dismissal[k].job = j)}

\* archive_if_emailed: some posting of the identity has been emailed.
Emailed(i) == \E k \in history : url[k] = i

\* export_rows: what a report lists.
Reportable ==
  {j \in Job :
     /\ application[j].status # "none" \/ saved[j] \notin {None, "saved"}
     /\ archive[url[j]] = None}

\* Mutant: the row of the application is read without FOR UPDATE.
RowNeverHeld(j) == FALSE

\* A check has locked the row of its application.
RowHeld(j) ==
  \E q \in Request :
    pc[q] = "writing" /\ op[q].job = j /\ application[j].status # "none"

Init ==
  /\ url \in [Job -> Identity] /\ moved = {}
  /\ saved = [j \in Job |-> None]
  /\ dismissal = [i \in Identity |-> None]
  /\ archive = [i \in Identity |-> None]
  /\ application = [j \in Job |-> NoApplication]
  /\ resume = 0 /\ uploads = 0
  /\ history = {} /\ report = {}
  /\ jobLock = [j \in Job |-> None]
  /\ archiveLock = [i \in Identity |-> None]
  /\ pc = [q \in Request |-> "idle"]
  /\ op = [q \in Request |-> None]
  /\ seen = [q \in Request |-> None]
  /\ basis = [q \in Request |-> 0]
  /\ requests = 0

------------------------------------------------------------------------------
(* one request: a transaction that locks the posting, then its identity *)

\* The handlers but that of a check read the posting in a transaction before.
Open(q, o) ==
  /\ pc[q] = "idle" /\ requests < MaxRequests
  /\ requests' = requests + 1
  /\ pc' = [pc EXCEPT ![q] = "opened"]
  /\ op' = [op EXCEPT ![q] = o]
  /\ seen' = [seen EXCEPT ![q] = IF o.kind = "check" THEN None ELSE url[o.job]]
  /\ UNCHANGED <<links, rows, resume, uploads, mail, jobLock, archiveLock, basis>>

\* The end of the transaction releases both locks.
End(q) ==
  /\ jobLock' = [j \in Job |-> IF jobLock[j] = q THEN None ELSE jobLock[j]]
  /\ archiveLock' =
       [i \in Identity |-> IF archiveLock[i] = q THEN None ELSE archiveLock[i]]
  /\ pc' = [pc EXCEPT ![q] = "idle"]
  /\ op' = [op EXCEPT ![q] = None]
  /\ seen' = [seen EXCEPT ![q] = None]
  /\ basis' = [basis EXCEPT ![q] = 0]
  /\ UNCHANGED <<links, resume, uploads, mail, requests>>

\* Refused with 409, or a failure of the API or of the database: rolled back.
Abort(q) ==
  /\ pc[q] # "idle"
  /\ End(q)
  /\ UNCHANGED rows

LockJob(q) ==
  /\ pc[q] = "opened" /\ jobLock[op[q].job] = None
  /\ jobLock' = [jobLock EXCEPT ![op[q].job] = q]
  /\ seen' = [seen EXCEPT ![q] = IF @ = None THEN url[op[q].job] ELSE @]
  /\ pc' = [pc EXCEPT ![q] = "locked"]
  /\ UNCHANGED <<links, rows, resume, uploads, mail, archiveLock, op, basis, requests>>

\* Mutant: the archive is read without its advisory lock.
LookIntoArchive(q) ==
  /\ pc[q] = "locked" /\ archive[seen[q]] = None
  /\ pc' = [pc EXCEPT ![q] = "deciding"]
  /\ UNCHANGED <<links, rows, resume, uploads, mail, jobLock, archiveLock, op, seen,
                 basis, requests>>

\* require_active
RequireActive(q) ==
  /\ pc[q] = "locked" /\ archiveLock[seen[q]] = None /\ archive[seen[q]] = None
  /\ archiveLock' = [archiveLock EXCEPT ![seen[q]] = q]
  /\ pc' = [pc EXCEPT ![q] = "deciding"]
  /\ UNCHANGED <<links, rows, resume, uploads, mail, jobLock, op, seen, basis, requests>>

\* The transaction of request q decides op[q] and commits.
Deciding(q, kind) == pc[q] = "deciding" /\ op[q].kind = kind

\* archive_if_emailed, a plain INSERT: a second row would fail.
ArchiveIfEmailed(q, final) ==
  IF Emailed(seen[q])
  THEN /\ archive[seen[q]] = None
       /\ archive' =
            [archive EXCEPT ![seen[q]] = [final |-> final, job |-> op[q].job]]
  ELSE UNCHANGED archive

\* The row keeps the posting that was dismissed first.
Dismiss(q) ==
  /\ Deciding(q, "dismiss")
  /\ dismissal' = [dismissal EXCEPT ![seen[q]] =
                     [reason |-> op[q].to,
                      job |-> IF @ = None THEN op[q].job ELSE @.job]]
  /\ ArchiveIfEmailed(q, op[q].to)
  /\ End(q)
  /\ UNCHANGED <<saved, application>>

ClearDismissals(q) ==
  dismissal' = [i \in Identity |->
                  IF i \in Dismissals(op[q].job, seen[q]) THEN None ELSE dismissal[i]]

Restore(q) ==
  /\ Deciding(q, "restore")
  /\ ClearDismissals(q)
  /\ End(q)
  /\ UNCHANGED <<saved, archive, application>>

\* The owner attests that the application went through.
MarkApplied(q) ==
  LET j == op[q].job
  IN  /\ Deciding(q, "apply")
      /\ saved' = [saved EXCEPT ![j] = "applied"]
      /\ application' = [application EXCEPT ![j].status =
                           IF @ = "none" THEN @ ELSE "submitted"]
      /\ ClearDismissals(q)
      /\ ArchiveIfEmailed(q, "applied")
      /\ End(q)

\* Only a stage beyond "saved" is a decision.
Save(q) ==
  /\ Deciding(q, "save")
  /\ saved' = [saved EXCEPT ![op[q].job] = op[q].to]
  /\ IF op[q].to = "saved" THEN UNCHANGED archive ELSE ArchiveIfEmailed(q, op[q].to)
  /\ End(q)
  /\ UNCHANGED <<dismissal, application>>

Unsave(q) ==
  /\ Deciding(q, "unsave")
  /\ saved' = [saved EXCEPT ![op[q].job] = None]
  /\ End(q)
  /\ UNCHANGED <<dismissal, archive, application>>

\* A check reads the dismissals, the application and the resume.  A dismissed
\* posting and a missing resume refuse it, an attempt is returned as it is:
\* either way it ends with Abort.
Check(q) ==
  /\ Deciding(q, "check")
  /\ Dismissals(op[q].job, seen[q]) = {}
  /\ application[op[q].job].status \notin Attempted
  /\ resume # 0
  /\ basis' = [basis EXCEPT ![q] = resume]
  /\ pc' = [pc EXCEPT ![q] = "writing"]
  /\ UNCHANGED <<links, rows, resume, uploads, mail, jobLock, archiveLock, op, seen,
                 requests>>

\* It has assessed the resume, stores the result and commits.
StoreCheck(q) ==
  /\ pc[q] = "writing"
  /\ application' = [application EXCEPT ![op[q].job] =
                       [status |-> "checked", from |-> basis[q]]]
  /\ End(q)
  /\ UNCHANGED <<saved, dismissal, archive>>

Serve(q) ==
  \/ \E o \in Op : Open(q, o)
  \/ LockJob(q) \/ RequireActive(q) \/ Abort(q)
  \/ Dismiss(q) \/ Restore(q) \/ MarkApplied(q) \/ Save(q) \/ Unsave(q)
  \/ Check(q) \/ StoreCheck(q)

------------------------------------------------------------------------------
(* the owner's documents *)

requestVars == <<jobLock, archiveLock, pc, op, seen, basis, requests>>

Upload ==
  /\ uploads < MaxUploads
  /\ uploads' = uploads + 1
  /\ resume' = uploads + 1
  /\ UNCHANGED <<links, rows, mail, requestVars>>

\* delete_resume, delete_intake: the checks go with the documents.  The
\* statement waits for the rows that checks have locked.
Delete ==
  /\ \A j \in Job : ~RowHeld(j)
  /\ resume' = 0
  /\ application' = [j \in Job |-> NoApplication]
  /\ UNCHANGED <<links, saved, dismissal, archive, uploads, mail, requestVars>>

------------------------------------------------------------------------------
(* everybody else *)

\* External: the submission bridge, which looks at dismissals first, attempts
\* an application, and learns what became of it or does not.
Attempt(j, outcome) ==
  /\ ~RowHeld(j)
  /\ \/ /\ application[j].status = "checked" /\ outcome = "submitting"
        /\ Dismissals(j, url[j]) = {}
     \/ application[j].status = "submitting" /\ outcome # "submitting"
  /\ application' = [application EXCEPT ![j].status = outcome]
  /\ UNCHANGED <<links, saved, dismissal, archive, resume, uploads, mail, requestVars>>

Export ==
  /\ report = {} /\ Reportable # {}
  /\ report' = Reportable
  /\ UNCHANGED <<links, rows, resume, uploads, history, requestVars>>

\* record_report: Gmail has accepted it, and its history is written.
RecordReport ==
  /\ report # {}
  /\ history' = history \union report
  /\ report' = {}
  /\ UNCHANGED <<links, rows, resume, uploads, requestVars>>

\* It is not sent, or its history stays behind for good.
DropReport ==
  /\ report # {}
  /\ report' = {}
  /\ UNCHANGED <<links, rows, resume, uploads, history, requestVars>>

\* A refresh finds the posting under another URL.
Move(j, i) ==
  /\ j \in Movable /\ url[j] # i
  /\ url' = [url EXCEPT ![j] = i]
  /\ moved' = moved \union {j}
  /\ UNCHANGED <<rows, resume, uploads, mail, requestVars>>

Next ==
  \/ \E q \in Request : Serve(q)
  \/ Upload \/ Delete
  \/ \E j \in Job, outcome \in Attempted : Attempt(j, outcome)
  \/ Export \/ RecordReport \/ DropReport
  \/ \E j \in Job, i \in Identity : Move(j, i)

Spec == Init /\ [][Next]_vars

------------------------------------------------------------------------------
TypeOK ==
  /\ url \in [Job -> Identity] /\ moved \subseteq Movable
  /\ saved \in [Job -> Stage \union {None}]
  /\ dismissal \in [Identity -> DismissalRow \union {None}]
  /\ archive \in [Identity -> ArchiveRow \union {None}]
  /\ application \in [Job -> [status : {"none", "checked"} \union Attempted,
                              from : 0..MaxUploads]]
  /\ resume \in {0, uploads} /\ uploads \in 0..MaxUploads
  /\ history \subseteq Job /\ report \subseteq Job
  /\ jobLock \in [Job -> Request \union {None}]
  /\ archiveLock \in [Identity -> Request \union {None}]
  /\ pc \in [Request -> {"idle", "opened", "locked", "deciding", "writing"}]
  /\ op \in [Request -> Op \union {None}]
  /\ seen \in [Request -> Identity \union {None}]
  /\ basis \in [Request -> 0..MaxUploads]
  /\ requests \in 0..MaxRequests
  \* a request that decides has both locks
  /\ \A q \in Request :
       /\ pc[q] # "idle" <=> op[q] # None
       /\ pc[q] = "idle" => seen[q] = None
       /\ pc[q] \in {"locked", "deciding", "writing"} =>
            seen[q] # None /\ jobLock[op[q].job] = q
       /\ pc[q] \in {"deciding", "writing"} => archiveLock[seen[q]] = q

\* The archive says what was decided: its final status is the stage or the
\* reason that the other tables hold, and stays so, unless a refresh has moved
\* the posting to another URL (archives.py:7-14, written in the transactions of
\* main.py:164-218).
ArchiveAgrees ==
  \A i \in Identity :
    archive[i] # None =>
      LET final == archive[i].final
      IN  /\ final \in Stage =>
               saved[archive[i].job] = final \/ archive[i].job \in moved
          /\ final \in Reason =>
               IF dismissal[i] = None THEN moved # {} ELSE dismissal[i].reason = final

\* Once a decision is archived, no request that is under way, for the posting
\* or for another of its identity, changes the archive, a dismissal, a stage or
\* a check of them, unless the posting has moved (archives.py:7-9,
\* job-dismissal.md:16: 409 on further requests).
ArchivedFrozen ==
  [][\A i \in Identity :
       archive[i] # None =>
         /\ archive'[i] = archive[i]
         /\ dismissal'[i] # dismissal[i] => dismissal[i].job \in moved
         /\ \A j \in Job \ moved :
              url[j] = i =>
                /\ saved'[j] = saved[j]
                /\ application'[j].status = "checked" =>
                     application'[j] = application[j]]_vars

\* No check prepares a posting that is dismissed when it commits, by itself or
\* by another posting with the URL that the check has read (intake.py:161-168,
\* job-dismissal.md:5).
NoneDismissedPrepared ==
  [][\A q \in Request :
       LET j == op[q].job
       IN  pc[q] = "writing" /\ application'[j] # application[j] =>
             Dismissals(j, seen[q]) = {}]_vars

\* An attempt at an application, whatever became of it, is never turned back
\* into a check that could be attempted again: only the deletion of all
\* applications forgets it (intake.py:169-173, test_intake.py:151).
AttemptKept ==
  [][\A j \in Job :
       application[j].status \in Attempted =>
         application'[j].status \in Attempted \union {"none"}]_vars

------------------------------------------------------------------------------
(* what the properties rest on *)

\* Nobody decides about an identity that has an archive.
Unarchived ==
  \A q \in Request : pc[q] \in {"deciding", "writing"} => archive[seen[q]] = None

\* What a request has read, and what a row says, of a posting that has not moved
\* is where the posting is.
Located ==
  /\ \A q \in Request :
       seen[q] # None /\ op[q].job \notin moved => seen[q] = url[op[q].job]
  /\ \A i \in Identity :
       /\ dismissal[i] # None /\ dismissal[i].job \notin moved =>
            url[dismissal[i].job] = i
       /\ archive[i] # None /\ archive[i].job \notin moved => url[archive[i].job] = i

\* What a check has made sure of stays true until it writes.
CheckSound ==
  \A q \in Request :
    pc[q] = "writing" =>
      /\ op[q].kind = "check"
      /\ Dismissals(op[q].job, seen[q]) = {}
      /\ application[op[q].job].status \notin Attempted

IInv == TypeOK /\ Unarchived /\ Located /\ CheckSound /\ ArchiveAgrees

------------------------------------------------------------------------------
\* Deletion removes the resumes and the checks (resume-intake.md:19): without
\* a resume there is no check.
DeletionComplete ==
  resume = 0 => \A j \in Job : application[j].status = "none"
==============================================================================
