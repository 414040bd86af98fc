-------------------------- MODULE JobDecisionsProofs --------------------------
(***************************************************************************)
(* Proofs about JobDecisions for any number of postings, identities and    *)
(* requests, with reports, refreshes, deletions and the submission bridge  *)
(* at any time.                                                            *)
(***************************************************************************)
EXTENDS JobDecisions, TLAPS

\* What an operation names.
LEMMA OpForms ==
  ASSUME NEW o \in Op
  PROVE  /\ o.job \in Job
         /\ o.kind = "dismiss" => o.to \in Reason
         /\ o.kind = "save" => o.to \in Stage
  BY DEF Op

\* A request that is under way has an operation; one with the lock of its posting
\* has an identity, too.
LEMMA UnderWay ==
  ASSUME TypeOK, NEW q \in Request, pc[q] # "idle"
  PROVE  /\ op[q] \in Op /\ op[q] # None /\ op[q].job \in Job
         /\ pc[q] # "opened" => seen[q] \in Identity /\ jobLock[op[q].job] = q
  BY OpForms, DecisionAssumption DEF TypeOK

\* No two requests decide about one posting, or about one identity.
LEMMA Alone ==
  ASSUME TypeOK, NEW p \in Request, NEW q \in Request, p # q,
         pc[p] \in {"deciding", "writing"}, pc[q] \in {"deciding", "writing"}
  PROVE  op[p].job # op[q].job /\ seen[p] # seen[q]
  BY DEF TypeOK

\* The rows that requests write keep their form.
LEMMA Rows ==
  ASSUME TypeOK, NEW q \in Request, pc[q] = "deciding",
         Dismiss(q) \/ Restore(q) \/ MarkApplied(q) \/ Save(q) \/ Unsave(q)
  PROVE  /\ saved' \in [Job -> Stage \union {None}]
         /\ dismissal' \in [Identity -> DismissalRow \union {None}]
         /\ archive' \in [Identity -> ArchiveRow \union {None}]
         /\ application' \in [Job -> [status : {"none", "checked"} \union Attempted,
                                      from : 0..MaxUploads]]
  <1> DEFINE j == op[q].job
             i == seen[q]
             Form == /\ saved' \in [Job -> Stage \union {None}]
                     /\ dismissal' \in [Identity -> DismissalRow \union {None}]
                     /\ archive' \in [Identity -> ArchiveRow \union {None}]
                     /\ application' \in
                          [Job -> [status : {"none", "checked"} \union Attempted,
                                   from : 0..MaxUploads]]
  <1>1. op[q] \in Op /\ j \in Job /\ i \in Identity
    BY UnderWay
  <1>2. ASSUME NEW f \in Reason \union (Stage \ {"saved"}), ArchiveIfEmailed(q, f)
        PROVE  archive' \in [Identity -> ArchiveRow \union {None}]
    BY <1>1, <1>2 DEF ArchiveIfEmailed, ArchiveRow, TypeOK
  <1>3. ASSUME ClearDismissals(q)
        PROVE  dismissal' \in [Identity -> DismissalRow \union {None}]
    BY <1>3 DEF ClearDismissals, TypeOK
  <1>4. CASE Dismiss(q)
    <2>1. op[q].to \in Reason
      BY <1>1, <1>4, OpForms DEF Dismiss, Deciding
    <2>2. archive' \in [Identity -> ArchiveRow \union {None}]
      BY <1>2, <1>4, <2>1 DEF Dismiss
    <2>3. IF dismissal[i] = None THEN j \in Job ELSE dismissal[i].job \in Job
      BY <1>1 DEF TypeOK, DismissalRow
    <2>4. dismissal' \in [Identity -> DismissalRow \union {None}]
      BY <1>1, <1>4, <2>1, <2>3 DEF Dismiss, TypeOK, DismissalRow
    <2> QED
      BY <1>4, <2>2, <2>4 DEF Dismiss, TypeOK
  <1>5. CASE Restore(q)
    BY <1>3, <1>5 DEF Restore, TypeOK
  <1>6. CASE MarkApplied(q)
    <2>1. saved' \in [Job -> Stage \union {None}]
      BY <1>1, <1>6 DEF MarkApplied, TypeOK, Stage
    <2>2. application' \in [Job -> [status : {"none", "checked"} \union Attempted,
                                    from : 0..MaxUploads]]
      BY <1>1, <1>6 DEF MarkApplied, TypeOK, Attempted
    <2>3. archive' \in [Identity -> ArchiveRow \union {None}]
      BY <1>2, <1>6 DEF MarkApplied, Stage
    <2> QED
      BY <1>3, <1>6, <2>1, <2>2, <2>3 DEF MarkApplied
  <1>7. CASE Save(q)
    <2>1. op[q].to \in Stage
      BY <1>1, <1>7, OpForms DEF Save, Deciding
    <2>2. archive' \in [Identity -> ArchiveRow \union {None}]
      BY <1>2, <1>7, <2>1 DEF Save, TypeOK
    <2>3. saved' \in [Job -> Stage \union {None}]
      BY <1>1, <1>7, <2>1 DEF Save, TypeOK
    <2> QED
      BY <1>7, <2>2, <2>3 DEF Save, TypeOK
  <1>8. CASE Unsave(q)
    BY <1>1, <1>8 DEF Unsave, TypeOK
  <1> QED
    BY <1>4, <1>5, <1>6, <1>7, <1>8

\* The part of the type invariant about the requests, and the rest of it.
Sessions ==
  /\ jobLock \in [Job -> Request \union {None}]
  /\ archiveLock \in [Identity -> Request \union {None}]
  /\ pc \in [Request -> {"idle", "opened", "locked", "deciding", "writing"}]
  /\ op \in [Request -> Op \union {None}]
  /\ seen \in [Request -> Identity \union {None}]
  /\ basis \in [Request -> 0..MaxUploads]
  /\ requests \in 0..MaxRequests
  /\ \A q \in Request :
       /\ pc[q] # "idle" <=> op[q] # None
       /\ pc[q] = "idle" => seen[q] = None
       /\ pc[q] \in {"locked", "deciding", "writing"} =>
            seen[q] # None /\ jobLock[op[q].job] = q
       /\ pc[q] \in {"deciding", "writing"} => archiveLock[seen[q]] = q

\* A transaction that ends leaves the others their locks.
LEMMA Ended ==
  ASSUME TypeOK, NEW q \in Request, End(q)
  PROVE  Sessions'
  <1>1. \A p \in Request : p # q => pc'[p] = pc[p] /\ op'[p] = op[p] /\ seen'[p] = seen[p]
    BY DEF End, TypeOK
  <1>2. pc'[q] = "idle" /\ op'[q] = None /\ seen'[q] = None
    BY DEF End, TypeOK
  <1>3. /\ jobLock' \in [Job -> Request \union {None}]
        /\ archiveLock' \in [Identity -> Request \union {None}]
        /\ pc' \in [Request -> {"idle", "opened", "locked", "deciding", "writing"}]
        /\ op' \in [Request -> Op \union {None}]
        /\ seen' \in [Request -> Identity \union {None}]
        /\ requests' \in 0..MaxRequests
    BY DEF End, TypeOK
  <1>4. basis' \in [Request -> 0..MaxUploads]
    BY DecisionAssumption DEF End, TypeOK
  <1>5. \A p \in Request :
          /\ p # q /\ pc[p] \in {"locked", "deciding", "writing"} =>
               jobLock'[op[p].job] = p
          /\ p # q /\ pc[p] \in {"deciding", "writing"} => archiveLock'[seen[p]] = p
    BY UnderWay DEF End, TypeOK
  <1>6. \A p \in Request :
          /\ pc'[p] # "idle" <=> op'[p] # None
          /\ pc'[p] = "idle" => seen'[p] = None
          /\ pc'[p] \in {"locked", "deciding", "writing"} =>
               seen'[p] # None /\ jobLock'[op'[p].job] = p
          /\ pc'[p] \in {"deciding", "writing"} => archiveLock'[seen'[p]] = p
    BY <1>1, <1>2, <1>5 DEF TypeOK
  <1> QED
    BY <1>3, <1>4, <1>6 DEF Sessions

\* Nothing has happened before the first request.
LEMMA InitIInv == Init => IInv
  <1> SUFFICES ASSUME Init PROVE IInv
    OBVIOUS
  <1>1. TypeOK
    BY DecisionAssumption DEF Init, TypeOK, NoApplication
  <1>2. Unarchived /\ Located /\ CheckSound /\ ArchiveAgrees
    BY DEF Init, Unarchived, Located, CheckSound, ArchiveAgrees
  <1> QED
    BY <1>1, <1>2 DEF IInv

\* Every step keeps the types, and the locks with those who decide.
LEMMA TypeStep == TypeOK /\ [Next]_vars => TypeOK'
  <1> SUFFICES ASSUME TypeOK, [Next]_vars PROVE TypeOK'
    OBVIOUS
  <1> USE DecisionAssumption DEF links, rows, mail, requestVars
  <1>1. ASSUME NEW q \in Request, NEW o \in Op, Open(q, o) PROVE TypeOK'
    <2>1. o # None /\ o.job \in Job
      BY OpForms
    <2> QED
      BY <1>1, <2>1 DEF Open, TypeOK
  <1>2. ASSUME NEW q \in Request, LockJob(q) PROVE TypeOK'
    <2>1. op[q] \in Op /\ op[q].job \in Job
      BY <1>2, UnderWay DEF LockJob
    <2>2. \A p \in Request : pc[p] \in {"locked", "deciding", "writing"} =>
            op[p].job # op[q].job
      BY <1>2 DEF LockJob, TypeOK
    <2> QED
      BY <1>2, <2>1, <2>2 DEF LockJob, TypeOK
  <1>3. ASSUME NEW q \in Request, RequireActive(q) PROVE TypeOK'
    BY <1>3, UnderWay DEF RequireActive, TypeOK
  <1>4. ASSUME NEW q \in Request, Abort(q) PROVE TypeOK'
    BY <1>4, Ended DEF Abort, End, TypeOK, Sessions
  <1>5. ASSUME NEW q \in Request,
               Dismiss(q) \/ Restore(q) \/ MarkApplied(q) \/ Save(q) \/ Unsave(q)
        PROVE  TypeOK'
    <2>1. pc[q] = "deciding" /\ End(q)
      BY <1>5 DEF Dismiss, Restore, MarkApplied, Save, Unsave, Deciding
    <2>2. Sessions'
      BY <2>1, Ended
    <2> QED
      BY <1>5, <2>1, <2>2, Rows DEF End, TypeOK, Sessions
  <1>6. ASSUME NEW q \in Request, Check(q) PROVE TypeOK'
    BY <1>6 DEF Check, Deciding, TypeOK
  <1>7. ASSUME NEW q \in Request, StoreCheck(q) PROVE TypeOK'
    <2>1. Sessions' /\ op[q].job \in Job
      BY <1>7, Ended, UnderWay DEF StoreCheck
    <2>2. application' \in [Job -> [status : {"none", "checked"} \union Attempted,
                                    from : 0..MaxUploads]]
      BY <1>7, <2>1 DEF StoreCheck, TypeOK
    <2> QED
      BY <1>7, <2>1, <2>2 DEF StoreCheck, End, TypeOK, Sessions
  <1>8. CASE Upload
    BY <1>8 DEF Upload, TypeOK
  <1>9. CASE Delete
    BY <1>9 DEF Delete, TypeOK, NoApplication
  <1>10. ASSUME NEW j \in Job, NEW t \in Attempted, Attempt(j, t) PROVE TypeOK'
    BY <1>10 DEF Attempt, TypeOK
  <1>11. CASE Export \/ RecordReport \/ DropReport
    BY <1>11 DEF Export, RecordReport, DropReport, Reportable, TypeOK
  <1>12. ASSUME NEW j \in Job, NEW i \in Identity, Move(j, i) PROVE TypeOK'
    BY <1>12 DEF Move, TypeOK
  <1>13. CASE UNCHANGED vars
    BY <1>13 DEF vars, TypeOK
  <1> QED
    BY <1>1, <1>2, <1>3, <1>4, <1>5, <1>6, <1>7, <1>8, <1>9, <1>10, <1>11, <1>12,
       <1>13 DEF Next, Serve

\* A request that goes on has its operation and its posting's identity as before;
\* one that begins has neither decided anything nor written.
LEMMA Kept ==
  ASSUME TypeOK, [Next]_vars, NEW q \in Request, pc'[q] \in {"deciding", "writing"}
  PROVE  /\ pc[q] \in {"locked", "deciding", "writing"}
         /\ op'[q] = op[q] /\ seen'[q] = seen[q]
  <1> USE DEF links, rows, mail, requestVars
  <1>1. ASSUME NEW p \in Request, NEW o \in Op, Open(p, o)
        PROVE  pc[q] = pc'[q] /\ op'[q] = op[q] /\ seen'[q] = seen[q]
    BY <1>1 DEF Open, TypeOK
  <1>2. ASSUME NEW p \in Request, LockJob(p)
        PROVE  pc[q] = pc'[q] /\ op'[q] = op[q] /\ seen'[q] = seen[q]
    BY <1>2 DEF LockJob, TypeOK
  <1>3. ASSUME NEW p \in Request, RequireActive(p) \/ Check(p)
        PROVE  /\ pc[q] \in {"locked", "deciding", "writing"}
               /\ op'[q] = op[q] /\ seen'[q] = seen[q]
    BY <1>3 DEF RequireActive, Check, Deciding, TypeOK
  <1>4. ASSUME NEW p \in Request, End(p)
        PROVE  pc[q] = pc'[q] /\ op'[q] = op[q] /\ seen'[q] = seen[q]
    BY <1>4 DEF End, TypeOK
  <1>5. CASE UNCHANGED <<pc, op, seen>>
    BY <1>5
  <1> QED
    BY <1>1, <1>2, <1>3, <1>4, <1>5
       DEF Next, Serve, Abort, Dismiss, Restore, MarkApplied, Save, Unsave, StoreCheck,
           Upload, Delete, Attempt, Export, RecordReport, DropReport, Move, vars

\* Only a request that decides about an identity writes its archive.
LEMMA ArchiveWritten ==
  ASSUME TypeOK, [Next]_vars
  PROVE  \/ archive' = archive
         \/ \E q \in Request :
              /\ pc[q] = "deciding"
              /\ Dismiss(q) \/ MarkApplied(q) \/ Save(q)
              /\ \E f : ArchiveIfEmailed(q, f)
  BY DEF Next, Serve, Open, LockJob, RequireActive, Check, Abort, Dismiss, Restore,
         MarkApplied, Save, Unsave, StoreCheck, Upload, Delete, Attempt, Export,
         RecordReport, DropReport, Move, vars, links, rows, mail, requestVars, Deciding

\* A lock of an identity keeps its archive from everybody else.
LEMMA UnarchivedStep == TypeOK /\ Unarchived /\ [Next]_vars => Unarchived'
  <1> SUFFICES ASSUME TypeOK, Unarchived, [Next]_vars,
                      NEW q \in Request, pc'[q] \in {"deciding", "writing"}
               PROVE  archive'[seen'[q]] = None
    BY DEF Unarchived
  <1>1. pc[q] \in {"locked", "deciding", "writing"} /\ seen'[q] = seen[q]
    BY Kept
  <1>2. seen[q] \in Identity
    BY <1>1, UnderWay
  <1>3. CASE pc[q] = "locked"
    <2>1. RequireActive(q)
      <3> USE DEF links, rows, mail, requestVars
      <3>1. ASSUME NEW p \in Request, NEW o \in Op, Open(p, o) PROVE FALSE
        BY <1>3, <3>1 DEF Open, TypeOK
      <3>2. ASSUME NEW p \in Request, LockJob(p) PROVE FALSE
        BY <1>3, <3>2 DEF LockJob, TypeOK
      <3>3. ASSUME NEW p \in Request, Check(p) PROVE FALSE
        BY <1>3, <3>3 DEF Check, Deciding, TypeOK
      <3>4. ASSUME NEW p \in Request, End(p) PROVE FALSE
        BY <1>3, <3>4 DEF End, TypeOK
      <3>5. CASE UNCHANGED pc
        BY <1>3, <3>5
      <3>6. ASSUME NEW p \in Request, RequireActive(p) PROVE p = q
        BY <1>3, <3>6 DEF RequireActive, TypeOK
      <3> QED
        BY <3>1, <3>2, <3>3, <3>4, <3>5, <3>6
           DEF Next, Serve, Abort, Dismiss, Restore, MarkApplied, Save, Unsave,
               StoreCheck, Upload, Delete, Attempt, Export, RecordReport, DropReport,
               Move, vars
    <2> QED
      BY <1>1, <2>1 DEF RequireActive, rows
  <1>4. CASE pc[q] # "locked"
    <2>1. archive[seen[q]] = None
      BY <1>1, <1>4 DEF Unarchived
    <2>2. CASE archive' = archive
      BY <1>1, <2>1, <2>2
    <2>3. ASSUME NEW p \in Request, pc[p] = "deciding", End(p),
                 NEW f, ArchiveIfEmailed(p, f)
          PROVE  archive'[seen'[q]] = None
      <3>1. p # q
        BY <2>3 DEF End, TypeOK
      <3>2. seen[p] # seen[q]
        BY <1>1, <1>4, <2>3, <3>1, Alone
      <3> QED
        BY <1>1, <1>2, <2>1, <2>3, <3>2 DEF ArchiveIfEmailed, TypeOK
    <2> QED
      BY <2>2, <2>3, ArchiveWritten DEF Dismiss, MarkApplied, Save
  <1> QED
    BY <1>3, <1>4

\* A row of a dismissal, and one of the archive, is written at the identity that
\* a request has read, and names its posting unless it was there before.
LEMMA RowsNamed ==
  ASSUME TypeOK, NEW q \in Request, pc[q] = "deciding",
         Dismiss(q) \/ Restore(q) \/ MarkApplied(q) \/ Save(q) \/ Unsave(q),
         NEW i \in Identity
  PROVE  /\ dismissal'[i] # None =>
              \/ dismissal[i] # None /\ dismissal'[i].job = dismissal[i].job
              \/ i = seen[q] /\ dismissal[i] = None /\ dismissal'[i].job = op[q].job
         /\ archive'[i] # None =>
              \/ archive'[i] = archive[i]
              \/ i = seen[q] /\ archive[i] = None /\ archive'[i].job = op[q].job
  BY UnderWay DEF Dismiss, Restore, MarkApplied, Save, Unsave, ClearDismissals,
                  ArchiveIfEmailed, TypeOK

\* What was read, and what was written, stays where the posting is.
LEMMA LocatedStep == TypeOK /\ Located /\ [Next]_vars => Located'
  <1> SUFFICES ASSUME TypeOK, Located, [Next]_vars PROVE Located'
    OBVIOUS
  <1> USE DEF links, rows, mail, requestVars
  <1>1. ASSUME NEW q \in Request, NEW o \in Op, Open(q, o) PROVE Located'
    BY <1>1 DEF Open, TypeOK, Located
  <1>2. ASSUME NEW q \in Request, LockJob(q) PROVE Located'
    BY <1>2 DEF LockJob, TypeOK, Located
  <1>3. ASSUME NEW q \in Request, RequireActive(q) \/ Check(q) PROVE Located'
    BY <1>3 DEF RequireActive, Check, Located
  <1>4. ASSUME NEW q \in Request, End(q)
        PROVE  \A p \in Request : seen'[p] # None /\ op'[p].job \notin moved' =>
                 seen'[p] = url'[op'[p].job]
    BY <1>4 DEF End, TypeOK, Located
  <1>5. ASSUME NEW q \in Request, Abort(q) \/ StoreCheck(q) PROVE Located'
    BY <1>4, <1>5 DEF Abort, StoreCheck, End, Located
  <1>6. ASSUME NEW q \in Request, pc[q] = "deciding", End(q),
               Dismiss(q) \/ Restore(q) \/ MarkApplied(q) \/ Save(q) \/ Unsave(q)
        PROVE  Located'
    <2>1. seen[q] # None /\ url' = url /\ moved' = moved
      BY <1>6 DEF End, TypeOK
    <2>2. op[q].job \notin moved => seen[q] = url[op[q].job]
      BY <2>1 DEF Located
    <2>3. ASSUME NEW i \in Identity
          PROVE  /\ dismissal'[i] # None /\ dismissal'[i].job \notin moved =>
                      url[dismissal'[i].job] = i
                 /\ archive'[i] # None /\ archive'[i].job \notin moved =>
                      url[archive'[i].job] = i
      BY <1>6, <2>2, RowsNamed DEF Located
    <2> QED
      BY <1>4, <1>6, <2>1, <2>3 DEF Located
  <1>7. CASE UNCHANGED <<url, moved, dismissal, archive, op, seen>>
    BY <1>7 DEF Located
  <1>8. ASSUME NEW j \in Job, NEW i \in Identity, Move(j, i) PROVE Located'
    <2>1. moved' = moved \union {j} /\ \A k \in Job : k # j => url'[k] = url[k]
      BY <1>8 DEF Move, TypeOK
    <2>2. \A q \in Request : seen[q] # None => op[q].job \in Job
      BY UnderWay DEF TypeOK
    <2>3. \A k \in Identity :
            /\ dismissal[k] # None => dismissal[k].job \in Job
            /\ archive[k] # None => archive[k].job \in Job
      BY DEF TypeOK, DismissalRow, ArchiveRow
    <2> QED
      BY <1>8, <2>1, <2>2, <2>3 DEF Move, Located
  <1> QED
    BY <1>1, <1>2, <1>3, <1>5, <1>6, <1>7, <1>8
       DEF Next, Serve, Dismiss, Restore, MarkApplied, Save, Unsave, Deciding, Upload,
           Delete, Attempt, Export, RecordReport, DropReport, vars

\* While a check is being written, its posting is not dismissed and no attempt of
\* an application begins.
LEMMA CheckStep == TypeOK /\ CheckSound /\ [Next]_vars => CheckSound'
  <1> SUFFICES ASSUME TypeOK, CheckSound, [Next]_vars,
                      NEW q \in Request, pc'[q] = "writing"
               PROVE  /\ op'[q].kind = "check"
                      /\ \A k \in Identity :
                           dismissal'[k] # None =>
                             k # seen'[q] /\ dismissal'[k].job # op'[q].job
                      /\ application'[op'[q].job].status \notin Attempted
    BY DEF CheckSound, Dismissals
  <1> DEFINE j == op[q].job
             i == seen[q]
             Good == /\ op[q].kind = "check"
                     /\ \A k \in Identity :
                          dismissal'[k] # None => k # i /\ dismissal'[k].job # j
                     /\ application'[j].status \notin Attempted
  <1>1. /\ pc[q] \in {"locked", "deciding", "writing"}
        /\ op'[q] = op[q] /\ seen'[q] = seen[q]
    BY Kept
  <1>2. j \in Job /\ i \in Identity
    BY <1>1, UnderWay
  <1> SUFFICES Good
    BY <1>1
  <1> USE DEF links, rows, mail, requestVars
  <1>3. ASSUME Check(q) PROVE Good
    BY <1>3, <1>2 DEF Check, Deciding, Dismissals
  <1>4. CASE pc[q] = "writing"
    <2>1. /\ op[q].kind = "check" /\ application[j].status \notin Attempted
          /\ \A k \in Identity :
               dismissal[k] # None => k # i /\ dismissal[k].job # j
      BY <1>4 DEF CheckSound, Dismissals
    <2>2. ASSUME NEW p \in Request, pc[p] = "deciding", End(p),
                 Dismiss(p) \/ Restore(p) \/ MarkApplied(p) \/ Save(p) \/ Unsave(p)
          PROVE  Good
      <3>1. p # q /\ op[p].job # j /\ seen[p] # i
        BY <1>4, <2>2, Alone
      <3>2. \A k \in Identity : dismissal'[k] # None => k # i /\ dismissal'[k].job # j
        BY <2>1, <2>2, <3>1, RowsNamed
      <3>3. application'[j] = application[j]
        BY <1>2, <2>2, <3>1 DEF Dismiss, Restore, MarkApplied, Save, Unsave, TypeOK
      <3> QED
        BY <2>1, <3>2, <3>3
    <2>3. ASSUME NEW p \in Request, StoreCheck(p) PROVE Good
      <3>1. p # q
        BY <2>3 DEF StoreCheck, End, TypeOK
      <3>2. op[p].job # j
        BY <1>4, <2>3, <3>1, Alone DEF StoreCheck
      <3> QED
        BY <1>2, <2>1, <2>3, <3>2 DEF StoreCheck, TypeOK
    <2>4. ASSUME NEW k \in Job, NEW t \in Attempted, Attempt(k, t) PROVE Good
      <3>1. ~RowHeld(k) /\ application[k].status \in {"checked", "submitting"}
        BY <2>4 DEF Attempt
      <3>2. k # j
        BY <1>4, <3>1 DEF RowHeld
      <3> QED
        BY <1>2, <2>1, <2>4, <3>2 DEF Attempt, TypeOK
    <2>5. CASE Delete
      BY <1>2, <2>1, <2>5 DEF Delete, NoApplication, Attempted
    <2>6. CASE UNCHANGED <<dismissal, application>>
      BY <2>1, <2>6
    <2> QED
      BY <2>2, <2>3, <2>4, <2>5, <2>6
         DEF Next, Serve, Open, LockJob, RequireActive, Check, Abort, Dismiss, Restore,
             MarkApplied, Save, Unsave, Deciding, Upload, Export, RecordReport,
             DropReport, Move, vars
  <1>5. CASE pc[q] # "writing"
    <2>1. ASSUME NEW p \in Request, NEW o \in Op, Open(p, o) PROVE FALSE
      BY <1>5, <2>1 DEF Open, TypeOK
    <2>2. ASSUME NEW p \in Request, LockJob(p) \/ RequireActive(p) PROVE FALSE
      BY <1>5, <2>2 DEF LockJob, RequireActive, TypeOK
    <2>3. ASSUME NEW p \in Request, End(p) PROVE FALSE
      BY <1>5, <2>3 DEF End, TypeOK
    <2>4. CASE UNCHANGED pc
      BY <1>5, <2>4
    <2>5. ASSUME NEW p \in Request, Check(p) PROVE p = q
      BY <1>5, <2>5 DEF Check, TypeOK
    <2> QED
      BY <1>3, <2>1, <2>2, <2>3, <2>4, <2>5
         DEF Next, Serve, Abort, Dismiss, Restore, MarkApplied, Save, Unsave, StoreCheck,
             Upload, Delete, Attempt, Export, RecordReport, DropReport, Move, vars
  <1> QED
    BY <1>4, <1>5

\* Who writes rows or moves postings.
LEMMA Writers ==
  ASSUME [Next]_vars
  PROVE  \/ UNCHANGED <<rows, moved>>
         \/ \E q \in Request :
              /\ pc[q] = "deciding" /\ End(q)
              /\ Dismiss(q) \/ Restore(q) \/ MarkApplied(q) \/ Save(q) \/ Unsave(q)
         \/ \E q \in Request : StoreCheck(q)
         \/ \E j \in Job, t \in Attempted : Attempt(j, t)
         \/ Delete
         \/ \E j \in Job, i \in Identity : Move(j, i)
  <1> USE DEF links
  <1>1. ASSUME NEW q \in Request, Serve(q)
        PROVE  \/ UNCHANGED <<rows, moved>>
               \/ /\ pc[q] = "deciding" /\ End(q)
                  /\ Dismiss(q) \/ Restore(q) \/ MarkApplied(q) \/ Save(q) \/ Unsave(q)
               \/ StoreCheck(q)
    <2>1. ASSUME Dismiss(q) \/ Restore(q) \/ MarkApplied(q) \/ Save(q) \/ Unsave(q)
          PROVE  pc[q] = "deciding" /\ End(q)
      BY <2>1 DEF Dismiss, Restore, MarkApplied, Save, Unsave, Deciding
    <2>2. ASSUME NEW o \in Op, Open(q, o) PROVE UNCHANGED <<rows, moved>>
      BY <2>2 DEF Open
    <2>3. ASSUME LockJob(q) \/ RequireActive(q) \/ Check(q)
          PROVE  UNCHANGED <<rows, moved>>
      BY <2>3 DEF LockJob, RequireActive, Check
    <2>4. ASSUME Abort(q) PROVE UNCHANGED <<rows, moved>>
      BY <2>4 DEF Abort, End
    <2> QED
      BY <1>1, <2>1, <2>2, <2>3, <2>4 DEF Serve
  <1>2. ASSUME Upload \/ Export \/ RecordReport \/ DropReport \/ UNCHANGED vars
        PROVE  UNCHANGED <<rows, moved>>
    BY <1>2 DEF Upload, Export, RecordReport, DropReport, vars
  <1> QED
    BY <1>1, <1>2 DEF Next

\* What a deciding request changes, it changes at rows without an archive: other
\* dismissals only of a posting that has moved, and no archived one's stage or check.
LEMMA ArchivedUntouched ==
  ASSUME TypeOK, Unarchived, Located, NEW q \in Request, pc[q] = "deciding",
         Dismiss(q) \/ Restore(q) \/ MarkApplied(q) \/ Save(q) \/ Unsave(q),
         NEW i \in Identity, archive[i] # None
  PROVE  /\ i # seen[q] /\ archive'[i] = archive[i]
         /\ dismissal'[i] # dismissal[i] =>
              dismissal[i] # None /\ dismissal'[i] = None /\ dismissal[i].job \in moved
         /\ \A j \in Job \ moved :
              url[j] = i => j # op[q].job /\ saved'[j] = saved[j]
  <1>1. seen[q] \in Identity /\ op[q].job \in Job /\ archive[seen[q]] = None
    BY UnderWay DEF Unarchived
  <1>2. i # seen[q]
    BY <1>1
  <1>3. op[q].job \notin moved => url[op[q].job] = seen[q]
    BY <1>1, DecisionAssumption DEF Located
  <1>4. archive'[i] = archive[i]
    BY <1>1, <1>2
       DEF Dismiss, Restore, MarkApplied, Save, Unsave, ArchiveIfEmailed, TypeOK
  <1>5. ASSUME dismissal'[i] # dismissal[i]
        PROVE  dismissal[i] # None /\ dismissal'[i] = None /\ dismissal[i].job \in moved
    <2>1. /\ dismissal'[i] = None /\ dismissal[i] # None
          /\ dismissal[i].job = op[q].job
      BY <1>1, <1>2, <1>5
         DEF Dismiss, Restore, MarkApplied, Save, Unsave, ClearDismissals, Dismissals,
             TypeOK
    <2>2. dismissal[i].job \notin moved => url[op[q].job] = i
      BY <2>1 DEF Located
    <2> QED
      BY <1>2, <1>3, <2>1, <2>2
  <1>6. \A j \in Job \ moved : url[j] = i => j # op[q].job
    BY <1>2, <1>3
  <1>7. \A j \in Job : j # op[q].job => saved'[j] = saved[j]
    BY <1>1 DEF Dismiss, Restore, MarkApplied, Save, Unsave, TypeOK
  <1> QED
    BY <1>2, <1>4, <1>5, <1>6, <1>7

\* A request that decides, archives what it decides.
LEMMA DecisionArchived ==
  ASSUME TypeOK, Unarchived, NEW q \in Request, pc[q] = "deciding",
         Dismiss(q) \/ Restore(q) \/ MarkApplied(q) \/ Save(q) \/ Unsave(q),
         NEW i \in Identity, archive[i] = None, archive'[i] # None
  PROVE  /\ archive'[i].job = op[q].job
         /\ archive'[i].final \in Stage => saved'[op[q].job] = archive'[i].final
         /\ archive'[i].final \in Reason =>
              dismissal'[i] # None /\ dismissal'[i].reason = archive'[i].final
  <1>1. /\ seen[q] \in Identity /\ op[q] \in Op /\ op[q].job \in Job
        /\ archive[seen[q]] = None
    BY UnderWay DEF Unarchived
  <1>2. i = seen[q]
    BY <1>1 DEF Dismiss, Restore, MarkApplied, Save, Unsave, ArchiveIfEmailed, TypeOK
  <1>3. CASE Dismiss(q)
    <2>1. /\ op[q].to \in Reason
          /\ archive'[i].job = op[q].job /\ archive'[i].final = op[q].to
      BY <1>1, <1>2, <1>3, OpForms DEF Dismiss, Deciding, ArchiveIfEmailed, TypeOK
    <2>2. dismissal'[i] \in DismissalRow /\ dismissal'[i].reason = op[q].to
      <3>1. IF dismissal[i] = None THEN op[q].job \in Job ELSE dismissal[i].job \in Job
        BY <1>1 DEF TypeOK, DismissalRow
      <3> QED
        BY <1>1, <1>2, <1>3, <2>1, <3>1 DEF Dismiss, TypeOK, DismissalRow
    <2> QED
      BY <2>1, <2>2, DecisionAssumption
  <1>4. CASE MarkApplied(q)
    <2>1. archive'[i].job = op[q].job /\ archive'[i].final = "applied"
      BY <1>1, <1>2, <1>4 DEF MarkApplied, ArchiveIfEmailed, TypeOK
    <2>2. saved'[op[q].job] = "applied"
      BY <1>1, <1>4 DEF MarkApplied, TypeOK
    <2> QED
      BY <2>1, <2>2, DecisionAssumption DEF Stage
  <1>5. CASE Save(q)
    <2>1. /\ op[q].to \in Stage
          /\ archive'[i].job = op[q].job /\ archive'[i].final = op[q].to
      BY <1>1, <1>2, <1>5, OpForms DEF Save, Deciding, ArchiveIfEmailed, TypeOK
    <2>2. saved'[op[q].job] = op[q].to
      BY <1>1, <1>5 DEF Save, TypeOK
    <2> QED
      BY <2>1, <2>2, DecisionAssumption
  <1>6. CASE Restore(q) \/ Unsave(q)
    BY <1>6 DEF Restore, Unsave
  <1> QED
    BY <1>3, <1>4, <1>5, <1>6

\* The archive keeps saying what was decided.
LEMMA AgreesStep == IInv /\ [Next]_vars => ArchiveAgrees'
  <1> SUFFICES ASSUME IInv, [Next]_vars PROVE ArchiveAgrees'
    OBVIOUS
  <1> USE DEF IInv, links, rows, mail, requestVars
  <1>1. ASSUME NEW q \in Request, pc[q] = "deciding", End(q),
               Dismiss(q) \/ Restore(q) \/ MarkApplied(q) \/ Save(q) \/ Unsave(q),
               NEW i \in Identity, archive'[i] # None
        PROVE  /\ archive'[i].final \in Stage =>
                    \/ saved'[archive'[i].job] = archive'[i].final
                    \/ archive'[i].job \in moved'
               /\ archive'[i].final \in Reason =>
                    IF dismissal'[i] = None THEN moved' # {}
                    ELSE dismissal'[i].reason = archive'[i].final
    <2>1. moved' = moved
      BY <1>1 DEF End
    <2>2. CASE archive[i] = None
      BY <1>1, <2>2, DecisionArchived
    <2>3. CASE archive[i] # None
      <3>1. /\ archive'[i] = archive[i] /\ archive[i].job \in Job
            /\ dismissal'[i] # dismissal[i] =>
                 dismissal'[i] = None /\ dismissal[i].job \in moved
            /\ archive[i].job \notin moved =>
                 saved'[archive[i].job] = saved[archive[i].job]
        <4>1. archive[i].job \in Job
          BY <2>3 DEF TypeOK, ArchiveRow
        <4>2. archive[i].job \notin moved => url[archive[i].job] = i
          BY <2>3 DEF Located
        <4> QED
          BY <1>1, <2>3, <4>1, <4>2, ArchivedUntouched
      <3>2. /\ archive[i].final \in Stage =>
                 saved[archive[i].job] = archive[i].final \/ archive[i].job \in moved
            /\ archive[i].final \in Reason =>
                 IF dismissal[i] = None THEN moved # {}
                 ELSE dismissal[i].reason = archive[i].final
        BY <2>3 DEF ArchiveAgrees
      <3> QED
        BY <2>1, <3>1, <3>2
    <2> QED
      BY <2>2, <2>3
  <1>2. CASE UNCHANGED <<saved, dismissal, archive, moved>>
    BY <1>2 DEF ArchiveAgrees
  <1>3. ASSUME NEW j \in Job, NEW i \in Identity, Move(j, i) PROVE ArchiveAgrees'
    BY <1>3 DEF Move, ArchiveAgrees
  <1> QED
    <2>1. ASSUME NEW q \in Request, pc[q] = "deciding", End(q),
                 Dismiss(q) \/ Restore(q) \/ MarkApplied(q) \/ Save(q) \/ Unsave(q)
          PROVE  ArchiveAgrees'
      BY <1>1, <2>1 DEF ArchiveAgrees
    <2>2. ASSUME NEW q \in Request, StoreCheck(q) PROVE ArchiveAgrees'
      BY <1>2, <2>2 DEF StoreCheck, End
    <2>3. ASSUME Delete \/ \E j \in Job, t \in Attempted : Attempt(j, t)
          PROVE  ArchiveAgrees'
      BY <1>2, <2>3 DEF Delete, Attempt
    <2> QED
      BY <1>2, <1>3, <2>1, <2>2, <2>3, Writers

\* The invariant: types and locks, nobody at an archived identity, rows where their
\* postings are, and checks whose ground has not shifted.
THEOREM Invariance == Spec => []IInv
  <1>1. IInv /\ [Next]_vars => IInv'
    BY TypeStep, UnarchivedStep, LocatedStep, CheckStep, AgreesStep DEF IInv
  <1> QED
    BY <1>1, InitIInv, PTL DEF Spec

\* Rows keep their form, and who decides has the locks of the posting and of its
\* identity (main.py:164-169, archives.py:4-9).
THEOREM TypeCorrect == Spec => []TypeOK
  BY Invariance, PTL DEF IInv

\* The archive and the decisions agree (archives.py:11-14, main.py:164-218).
THEOREM ArchiveTrue == Spec => []ArchiveAgrees
  BY Invariance, PTL DEF IInv

\* An archived decision stands, whichever requests were already under way
\* (archives.py:7-9).
THEOREM ArchiveFinal == Spec => ArchivedFrozen
  <1> DEFINE Frozen ==
        \A i \in Identity :
          archive[i] # None =>
            /\ archive'[i] = archive[i]
            /\ dismissal'[i] # dismissal[i] => dismissal[i].job \in moved
            /\ \A j \in Job \ moved :
                 url[j] = i =>
                   /\ saved'[j] = saved[j]
                   /\ application'[j].status = "checked" =>
                        application'[j] = application[j]
  <1>1. ASSUME IInv, [Next]_vars, NEW i \in Identity, archive[i] # None
        PROVE  /\ archive'[i] = archive[i]
               /\ dismissal'[i] # dismissal[i] => dismissal[i].job \in moved
               /\ \A j \in Job \ moved :
                    url[j] = i =>
                      /\ saved'[j] = saved[j]
                      /\ application'[j].status = "checked" =>
                           application'[j] = application[j]
    <2> USE <1>1 DEF IInv, links, rows, mail, requestVars
    <2> DEFINE Same == /\ archive'[i] = archive[i] /\ dismissal'[i] = dismissal[i]
                       /\ \A j \in Job \ moved : saved'[j] = saved[j]
               Checks == \A j \in Job \ moved :
                           url[j] = i /\ application'[j].status = "checked" =>
                             application'[j] = application[j]
    <2>1. ASSUME NEW q \in Request, pc[q] = "deciding",
                 Dismiss(q) \/ Restore(q) \/ MarkApplied(q) \/ Save(q) \/ Unsave(q)
          PROVE  Checks
      <3>1. \A j \in Job \ moved : url[j] = i => j # op[q].job
        BY <2>1, ArchivedUntouched
      <3> QED
        BY <2>1, <3>1 DEF Dismiss, Restore, MarkApplied, Save, Unsave, TypeOK
    <2>2. ASSUME NEW q \in Request, StoreCheck(q) PROVE Same /\ Checks
      <3>1. /\ op[q].job \notin moved => url[op[q].job] = seen[q]
            /\ seen[q] # i /\ op[q].job \in Job
        BY <2>2, UnderWay DEF StoreCheck, Located, Unarchived, TypeOK
      <3> QED
        BY <2>2, <3>1 DEF StoreCheck, TypeOK
    <2>3. ASSUME NEW k \in Job, NEW t \in Attempted, Attempt(k, t) PROVE Same /\ Checks
      <3>1. application' = [application EXCEPT ![k] = application'[k]]
            /\ application'[k].status = t /\ t # "checked"
        BY <2>3 DEF Attempt, TypeOK, Attempted
      <3> QED
        BY <2>3, <3>1 DEF Attempt, TypeOK
    <2>4. ASSUME Delete PROVE Same /\ Checks
      BY <2>4 DEF Delete, NoApplication
    <2>5. ASSUME UNCHANGED rows PROVE Same /\ Checks
      BY <2>5
    <2>6. ASSUME NEW j \in Job, NEW k \in Identity, Move(j, k) PROVE UNCHANGED rows
      BY <2>6 DEF Move
    <2> QED
      BY <2>1, <2>2, <2>3, <2>4, <2>5, <2>6, ArchivedUntouched, Writers
  <1>2. IInv /\ [Next]_vars => [Frozen]_vars
    BY <1>1
  <1> QED
    BY <1>2, Invariance, PTL DEF Spec, ArchivedFrozen

\* What a check writes, it writes for a posting that nobody has dismissed
\* (intake.py:161-168).
THEOREM DismissalRespected == Spec => NoneDismissedPrepared
  <1>1. IInv => [\A q \in Request :
                   LET j == op[q].job
                   IN  pc[q] = "writing" /\ application'[j] # application[j] =>
                         Dismissals(j, seen[q]) = {}]_vars
    BY DEF IInv, CheckSound
  <1> QED
    BY <1>1, Invariance, PTL DEF NoneDismissedPrepared

\* An attempt is never turned back into a check (intake.py:169-173).
THEOREM AttemptRemembered == Spec => AttemptKept
  <1>1. ASSUME IInv, [Next]_vars, NEW j \in Job, application[j].status \in Attempted
        PROVE  application'[j].status \in Attempted \union {"none"}
    <2> USE <1>1 DEF IInv, links, rows, mail, requestVars
    <2>1. ASSUME NEW q \in Request, MarkApplied(q)
          PROVE  application'[j].status \in Attempted
      <3>1. op[q].job \in Job
        BY <2>1, UnderWay DEF MarkApplied, Deciding
      <3> QED
        BY <2>1, <3>1 DEF MarkApplied, TypeOK, Attempted
    <2>2. ASSUME NEW q \in Request, StoreCheck(q)
          PROVE  application'[j] = application[j]
      <3>1. op[q].job # j
        BY <2>2 DEF StoreCheck, CheckSound
      <3> QED
        BY <2>2, <3>1 DEF StoreCheck, TypeOK
    <2>3. ASSUME NEW k \in Job, NEW t \in Attempted, Attempt(k, t)
          PROVE  application'[j].status \in Attempted
      BY <2>3 DEF Attempt, TypeOK
    <2>4. CASE Delete
      BY <2>4 DEF Delete, NoApplication
    <2>5. CASE UNCHANGED application
      BY <2>5
    <2> QED
      BY <2>1, <2>2, <2>3, <2>4, <2>5
         DEF Next, Serve, Open, LockJob, RequireActive, Check, Abort, Dismiss, Restore,
             Save, Unsave, Upload, Export, RecordReport, DropReport, Move, vars
  <1>2. IInv /\ [Next]_vars =>
          [\A j \in Job :
             application[j].status \in Attempted =>
               application'[j].status \in Attempted \union {"none"}]_vars
    BY <1>1
  <1> QED
    BY <1>2, Invariance, PTL DEF Spec, AttemptKept
==============================================================================
