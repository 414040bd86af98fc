------------------------- MODULE SourceRefreshProofs -------------------------
(***************************************************************************)
(* Proofs about SourceRefresh for any number of sources, schedulers,       *)
(* operators and runs, with every deadlock, rollback and lost worker.      *)
(***************************************************************************)
EXTENDS SourceRefresh, FiniteSetTheorems, WellFoundedInduction, TLAPS

Phase == Settling \union {"none", "fetched", "writing", "broken", "lost"}

\* Nothing has been requested yet.
LEMMA InitIInv == Init => IInv
  <1> SUFFICES ASSUME Init PROVE IInv
    OBVIOUS
  <1>0. 0 \in Time /\ \A p \in Producer : p # None
    BY RefreshAssumption DEF Time, Producer
  <1>1. TypeOK
    BY <1>0 DEF Init, TypeOK, Active, Settling
  <1>2. RunsSound /\ ProducersSound /\ PassSound /\ ResultsSound
    BY DEF Init, RunsSound, ProducersSound, ProducerSound, InTransaction, PassSound, ResultsSound, Scheduled
  <1>3. OneScheduledRunPerDay /\ OpenWasSeen
    BY DEF Init, OneScheduledRunPerDay, Scheduled, OpenWasSeen
  <1> QED
    BY <1>1, <1>2, <1>3 DEF IInv

------------------------------------------------------------------------------
(* the clock and what begins *)

LEMMA TickStep == IInv /\ Tick => IInv'
  <1> SUFFICES ASSUME IInv, Tick PROVE IInv'
    OBVIOUS
  <1> USE DEF Tick, runVars, jobVars, producerVars, collectVars
  <1>1. now \in Time /\ now' \in Time /\ now <= now'
    BY RefreshAssumption DEF IInv, TypeOK, Time
  <1>2. TypeOK'
    BY <1>1 DEF IInv, TypeOK
  <1>3. \A t \in Time : t <= now => t <= now'
    BY <1>1 DEF Time
  <1>4. RunsSound'
    BY <1>3 DEF IInv, RunsSound, InTransaction, TypeOK
  <1>5. ProducersSound'
    BY <1>3 DEF IInv, ProducersSound, ProducerSound, InTransaction, TypeOK, IsNext
  <1>6. PassSound' /\ ResultsSound'
    BY DEF IInv, PassSound, InTransaction, ResultsSound, Scheduled
  <1>7. OneScheduledRunPerDay' /\ OpenWasSeen'
    BY DEF IInv, OneScheduledRunPerDay, Scheduled, Apart, OpenWasSeen
  <1> QED
    BY <1>2, <1>4, <1>5, <1>6, <1>7 DEF IInv

\* A boundary that has been read is past.
LEMMA ReadStep ==
  ASSUME IInv, NEW p \in Scheduler, ReadBoundary(p) PROVE IInv'
  <1> USE DEF ReadBoundary, runVars, jobVars, collectVars
  <1>0. PICK m \in Midnight : Opening[m] <= now /\ boundary' = [boundary EXCEPT ![p] = Opening[m]]
    OBVIOUS
  <1>1. p \in Producer /\ now \in Time /\ Opening[m] \in Time
    BY <1>0, RefreshAssumption DEF Producer, Time, IInv, TypeOK
  <1>2. TypeOK'
    BY <1>0, <1>1 DEF IInv, TypeOK
  <1>3. \A q \in Producer : InTransaction(q)' <=> InTransaction(q)
    BY <1>1 DEF InTransaction, IInv, TypeOK
  <1>4. RunsSound'
    BY <1>3 DEF IInv, RunsSound
  <1>5. ASSUME NEW q \in Producer PROVE ProducerSound(q)'
    <2>1. CASE q = p
      BY <1>0, <1>1, <2>1 DEF ProducerSound, InTransaction, IInv, TypeOK
    <2>2. CASE q # p
      BY <1>0, <2>2 DEF ProducersSound, ProducerSound, InTransaction, IsNext, IInv, TypeOK
    <2> QED
      BY <2>1, <2>2
  <1>6. PassSound'
    <2>1. \A q \in Scheduler : InTransaction(q) => boundary'[q] = boundary[q]
      BY <1>0, <1>1 DEF InTransaction, Producer, IInv, TypeOK
    <2> QED
      BY <1>3, <2>1 DEF IInv, PassSound, Scheduled, Producer
  <1>7. ResultsSound' /\ OneScheduledRunPerDay' /\ OpenWasSeen'
    BY DEF IInv, ResultsSound, OneScheduledRunPerDay, Scheduled, Apart, OpenWasSeen
  <1> QED
    BY <1>2, <1>4, <1>5, <1>6, <1>7 DEF IInv, ProducersSound

\* A pass that begins finds no other one, so that every scheduled run it reads is
\* committed, and its WHERE clause leaves those that are due.
LEMMA ScheduleStep ==
  ASSUME IInv, NEW p \in Scheduler, Schedule(p) PROVE IInv'
  <1> USE DEF Schedule, runVars, jobVars, collectVars
  <1>0. /\ p \in Producer /\ p # None /\ now \in Time /\ now <= now
        /\ ~InTransaction(p)
    BY RefreshAssumption DEF Producer, InTransaction, IInv, TypeOK, Time
  <1>1. TypeOK'
    BY <1>0 DEF IInv, TypeOK
  <1>2. \A q \in Producer : InTransaction(q) => q # p /\ InTransaction(q)'
    BY <1>0 DEF InTransaction, IInv, TypeOK
  <1>3. RunsSound'
    BY <1>2 DEF IInv, RunsSound, TypeOK
  <1>4. \A q \in Scheduler : ~InTransaction(q)
    BY RefreshAssumption, <1>0 DEF IInv, ProducersSound, ProducerSound, Producer
  <1>5. ASSUME NEW q \in Producer PROVE ProducerSound(q)'
    <2>1. CASE q = p
      BY <1>0, <2>1 DEF ProducersSound, ProducerSound, IInv, TypeOK
    <2>2. CASE q # p
      <3>1. q \in Scheduler => ~InTransaction(q)'
        BY <1>4, <2>2 DEF InTransaction, IInv, TypeOK
      <3> QED
        BY <2>2, <3>1 DEF ProducersSound, ProducerSound, InTransaction, IsNext, IInv, TypeOK
    <2> QED
      BY <2>1, <2>2
  <1>7. \A r \in Run : Scheduled(r) => status[r] # "pending"
    BY <1>4 DEF IInv, RunsSound, Scheduled
  <1>8. PassSound'
    <2> SUFFICES ASSUME NEW q \in Scheduler, InTransaction(q)',
                        NEW s \in todo'[q], NEW r \in Run,
                        Scheduled(r), source[r] = s
                 PROVE  /\ status[r] # "pending" /\ createdAt[r] < boundary[q]
                        /\ createdAt[r] + Interval <= began'[q]
      BY DEF PassSound, Scheduled
    <2>1. q = p
      BY <1>4 DEF InTransaction, IInv, TypeOK
    <2>2. s \in Source /\ Due(p, s) /\ began'[q] = now
      BY <1>0, <2>1 DEF IInv, TypeOK
    <2>3. r \in Of(s)
      BY DEF Of, Scheduled
    <2> QED
      BY <1>7, <2>1, <2>2, <2>3 DEF Due
  <1>9. ResultsSound' /\ OneScheduledRunPerDay' /\ OpenWasSeen'
    BY DEF IInv, ResultsSound, OneScheduledRunPerDay, Scheduled, Apart, OpenWasSeen
  <1> QED
    BY <1>1, <1>3, <1>5, <1>7, <1>8, <1>9 DEF IInv, ProducersSound

LEMMA RefreshStep ==
  ASSUME IInv, NEW p \in Operator, NEW s \in Source, Refresh(p, s) PROVE IInv'
  <1> USE DEF Refresh, runVars, jobVars, collectVars
  <1>0. p \in Producer /\ p \notin Scheduler /\ now \in Time /\ now <= now
    BY RefreshAssumption DEF Producer, IInv, TypeOK, Time
  <1>1. TypeOK'
    BY <1>0 DEF IInv, TypeOK
  <1>2. \A q \in Producer : InTransaction(q) => q # p /\ InTransaction(q)'
    BY <1>0 DEF InTransaction, IInv, TypeOK
  <1>3. RunsSound'
    BY <1>2 DEF IInv, RunsSound, TypeOK
  <1>4. ProducersSound'
    BY <1>0 DEF IInv, ProducersSound, ProducerSound, InTransaction, TypeOK, IsNext
  <1>5. PassSound'
    BY <1>0 DEF IInv, PassSound, InTransaction, TypeOK, Scheduled, Producer
  <1>6. ResultsSound'
    BY DEF IInv, ResultsSound
  <1>7. OneScheduledRunPerDay' /\ OpenWasSeen'
    BY DEF IInv, OneScheduledRunPerDay, Scheduled, Apart, OpenWasSeen
  <1> QED
    BY <1>1, <1>3, <1>4, <1>5, <1>6, <1>7 DEF IInv

------------------------------------------------------------------------------
(* enqueue *)

LEMMA LockStep ==
  ASSUME IInv, NEW p \in Producer, NEW s \in Source, LockSource(p, s) PROVE IInv'
  <1> USE DEF LockSource, runVars, jobVars, collectVars
  <1>0. p # None
    BY RefreshAssumption
  <1>1. TypeOK'
    BY DEF IInv, TypeOK
  <1>2. \A r \in Run : status[r] = "pending" => source[r] # s
    BY RefreshAssumption DEF IInv, RunsSound
  <1>3. RunsSound'
    BY <1>2 DEF IInv, RunsSound, InTransaction, TypeOK
  <1>4. ASSUME NEW q \in Producer PROVE ProducerSound(q)'
    <2>1. CASE q = p
      BY <2>1 DEF IInv, ProducersSound, ProducerSound, InTransaction, TypeOK, IsNext
    <2>2. CASE q # p
      <3>1. ASSUME step'[q] = "insert"
            PROVE  \E t \in Source : IsNext(q, t)' /\ lockedBy'[t] = q
        <4>1. PICK t \in Source : IsNext(q, t) /\ lockedBy[t] = q
          BY <2>2, <3>1 DEF IInv, ProducersSound, ProducerSound, TypeOK
        <4>2. t # s
          BY RefreshAssumption, <4>1
        <4> QED
          BY <4>1, <4>2 DEF IInv, TypeOK, IsNext
      <3> QED
        BY <2>2, <3>1 DEF IInv, ProducersSound, ProducerSound, InTransaction, TypeOK
    <2> QED
      BY <2>1, <2>2
  <1>5. PassSound'
    BY DEF IInv, PassSound, InTransaction, TypeOK, Scheduled, Producer
  <1>6. ResultsSound'
    BY DEF IInv, ResultsSound
  <1>7. OneScheduledRunPerDay' /\ OpenWasSeen'
    BY DEF IInv, OneScheduledRunPerDay, Scheduled, Apart, OpenWasSeen
  <1> QED
    BY <1>1, <1>3, <1>4, <1>5, <1>6, <1>7 DEF IInv, ProducersSound

LEMMA SkipStep ==
  ASSUME IInv, NEW p \in Producer, NEW s \in Source, SkipSource(p, s) PROVE IInv'
  <1> USE DEF SkipSource, runVars, jobVars, collectVars
  <1>1. TypeOK'
    BY DEF IInv, TypeOK
  <1>2. RunsSound'
    BY DEF IInv, RunsSound, InTransaction, TypeOK
  <1>3. ASSUME NEW q \in Producer PROVE ProducerSound(q)'
    <2>1. CASE q = p
      BY <2>1 DEF IInv, ProducersSound, ProducerSound, InTransaction, TypeOK
    <2>2. CASE q # p
      BY <2>2 DEF IInv, ProducersSound, ProducerSound, InTransaction, TypeOK, IsNext
    <2> QED
      BY <2>1, <2>2
  <1>4. PassSound'
    BY DEF IInv, PassSound, InTransaction, TypeOK, Scheduled, Producer
  <1>5. ResultsSound'
    BY DEF IInv, ResultsSound
  <1>6. OneScheduledRunPerDay' /\ OpenWasSeen'
    BY DEF IInv, OneScheduledRunPerDay, Scheduled, Apart, OpenWasSeen
  <1> QED
    BY <1>1, <1>2, <1>3, <1>4, <1>5, <1>6 DEF IInv, ProducersSound

\* The run inserted is the only one of its source that is not settled, and the
\* only scheduled one of its day.
LEMMA InsertStep ==
  ASSUME IInv, NEW p \in Producer, NEW s \in Source, NEW r \in Run,
         InsertRun(p, s, r)
  PROVE  IInv'
  <1> USE DEF InsertRun, jobVars, collectVars
  <1>0. /\ p # None /\ began[p] \in Time /\ began[p] <= now
        /\ status'[r] = "pending" /\ source'[r] = s
        /\ createdAt'[r] = began[p] /\ requestedBy'[r] = p
        /\ \A q \in Run : q # r =>
             /\ status'[q] = status[q] /\ source'[q] = source[q]
             /\ createdAt'[q] = createdAt[q] /\ requestedBy'[q] = requestedBy[q]
    BY RefreshAssumption DEF IInv, TypeOK, ProducersSound, ProducerSound, InTransaction
  <1>1. lockedBy[s] = p
    <2>1. PICK t \in Source : IsNext(p, t) /\ lockedBy[t] = p
      BY DEF IInv, ProducersSound, ProducerSound
    <2>2. s = t
      BY <2>1, RefreshAssumption DEF IsNext
    <2> QED
      BY <2>1, <2>2
  <1>2. \A q \in Run : source[q] = s => status[q] \notin Active \union {"pending"}
    <2>1. \A q \in Run : source[q] = s => status[q] # "pending"
      BY <1>1 DEF IInv, RunsSound, IsNext
    <2>2. \A q \in Run : source[q] = s => status[q] \notin Active
      BY DEF Of, Active
    <2> QED
      BY <2>1, <2>2
  <1>3. phase[r] = "none"
    BY DEF IInv, RunsSound
  <1>4. TypeOK'
    <2>1. /\ status' \in [Run -> Active \union {"absent", "pending", "completed", "failed"}]
          /\ source' \in [Run -> Source \union {None}]
          /\ createdAt' \in [Run -> Time]
          /\ requestedBy' \in [Run -> Producer \union {None}]
          /\ todo' \in [Producer -> SUBSET Source]
          /\ step' \in [Producer -> {"idle", "due", "enqueue", "insert"}]
      BY <1>0 DEF IInv, TypeOK
    <2>2. \A q, t \in Run :
            {status'[q], status'[t]} \subseteq Active \union {"pending"}
            /\ source'[q] = source'[t] => q = t
      BY <1>0, <1>2 DEF IInv, TypeOK
    <2> QED
      BY <2>1, <2>2 DEF IInv, TypeOK
  <1>5. RunsSound'
    <2> SUFFICES ASSUME NEW q \in Run
                 PROVE  /\ status'[q] # "absent" =>
                             source'[q] \in Source /\ createdAt'[q] <= now
                        /\ phase[q] # "none" => status'[q] = "running"
                        /\ status'[q] = "pending" =>
                             /\ requestedBy'[q] \in Producer
                             /\ step'[requestedBy'[q]] \in {"enqueue", "insert"}
                             /\ lockedBy[source'[q]] = requestedBy'[q]
                             /\ source'[q] \notin todo'[requestedBy'[q]]
      BY DEF RunsSound, InTransaction
    <2>1. CASE q = r
      BY <1>0, <1>1, <1>3, <2>1 DEF IInv, InTransaction, TypeOK
    <2>2. CASE q # r
      BY <1>0, <2>2 DEF IInv, RunsSound, InTransaction, TypeOK
    <2> QED
      BY <2>1, <2>2
  <1>6. ProducersSound'
    BY DEF IInv, ProducersSound, ProducerSound, InTransaction, TypeOK, IsNext
  <1>7. PassSound'
    <2> SUFFICES ASSUME NEW q \in Scheduler, InTransaction(q)',
                        NEW t \in todo'[q], NEW u \in Run,
                        Scheduled(u)', source'[u] = t
                 PROVE  /\ status'[u] # "pending" /\ createdAt'[u] < boundary[q]
                        /\ createdAt'[u] + Interval <= began[q]
      BY DEF PassSound
    <2>0. q \in Producer
      BY DEF Producer
    <2>1. InTransaction(q) /\ InTransaction(p) /\ t \in todo[q]
      BY <2>0 DEF IInv, InTransaction, TypeOK
    <2>2. u # r
      <3> SUFFICES ASSUME u = r PROVE FALSE
        OBVIOUS
      <3>1. p \in Scheduler /\ t = s
        BY <1>0 DEF Scheduled
      <3>2. q = p
        BY <2>0, <2>1, <3>1 DEF IInv, ProducersSound, ProducerSound
      <3> QED
        BY <3>1, <3>2 DEF IInv, TypeOK
    <2> QED
      BY <1>0, <2>1, <2>2 DEF IInv, PassSound, Scheduled
  <1>9. ResultsSound'
    <2> SUFFICES ASSUME NEW q \in Run, NEW t \in Run,
                        phase[t] \in {"writing", "written"},
                        status'[q] # "absent", source'[q] = source'[t]
                 PROVE  createdAt'[q] <= resultAt[t]
      BY DEF ResultsSound
    <2>1. t # r /\ status[t] = "running"
      BY <1>3 DEF IInv, RunsSound
    <2>2. source[t] # s
      BY <1>2, <2>1 DEF Active
    <2> QED
      BY <1>0, <2>1, <2>2 DEF IInv, ResultsSound
  <1>10. OneScheduledRunPerDay'
    <2>1. ASSUME NEW q \in Run, q # r, p \in Scheduler, Scheduled(q), source[q] = s
          PROVE  Apart(q, r)'
      <3>1. createdAt[q] < boundary[p] /\ createdAt[q] + Interval <= began[p]
        BY <2>1 DEF IInv, PassSound, InTransaction, IsNext
      <3>2. PICK m \in Midnight : boundary[p] = Opening[m]
        BY <2>1 DEF IInv, ProducersSound, ProducerSound
      <3>3. boundary[p] <= began[p]
        BY <2>1 DEF IInv, ProducersSound, ProducerSound, InTransaction
      <3> QED
        BY <1>0, <2>1, <3>1, <3>2, <3>3 DEF Apart
    <2>2. ASSUME NEW q \in Run, NEW t \in Run, Scheduled(q)', Scheduled(t)',
                 source'[q] = source'[t], q # t
          PROVE  Apart(q, t)' \/ Apart(t, q)'
      <3>1. CASE q # r /\ t # r
        <4>1. Apart(q, t) \/ Apart(t, q)
          BY <1>0, <2>2, <3>1 DEF IInv, OneScheduledRunPerDay, Scheduled
        <4> QED
          BY <1>0, <3>1, <4>1 DEF Apart
      <3>2. CASE q = r \/ t = r
        BY <1>0, <2>1, <2>2, <3>2 DEF Scheduled
      <3> QED
        BY <3>1, <3>2
    <2> QED
      BY <2>2 DEF OneScheduledRunPerDay
  <1>11. OpenWasSeen'
    BY <1>0 DEF IInv, OpenWasSeen
  <1> QED
    BY <1>4, <1>5, <1>6, <1>7, <1>9, <1>10, <1>11 DEF IInv
------------------------------------------------------------------------------
(* the end of a producer's transaction *)

\* What the end of a transaction leaves of the others.
LEMMA Closed ==
  ASSUME IInv, NEW p \in Producer, Close(p)
  PROVE  /\ step'[p] = "idle"
         /\ \A q \in Producer : q # p =>
              /\ step'[q] = step[q] /\ boundary'[q] = boundary[q]
              /\ began'[q] = began[q] /\ todo'[q] = todo[q]
         /\ \A s \in Source : lockedBy[s] # p => lockedBy'[s] = lockedBy[s]
         /\ lockedBy' \in [Source -> Producer \union {None}]
         /\ pass' \in Scheduler \union {None}
         /\ step' \in [Producer -> {"idle", "due", "enqueue", "insert"}]
         /\ boundary' \in [Producer -> Time] /\ began' \in [Producer -> Time]
         /\ todo' \in [Producer -> SUBSET Source]
         /\ ProducersSound'
  <1> USE DEF Close, Unlocked
  <1>1. 0 \in Time
    BY RefreshAssumption DEF Time
  <1>2. /\ step'[p] = "idle"
        /\ \A q \in Producer : q # p =>
             /\ step'[q] = step[q] /\ boundary'[q] = boundary[q]
             /\ began'[q] = began[q] /\ todo'[q] = todo[q]
        /\ \A s \in Source : lockedBy[s] # p => lockedBy'[s] = lockedBy[s]
        /\ lockedBy' \in [Source -> Producer \union {None}]
        /\ pass' \in Scheduler \union {None}
        /\ step' \in [Producer -> {"idle", "due", "enqueue", "insert"}]
        /\ boundary' \in [Producer -> Time] /\ began' \in [Producer -> Time]
        /\ todo' \in [Producer -> SUBSET Source]
    BY <1>1 DEF IInv, TypeOK
  <1>3. ASSUME NEW q \in Producer PROVE ProducerSound(q)'
    <2>1. CASE q = p
      BY <1>2, <2>1 DEF ProducerSound, InTransaction
    <2>2. CASE q # p
      BY <1>2, <2>2 DEF IInv, ProducersSound, ProducerSound, InTransaction, IsNext
    <2> QED
      BY <2>1, <2>2
  <1> QED
    BY <1>2, <1>3 DEF ProducersSound

\* A pass that finds nothing to do inserts nothing.
LEMMA FindNothingStep ==
  ASSUME IInv, NEW p \in Scheduler, FindNothing(p) PROVE IInv'
  <1>0. p \in Producer /\ Close(p) /\ UNCHANGED runVars /\ ~InTransaction(p)
    BY DEF FindNothing, Producer, InTransaction
  <1> USE DEF runVars, jobVars, collectVars
  <1>1. UNCHANGED <<now, runVars, jobVars, collectVars>>
    BY <1>0 DEF Close
  <1>2. TypeOK'
    BY <1>0, <1>1, Closed DEF IInv, TypeOK
  <1>3. \A q \in Producer : InTransaction(q) => q # p /\ InTransaction(q)'
    BY <1>0, Closed DEF InTransaction
  <1>4. RunsSound'
    <2>1. ASSUME NEW r \in Run, status[r] = "pending"
          PROVE  /\ InTransaction(requestedBy[r])'
                 /\ lockedBy'[source[r]] = requestedBy[r]
                 /\ source[r] \notin todo'[requestedBy[r]]
      <3>1. /\ requestedBy[r] \in Producer /\ source[r] \in Source
            /\ InTransaction(requestedBy[r])
            /\ lockedBy[source[r]] = requestedBy[r]
            /\ source[r] \notin todo[requestedBy[r]]
        BY <2>1 DEF IInv, RunsSound
      <3> QED
        BY <1>0, <1>3, <3>1, Closed
    <2> QED
      BY <1>1, <2>1 DEF IInv, RunsSound, InTransaction
  <1>5. PassSound'
    <2> SUFFICES ASSUME NEW q \in Scheduler, InTransaction(q)',
                        NEW s \in todo'[q], NEW r \in Run, Scheduled(r), source[r] = s
                 PROVE  /\ status[r] # "pending" /\ createdAt[r] < boundary'[q]
                        /\ createdAt[r] + Interval <= began'[q]
      BY <1>1 DEF PassSound, Scheduled
    <2>1. q \in Producer /\ q # p
      BY <1>0, Closed DEF Producer, InTransaction
    <2>2. /\ InTransaction(q) /\ s \in todo[q]
          /\ boundary'[q] = boundary[q] /\ began'[q] = began[q]
      BY <1>0, <2>1, Closed DEF InTransaction
    <2> QED
      BY <2>2 DEF IInv, PassSound
  <1>6. ResultsSound' /\ OneScheduledRunPerDay' /\ OpenWasSeen'
    BY <1>1 DEF IInv, ResultsSound, OneScheduledRunPerDay, Scheduled, Apart, OpenWasSeen
  <1> QED
    BY <1>0, <1>2, <1>4, <1>5, <1>6, Closed DEF IInv

LEMMA CommitRequestStep ==
  ASSUME IInv, NEW p \in Producer, CommitRequest(p) PROVE IInv'
  <1> DEFINE own == {r \in Run : status[r] = "pending" /\ requestedBy[r] = p}
  <1>1. /\ UNCHANGED <<now, jobVars, collectVars, source, createdAt, requestedBy>>
        /\ status' = [r \in Run |-> IF r \in own THEN "queued" ELSE status[r]]
        /\ Close(p)
    BY DEF CommitRequest, Close
  <1> USE DEF jobVars, collectVars
  <1>2. /\ \A r \in Run : (status'[r] = "absent") <=> (status[r] = "absent")
        /\ \A r \in Run : status'[r] = "completed" => status[r] = "completed"
        /\ \A r \in Run : status'[r] = "pending" =>
             status[r] = "pending" /\ requestedBy[r] # p
        /\ \A r \in Run : status'[r] \in Active \union {"pending"} =>
             status[r] \in Active \union {"pending"}
    BY <1>1 DEF Active
  <1>3. TypeOK'
    BY <1>1, <1>2, Closed DEF IInv, TypeOK, Active
  <1>4. RunsSound'
    <2>1. ASSUME NEW r \in Run, status'[r] = "pending"
          PROVE  /\ requestedBy[r] \in Producer
                 /\ InTransaction(requestedBy[r])'
                 /\ lockedBy'[source[r]] = requestedBy[r]
                 /\ source[r] \notin todo'[requestedBy[r]]
      <3>1. /\ requestedBy[r] \in Producer \ {p} /\ source[r] \in Source
            /\ InTransaction(requestedBy[r])
            /\ lockedBy[source[r]] = requestedBy[r]
            /\ source[r] \notin todo[requestedBy[r]]
        BY <1>2, <2>1 DEF IInv, RunsSound
      <3> QED
        BY <1>1, <3>1, Closed DEF InTransaction
    <2>2. ASSUME NEW r \in Run, phase[r] # "none" PROVE status'[r] = "running"
      BY <1>1, <2>2 DEF IInv, RunsSound
    <2> QED
      BY <1>1, <1>2, <2>1, <2>2 DEF IInv, RunsSound, InTransaction
  <1>5. PassSound'
    <2> SUFFICES ASSUME NEW q \in Scheduler, InTransaction(q)',
                        NEW s \in todo'[q], NEW r \in Run, Scheduled(r)', source'[r] = s
                 PROVE  /\ status'[r] # "pending" /\ createdAt'[r] < boundary'[q]
                        /\ createdAt'[r] + Interval <= began'[q]
      BY DEF PassSound
    <2>1. q \in Producer /\ q # p
      BY <1>1, Closed DEF Producer, InTransaction
    <2>2. /\ InTransaction(q) /\ s \in todo[q]
          /\ boundary'[q] = boundary[q] /\ began'[q] = began[q]
      BY <1>1, <2>1, Closed DEF InTransaction
    <2> QED
      BY <1>1, <1>2, <2>2 DEF IInv, PassSound, Scheduled
  <1>6. ResultsSound'
    BY <1>1, <1>2 DEF IInv, ResultsSound
  <1>7. OneScheduledRunPerDay' /\ OpenWasSeen'
    BY <1>1, <1>2 DEF IInv, OneScheduledRunPerDay, Scheduled, Apart, OpenWasSeen
  <1> QED
    BY <1>1, <1>3, <1>4, <1>5, <1>6, <1>7, Closed DEF IInv

LEMMA AbortStep ==
  ASSUME IInv, NEW p \in Producer, Abort(p) PROVE IInv'
  <1> DEFINE undone == {r \in Run : status[r] = "pending" /\ requestedBy[r] = p}
  <1>1. /\ UNCHANGED <<now, jobVars, collectVars>>
        /\ status' = [r \in Run |-> IF r \in undone THEN "absent" ELSE status[r]]
        /\ source' = [r \in Run |-> IF r \in undone THEN None ELSE source[r]]
        /\ createdAt' = [r \in Run |-> IF r \in undone THEN 0 ELSE createdAt[r]]
        /\ requestedBy' = [r \in Run |-> IF r \in undone THEN None ELSE requestedBy[r]]
        /\ Close(p)
    BY DEF Abort, Close
  <1> USE DEF jobVars, collectVars
  <1>2. \A r \in Run : status'[r] # "absent" =>
          /\ status'[r] = status[r] /\ source'[r] = source[r]
          /\ createdAt'[r] = createdAt[r] /\ requestedBy'[r] = requestedBy[r]
          /\ status[r] = "pending" => requestedBy[r] # p
    BY <1>1
  <1>3. TypeOK'
    <2>1. 0 \in Time
      BY RefreshAssumption DEF Time
    <2>2. \A q, r \in Run :
            {status'[q], status'[r]} \subseteq Active \union {"pending"}
            /\ source'[q] = source'[r] => q = r
      BY <1>2 DEF IInv, TypeOK, Active
    <2> QED
      BY <1>1, <2>1, <2>2, Closed DEF IInv, TypeOK
  <1>4. RunsSound'
    <2>1. ASSUME NEW r \in Run, status'[r] = "pending"
          PROVE  /\ requestedBy'[r] \in Producer
                 /\ step'[requestedBy'[r]] \in {"enqueue", "insert"}
                 /\ lockedBy'[source'[r]] = requestedBy'[r]
                 /\ source'[r] \notin todo'[requestedBy'[r]]
      <3>1. /\ requestedBy[r] \in Producer \ {p} /\ source[r] \in Source
            /\ InTransaction(requestedBy[r])
            /\ lockedBy[source[r]] = requestedBy[r]
            /\ source[r] \notin todo[requestedBy[r]]
        BY <1>2, <2>1 DEF IInv, RunsSound
      <3> QED
        BY <1>1, <1>2, <2>1, <3>1, Closed DEF InTransaction
    <2>2. ASSUME NEW r \in Run, phase[r] # "none" PROVE status'[r] = "running"
      BY <1>1, <2>2 DEF IInv, RunsSound
    <2> QED
      BY <1>1, <1>2, <2>1, <2>2 DEF IInv, RunsSound, InTransaction
  <1>5. PassSound'
    <2> SUFFICES ASSUME NEW q \in Scheduler, InTransaction(q)',
                        NEW s \in todo'[q], NEW r \in Run, Scheduled(r)', source'[r] = s
                 PROVE  /\ status'[r] # "pending" /\ createdAt'[r] < boundary'[q]
                        /\ createdAt'[r] + Interval <= began'[q]
      BY DEF PassSound
    <2>1. q \in Producer /\ q # p
      BY <1>1, Closed DEF Producer, InTransaction
    <2>2. /\ InTransaction(q) /\ s \in todo[q]
          /\ boundary'[q] = boundary[q] /\ began'[q] = began[q]
      BY <1>1, <2>1, Closed DEF InTransaction
    <2> QED
      BY <1>2, <2>2 DEF IInv, PassSound, Scheduled
  <1>6. ResultsSound'
    <2>1. \A r \in Run : phase[r] # "none" => status'[r] # "absent"
      BY <1>1 DEF IInv, RunsSound
    <2> QED
      BY <1>1, <1>2, <2>1 DEF IInv, ResultsSound
  <1>7. OneScheduledRunPerDay' /\ OpenWasSeen'
    BY <1>1, <1>2 DEF IInv, OneScheduledRunPerDay, Scheduled, Apart, OpenWasSeen
  <1> QED
    BY <1>1, <1>3, <1>4, <1>5, <1>6, <1>7, Closed DEF IInv

------------------------------------------------------------------------------
(* collectors *)

\* A step of the collector of an active run that writes no jobs: the run stays
\* active and is collected, or has failed, and a result began after all requests.
LEMMA CollectorMoves ==
  ASSUME IInv, NEW r \in Run, NEW st \in {"running", "failed"}, NEW ph \in Phase,
         NEW L \in SUBSET Posting, NEW t \in Time,
         UNCHANGED <<now, jobVars, producerVars, source, createdAt, requestedBy>>,
         status' = [status EXCEPT ![r] = st], phase' = [phase EXCEPT ![r] = ph],
         listing' = [listing EXCEPT ![r] = L],
         resultAt' = [resultAt EXCEPT ![r] = t],
         status[r] \in Active, ph # "none" => st = "running",
         ph \in {"writing", "written"} =>
           \A q \in Run : status[q] # "absent" /\ source[q] = source[r] =>
             createdAt[q] <= t
  PROVE  IInv'
  <1> USE DEF jobVars, producerVars
  <1>1. /\ \A q \in Run : (status'[q] = "absent") <=> (status[q] = "absent")
        /\ \A q \in Run : status'[q] = "pending" => status[q] = "pending"
        /\ \A q \in Run : status'[q] = "completed" => status[q] = "completed"
        /\ \A q \in Run : status'[q] \in Active \union {"pending"} =>
             status[q] \in Active \union {"pending"}
    BY DEF IInv, TypeOK, Active
  <1>2. TypeOK'
    <2>1. \A q, u \in Run :
            {status'[q], status'[u]} \subseteq Active \union {"pending"}
            /\ source'[q] = source'[u] => q = u
      BY <1>1 DEF IInv, TypeOK
    <2> QED
      BY <2>1 DEF IInv, TypeOK, Phase, Active
  <1>3. RunsSound'
    <2>1. \A q \in Run : phase'[q] # "none" => status'[q] = "running"
      BY DEF IInv, RunsSound, TypeOK
    <2> QED
      BY <1>1, <2>1 DEF IInv, RunsSound, InTransaction
  <1>4. ProducersSound' /\ PassSound'
    BY <1>1 DEF IInv, ProducersSound, ProducerSound, InTransaction, IsNext, PassSound, Scheduled
  <1>5. ResultsSound'
    BY <1>1 DEF IInv, ResultsSound, TypeOK
  <1>6. OneScheduledRunPerDay' /\ OpenWasSeen'
    BY <1>1 DEF IInv, OneScheduledRunPerDay, Scheduled, Apart, OpenWasSeen
  <1> QED
    BY <1>2, <1>3, <1>4, <1>5, <1>6 DEF IInv

LEMMA DropStep ==
  ASSUME IInv, NEW r \in Run, NEW st \in {"running", "failed"},
         NEW ph \in {"none", "failing", "lost", "broken"}, Drop(r, ph),
         status' = [status EXCEPT ![r] = st], status[r] \in Active,
         ph # "none" => st = "running"
  PROVE  IInv'
  <1>1. 0 \in Time /\ ph \in Phase /\ {} \in SUBSET Posting
    BY RefreshAssumption DEF Time, Phase, Settling
  <1> QED
    BY <1>1, CollectorMoves DEF Drop, Move

LEMMA CollectorStepKeeps ==
  ASSUME IInv, NEW r \in Run,
         CollectorStep(r) \/ CommitFail(r) \/ LoseCollector(r)
           \/ \E p \in Producer : BreakResult(p, r)
  PROVE  IInv'
  <1>0. /\ phase[r] \in Phase /\ listing[r] \in SUBSET Posting /\ resultAt[r] \in Time
        /\ now \in Time /\ status[r] \in Active \union {"absent", "pending", "completed", "failed"}
        /\ phase[r] # "none" => status[r] = "running"
        /\ listing = [listing EXCEPT ![r] = listing[r]]
        /\ resultAt = [resultAt EXCEPT ![r] = resultAt[r]]
        /\ status = [status EXCEPT ![r] = status[r]]
    BY DEF IInv, TypeOK, RunsSound, Phase
  <1>1. CASE \E L \in SUBSET Posting : Collect(r, L)
    <2>1. PICK L \in SUBSET Posting : Collect(r, L)
      BY <1>1
    <2> QED
      BY <1>0, <2>1, CollectorMoves DEF Collect, Move, Active, Phase
  <1>2. CASE BeginResult(r)
    <2>1. \A q \in Run : status[q] # "absent" => createdAt[q] <= now
      BY DEF IInv, RunsSound
    <2> QED
      BY <1>0, <1>2, <2>1, CollectorMoves DEF BeginResult, Move, Active, Phase
  <1>3. CASE UpdateRun(r)
    <2>1. \A q \in Run : status[q] # "absent" /\ source[q] = source[r] =>
            createdAt[q] <= resultAt[r]
      BY <1>3 DEF IInv, ResultsSound, UpdateRun
    <2>2. /\ "written" \in Phase /\ "running" \in {"running", "failed"}
          /\ status[r] = "running" /\ status[r] \in Active
      BY <1>0, <1>3 DEF UpdateRun, Phase, Settling, Active
    <2>3. /\ UNCHANGED <<now, jobVars, producerVars, source, createdAt, requestedBy>>
          /\ status' = [status EXCEPT ![r] = "running"]
          /\ phase' = [phase EXCEPT ![r] = "written"]
          /\ listing' = [listing EXCEPT ![r] = listing[r]]
          /\ resultAt' = [resultAt EXCEPT ![r] = resultAt[r]]
      BY <1>0, <1>3, <2>2 DEF UpdateRun, Move
    <2> QED
      BY <1>0, <2>1, <2>2, <2>3, CollectorMoves
  <1>4. CASE BeginFail(r)
    BY <1>0, <1>4, DropStep DEF BeginFail, Active
  <1>5. CASE GiveUp(r)
    BY <1>0, <1>5, DropStep DEF GiveUp, Active
  <1>6. CASE CommitFail(r)
    BY <1>0, <1>6, DropStep DEF CommitFail, Active
  <1>7. CASE LoseCollector(r)
    BY <1>0, <1>7, DropStep DEF LoseCollector, Active, Settling
  <1>8. CASE \E p \in Producer : BreakResult(p, r)
    <2>1. /\ phase[r] \in Settling
          /\ Drop(r, IF phase[r] = "written" THEN "broken" ELSE "lost")
          /\ UNCHANGED status
      BY <1>8 DEF BreakResult, Deadlocked
    <2> QED
      BY <1>0, <2>1, DropStep DEF Active, Settling
  <1> QED
    BY <1>1, <1>2, <1>3, <1>4, <1>5, <1>6, <1>7, <1>8 DEF CollectorStep

\* What a result stores is not older than any request of the source: no run of it
\* was requested while this one was active.
LEMMA CommitResultStep ==
  ASSUME IInv, NEW r \in Run, CommitResult(r) PROVE IInv'
  <1> USE DEF CommitResult, producerVars
  <1>1. /\ status[r] = "running" /\ source[r] \in Source
        /\ status'[r] = "completed" /\ phase'[r] = "none"
        /\ \A q \in Run : q # r => status'[q] = status[q] /\ phase'[q] = phase[q]
                                   /\ resultAt'[q] = resultAt[q]
        /\ \A q \in Run : (status'[q] = "absent") <=> (status[q] = "absent")
        /\ \A q \in Run : status'[q] \in Active \union {"pending"} =>
             q # r /\ status[q] \in Active \union {"pending"}
    BY DEF IInv, TypeOK, RunsSound, Settling, Active
  <1>2. TypeOK'
    <2>1. 0 \in Time
      BY RefreshAssumption DEF Time
    <2>2. Seen(r) \in [Posting -> Time] /\ Observed(r) \in [Posting -> BOOLEAN]
      BY <1>1 DEF IInv, TypeOK, Seen, Observed
    <2>3. \A q, u \in Run :
            {status'[q], status'[u]} \subseteq Active \union {"pending"}
            /\ source'[q] = source'[u] => q = u
      BY <1>1 DEF IInv, TypeOK
    <2> QED
      BY <2>1, <2>2, <2>3 DEF IInv, TypeOK
  <1>3. RunsSound'
    BY <1>1 DEF IInv, RunsSound, InTransaction
  <1>4. ProducersSound' /\ PassSound'
    BY <1>1 DEF IInv, ProducersSound, ProducerSound, InTransaction, IsNext, PassSound, Scheduled
  <1>5. ResultsSound'
    BY <1>1 DEF IInv, ResultsSound
  <1>6. OneScheduledRunPerDay'
    BY <1>1 DEF IInv, OneScheduledRunPerDay, Scheduled, Apart
  <1>7. OpenWasSeen'
    <2> SUFFICES ASSUME NEW q \in Run, status'[q] = "completed", NEW j \in Posting,
                        open'[source[q]][j]
                 PROVE  createdAt[q] <= lastSeen'[source[q]][j]
      BY DEF OpenWasSeen
    <2>1. CASE source[q] # source[r]
      BY <1>1, <2>1 DEF IInv, OpenWasSeen, TypeOK
    <2>2. CASE source[q] = source[r]
      <3>1. /\ lastSeen'[source[q]][j] =
                 IF j \in listing[r] THEN resultAt[r] ELSE lastSeen[source[r]][j]
            /\ \/ j \in listing[r]
               \/ /\ open[source[r]][j]
                  /\ ~(lastSeen[source[r]][j] < createdAt[r])
        BY <1>1, <2>2 DEF IInv, TypeOK, Seen, Observed
      <3>2. CASE j \in listing[r]
        BY <1>1, <2>2, <3>1, <3>2 DEF IInv, ResultsSound
      <3>3. CASE j \notin listing[r] /\ q = r
        BY <1>1, <3>1, <3>3 DEF IInv, TypeOK, Time
      <3>4. CASE j \notin listing[r] /\ q # r
        BY <1>1, <2>2, <3>1, <3>4 DEF IInv, OpenWasSeen
      <3> QED
        BY <3>2, <3>3, <3>4
    <2> QED
      BY <2>1, <2>2
  <1> QED
    BY <1>2, <1>3, <1>4, <1>5, <1>6, <1>7 DEF IInv

------------------------------------------------------------------------------
(* the specification *)

\* Every step keeps the invariant.
LEMMA NextIInv == IInv /\ [Next]_vars => IInv'
  <1> SUFFICES ASSUME IInv, [Next]_vars PROVE IInv'
    OBVIOUS
  <1>1. CASE Tick
    BY <1>1, TickStep
  <1>2. CASE \E p \in Scheduler : ReadBoundary(p) \/ Schedule(p) \/ FindNothing(p)
    BY <1>2, ReadStep, ScheduleStep, FindNothingStep
  <1>3. CASE \E p \in Operator, s \in Source : Refresh(p, s)
    BY <1>3, RefreshStep
  <1>4. CASE \E p \in Producer : ProducerStep(p)
    BY <1>4, LockStep, SkipStep, InsertStep, CommitRequestStep DEF ProducerStep
  <1>5. CASE \E p \in Producer : Abort(p)
    BY <1>5, AbortStep
  <1>6. CASE \E r \in Run : CollectorStep(r) \/ CommitFail(r) \/ LoseCollector(r)
    BY <1>6, CollectorStepKeeps
  <1>7. CASE \E r \in Run : CommitResult(r)
    BY <1>7, CommitResultStep
  <1>8. CASE Detect
    BY <1>8, CollectorStepKeeps, AbortStep DEF Detect, BreakRequest
  <1>9. CASE UNCHANGED vars
    <2> USE <1>9 DEF vars, runVars, jobVars, producerVars, collectVars
    <2>1. TypeOK' /\ OneScheduledRunPerDay' /\ OpenWasSeen'
      BY DEF IInv, TypeOK, OneScheduledRunPerDay, Scheduled, Apart, OpenWasSeen
    <2>2. RunsSound' /\ ProducersSound' /\ PassSound' /\ ResultsSound'
      BY DEF IInv, RunsSound, ProducersSound, ProducerSound, InTransaction, IsNext, PassSound, ResultsSound,
         Scheduled
    <2> QED
      BY <2>1, <2>2 DEF IInv
  <1> QED
    BY <1>1, <1>2, <1>3, <1>4, <1>5, <1>6, <1>7, <1>8, <1>9 DEF Next, Settle

\* IInv is inductive: every reachable state satisfies it.
THEOREM Invariance == Spec => []IInv
  BY InitIInv, NextIInv, PTL DEF Spec

\* The tables and transactions keep their types, and two runs of a source are never
\* active at once (the index one_active_source_run with enqueue, supervisor.py:22-32).
THEOREM TypesCorrect == Spec => []TypeOK
  <1>1. IInv => TypeOK
    BY DEF IInv
  <1> QED
    BY <1>1, Invariance, PTL

\* Between two scheduled runs of a source there is a schedule hour, and schedule_hours
\* have passed, for any number of schedulers and operators and for local days of any
\* length (schedule, scheduler.py:36-49).
THEOREM ScheduledOnceADay == Spec => []OneScheduledRunPerDay
  <1>1. IInv => OneScheduledRunPerDay
    BY DEF IInv
  <1> QED
    BY <1>1, Invariance, PTL

\* What is open has been seen since the request of every completed refresh of its
\* source (run_one, supervisor.py:48-75).
THEOREM OpenSeenSince == Spec => []OpenWasSeen
  <1>1. IInv => OpenWasSeen
    BY DEF IInv
  <1> QED
    BY <1>1, Invariance, PTL

------------------------------------------------------------------------------
(* who awaits whom *)

\* A finite set of numbers that is not empty has a least member ...
LEMMA Least ==
  ASSUME NEW S \in SUBSET Nat, IsFiniteSet(S), S # {}
  PROVE  \E m \in S : \A s \in S : m <= s
  <1> DEFINE Below(s) == {t \in S : t < s}
  <1> DEFINE Sections == {Below(s) : s \in S}
  <1>1. S \subseteq Nat /\ \A s \in S : Below(s) \in SUBSET S
    OBVIOUS
  <1>2. Sections \subseteq FiniteSubsetsOf(S) /\ Sections # {}
    <2> HIDE DEF Below
    <2>1. \A s \in S : Below(s) \in FiniteSubsetsOf(S)
      BY <1>1, FS_Subset DEF FiniteSubsetsOf
    <2> QED
      BY <2>1
  <1>3. PICK A \in Sections : \A B \in Sections : <<B, A>> \notin StrictSubsetOrdering(S)
    <2> HIDE DEF Sections
    <2> QED
      BY <1>2, FS_StrictSubsetOrderingWellFounded, WFMin
  <1>4. PICK m \in S : A = Below(m)
    OBVIOUS
  <1>5. ASSUME NEW s \in S, s < m PROVE FALSE
    <2>1. /\ \A t \in S : t < s => t < m
          /\ ~(s < s)
      BY <1>1, <1>5
    <2>2. Below(s) \subseteq Below(m) /\ s \in Below(m) /\ s \notin Below(s)
      BY <1>5, <2>1
    <2>3. Below(s) \in Sections
      OBVIOUS
    <2> HIDE DEF Below, Sections
    <2> QED
      BY <1>1, <1>3, <1>4, <2>2, <2>3 DEF StrictSubsetOrdering
  <1>6. \A s \in S : m <= s
    BY <1>1, <1>5
  <1> QED
    BY <1>6

\* ... and a greatest one.
LEMMA Greatest ==
  ASSUME NEW S \in SUBSET Nat, IsFiniteSet(S), S # {}
  PROVE  \E m \in S : \A s \in S : s <= m
  <1> DEFINE Past(s) == {t \in S : s < t}
  <1> DEFINE Sections == {Past(s) : s \in S}
  <1>1. S \subseteq Nat /\ \A s \in S : Past(s) \in SUBSET S
    OBVIOUS
  <1>2. Sections \subseteq FiniteSubsetsOf(S) /\ Sections # {}
    <2> HIDE DEF Past
    <2>1. \A s \in S : Past(s) \in FiniteSubsetsOf(S)
      BY <1>1, FS_Subset DEF FiniteSubsetsOf
    <2> QED
      BY <2>1
  <1>3. PICK A \in Sections : \A B \in Sections : <<B, A>> \notin StrictSubsetOrdering(S)
    <2> HIDE DEF Sections
    <2> QED
      BY <1>2, FS_StrictSubsetOrderingWellFounded, WFMin
  <1>4. PICK m \in S : A = Past(m)
    OBVIOUS
  <1>5. ASSUME NEW s \in S, m < s PROVE FALSE
    <2>1. /\ \A t \in S : s < t => m < t
          /\ ~(s < s)
      BY <1>1, <1>5
    <2>2. Past(s) \subseteq Past(m) /\ s \in Past(m) /\ s \notin Past(s)
      BY <1>5, <2>1
    <2>3. Past(s) \in Sections
      OBVIOUS
    <2> HIDE DEF Past, Sections
    <2> QED
      BY <1>1, <1>3, <1>4, <2>2, <2>3 DEF StrictSubsetOrdering
  <1>6. \A s \in S : s <= m
    BY <1>1, <1>5
  <1> QED
    BY <1>6

\* A lock is taken on the next source of a producer that has inserted its earlier
\* ones, kept while it goes on, and given back at the end.
LEMMA ProducerKeepsOrder ==
  ASSUME IInv, LocksOrdered, NEW p \in Producer,
         \/ \E s \in Source : LockSource(p, s) \/ SkipSource(p, s)
         \/ \E s \in Source, r \in Run : InsertRun(p, s, r)
         \/ Close(p)
  PROVE  LocksOrdered'
  <1>0. p # None /\ Source \subseteq Nat
    BY RefreshAssumption DEF Producer
  <1>1. \A u \in Source : lockedBy[u] # None =>
          lockedBy[u] \in Producer /\ step[lockedBy[u]] \in {"enqueue", "insert"}
    BY DEF LocksOrdered, InTransaction, IInv, TypeOK
  <1>2. CASE \E s \in Source : LockSource(p, s)
    <2>1. PICK s \in Source : LockSource(p, s)
      BY <1>2
    <2>2. /\ s \in todo[p] /\ todo' = todo /\ step[p] = "enqueue" /\ step'[p] = "insert"
          /\ \A t \in todo[p] : s <= t
          /\ \A q \in Producer \ {p} : step'[q] = step[q]
          /\ lockedBy'[s] = p
          /\ \A u \in Source \ {s} : lockedBy'[u] = lockedBy[u]
      BY <2>1 DEF LockSource, IsNext, IInv, TypeOK
    <2>3. ASSUME NEW u \in Source, lockedBy'[u] # None,
                 NEW t \in todo[lockedBy'[u]]
          PROVE  u < t \/ (u = t /\ step'[lockedBy'[u]] = "insert")
      <3>1. t \in Source /\ u \in Nat /\ t \in Nat
        BY <1>0, <2>2, <2>3 DEF IInv, TypeOK
      <3>2. CASE u = s
        BY <2>2, <3>1, <3>2
      <3>3. CASE u # s
        <4>1. u < t \/ (u = t /\ step[lockedBy[u]] = "insert")
          BY <2>2, <2>3, <3>3 DEF LocksOrdered
        <4>2. lockedBy'[u] = lockedBy[u] /\ lockedBy[u] \in Producer
          BY <1>1, <2>2, <2>3, <3>3
        <4>3. lockedBy[u] # p => step'[lockedBy[u]] = step[lockedBy[u]]
          BY <2>2, <4>2
        <4> QED
          BY <2>2, <4>1, <4>2, <4>3
      <3> QED
        BY <3>2, <3>3
    <2>4. \A u \in Source : lockedBy'[u] # None => step'[lockedBy'[u]] \in {"enqueue", "insert"}
      BY <1>1, <2>2
    <2> QED
      BY <2>2, <2>3, <2>4 DEF LocksOrdered, InTransaction
  <1>3. CASE \/ \E s \in Source : SkipSource(p, s)
             \/ \E s \in Source, r \in Run : InsertRun(p, s, r)
    <2>1. PICK s \in Source :
            /\ IsNext(p, s) /\ lockedBy' = lockedBy
            /\ todo' = [todo EXCEPT ![p] = @ \ {s}]
            /\ step' = [step EXCEPT ![p] = "enqueue"]
      BY <1>3 DEF SkipSource, InsertRun
    <2>2. /\ todo'[p] = todo[p] \ {s} /\ step'[p] = "enqueue"
          /\ \A q \in Producer \ {p} : todo'[q] = todo[q] /\ step'[q] = step[q]
          /\ s \in todo[p] /\ \A t \in todo[p] : s <= t
      BY <2>1 DEF IsNext, IInv, TypeOK
    <2>3. ASSUME NEW u \in Source, lockedBy[u] # None,
                 NEW t \in todo'[lockedBy[u]]
          PROVE  u < t \/ (u = t /\ step'[lockedBy[u]] = "insert")
      <3>1. lockedBy[u] \in Producer
        BY <2>3 DEF IInv, TypeOK
      <3>2. CASE lockedBy[u] # p
        BY <2>2, <2>3, <3>1, <3>2 DEF LocksOrdered
      <3>3. CASE lockedBy[u] = p
        <4>1. t \in todo[p] /\ t # s /\ s <= t
          BY <2>2, <2>3, <3>3
        <4>2. u \in Nat /\ s \in Nat /\ t \in Nat
          BY <1>0, <4>1 DEF IInv, TypeOK
        <4>3. u <= s
          BY <2>2, <2>3, <3>3, <4>2 DEF LocksOrdered
        <4> QED
          BY <4>1, <4>2, <4>3
      <3> QED
        BY <3>2, <3>3
    <2>4. \A u \in Source : lockedBy[u] # None => step'[lockedBy[u]] \in {"enqueue", "insert"}
      BY <1>1, <2>2
    <2> QED
      BY <2>1, <2>3, <2>4 DEF LocksOrdered, InTransaction
  <1>4. CASE Close(p)
    <2>1. /\ \A u \in Source : lockedBy'[u] # None => lockedBy'[u] = lockedBy[u] /\ lockedBy[u] # p
          /\ \A q \in Producer \ {p} : todo'[q] = todo[q] /\ step'[q] = step[q]
      BY <1>4 DEF Close, Unlocked, IInv, TypeOK
    <2> QED
      BY <2>1 DEF LocksOrdered, InTransaction, IInv, TypeOK
  <1> QED
    BY <1>2, <1>3, <1>4

\* The order of the locks is kept by every step.
LEMMA NextOrdered == IInv /\ LocksOrdered /\ [Next]_vars => LocksOrdered'
  <1> SUFFICES ASSUME IInv, LocksOrdered, [Next]_vars PROVE LocksOrdered'
    OBVIOUS
  <1> USE DEF runVars, jobVars, producerVars, collectVars
  <1>1. CASE UNCHANGED <<lockedBy, step, todo>>
    BY <1>1 DEF LocksOrdered, InTransaction
  <1>2. CASE \E p \in Producer :
               /\ step[p] \in {"idle", "due"} /\ UNCHANGED lockedBy
               /\ \E T \in SUBSET Source : todo' \in {todo, [todo EXCEPT ![p] = T]}
               /\ \E st \in {"due", "enqueue"} : step' = [step EXCEPT ![p] = st]
    <2>1. PICK p \in Producer :
            /\ step[p] \in {"idle", "due"} /\ UNCHANGED lockedBy
            /\ \A q \in Producer \ {p} : todo'[q] = todo[q] /\ step'[q] = step[q]
      BY <1>2 DEF IInv, TypeOK
    <2>2. \A s \in Source : lockedBy[s] # None => lockedBy[s] \in Producer \ {p}
      BY <2>1 DEF LocksOrdered, InTransaction, IInv, TypeOK
    <2> QED
      BY <2>1, <2>2 DEF LocksOrdered, InTransaction
  <1>3. CASE \E p \in Producer : ProducerStep(p) \/ Abort(p) \/ FindNothing(p)
    BY <1>3, ProducerKeepsOrder DEF ProducerStep, CommitRequest, Abort, FindNothing
  <1>4. CASE Tick \/ UNCHANGED vars
    BY <1>1, <1>4 DEF Tick, vars
  <1>5. CASE \E p \in Scheduler : ReadBoundary(p) \/ Schedule(p) \/ FindNothing(p)
    <2>1. PICK p \in Scheduler : ReadBoundary(p) \/ Schedule(p) \/ FindNothing(p)
      BY <1>5
    <2>2. p \in Producer
      BY DEF Producer
    <2>3. CASE ReadBoundary(p)
      BY <1>2, <2>2, <2>3 DEF ReadBoundary
    <2>4. CASE Schedule(p)
      BY <1>2, <2>2, <2>4 DEF Schedule
    <2> QED
      BY <1>3, <2>1, <2>2, <2>3, <2>4
  <1>6. CASE \E p \in Operator, s \in Source : Refresh(p, s)
    <2>1. PICK p \in Operator, s \in Source : Refresh(p, s)
      BY <1>6
    <2>2. p \in Producer /\ {s} \in SUBSET Source
      BY DEF Producer
    <2> QED
      BY <1>2, <2>1, <2>2 DEF Refresh
  <1>7. CASE \E r \in Run : CollectorStep(r) \/ Settle(r) \/ LoseCollector(r)
    BY <1>1, <1>7 DEF CollectorStep, Settle, LoseCollector, Collect, BeginResult, UpdateRun,
       BeginFail, GiveUp, CommitResult, CommitFail, Move, Drop
  <1>8. CASE Detect
    <2>1. CASE \E p \in Producer, r \in Run : BreakResult(p, r)
      BY <1>1, <2>1 DEF BreakResult, Drop, Move
    <2> QED
      BY <1>3, <1>8, <2>1 DEF Detect, BreakRequest
  <1> QED
    BY <1>3, <1>4, <1>5, <1>6, <1>7, <1>8 DEF Next

\* Of the open transactions one goes on: at an insert a producer goes on or is in a
\* deadlock of two.  If all are before a lock, then the one that holds the
\* greatest source, or any one when none is held, has a next source that nobody has
\* locked: it takes it, or a result shares it that can commit.
LEMMA OneGoesOn == IInv /\ LocksOrdered => SomeoneGoesOn
  <1> SUFFICES ASSUME IInv, LocksOrdered,
                      (\E p \in Producer : InTransaction(p))
                        \/ (\E r \in Run : phase[r] \in Settling),
                      \A p \in Producer : ~CanGoOn(p),
                      \A p \in Producer, r \in Run : ~Deadlocked(p, r)
               PROVE  \E r \in Run : CanSettle(r)
    BY DEF SomeoneGoesOn
  <1>1. \A p \in Producer : step[p] # "insert"
    <2> SUFFICES ASSUME NEW p \in Producer, step[p] = "insert" PROVE FALSE
      OBVIOUS
    <2>1. PICK s \in Source : IsNext(p, s)
      BY DEF IInv, ProducersSound, ProducerSound
    <2>2. PICK r \in Of(s) : status[r] \in Active /\ phase[r] \in Settling
      BY <2>1 DEF CanGoOn
    <2>3. ~Cooling(p, s)
      BY <2>1 DEF CanGoOn
    <2> QED
      BY <2>1, <2>2, <2>3 DEF Deadlocked, Of
  <1>2. ASSUME NEW p \in Producer, InTransaction(p)
        PROVE  \E s \in todo[p] : s \in Source /\ IsNext(p, s)
    <2>1. step[p] = "enqueue" /\ todo[p] # {}
      BY <1>1, <1>2 DEF InTransaction, CanGoOn
    <2>2. todo[p] \in SUBSET Nat /\ IsFiniteSet(todo[p]) /\ todo[p] \subseteq Source
      BY RefreshAssumption, FS_Subset DEF IInv, TypeOK
    <2>3. \E s \in todo[p] : \A t \in todo[p] : s <= t
      BY <2>1, <2>2, Least
    <2> QED
      BY <2>2, <2>3 DEF IsNext
  <1>3. ASSUME NEW p \in Producer, InTransaction(p),
               NEW s \in Source, IsNext(p, s), lockedBy[s] = None
        PROVE  \E r \in Run : CanSettle(r)
    <2>1. Shared(s)
      BY <1>1, <1>3 DEF InTransaction, CanGoOn
    <2> QED
      BY <1>3, <2>1 DEF Shared, Of, CanSettle, Settling
  <1> DEFINE Held == {s \in Source : lockedBy[s] # None}
  <1>4. CASE Held = {}
    <2>1. CASE \E p \in Producer : InTransaction(p)
      BY <1>2, <1>3, <1>4, <2>1
    <2>2. CASE \E r \in Run : phase[r] \in Settling
      <3>1. PICK r \in Run : phase[r] \in Settling
        BY <2>2
      <3>2. source[r] \in Source
        BY <3>1 DEF IInv, RunsSound, Settling
      <3> QED
        BY <1>4, <3>1, <3>2 DEF CanSettle
    <2> QED
      BY <2>1, <2>2
  <1>5. CASE Held # {}
    <2>1. Held \in SUBSET Nat /\ IsFiniteSet(Held)
      BY RefreshAssumption, FS_Subset
    <2>2. PICK m \in Held : \A s \in Held : s <= m
      <3> HIDE DEF Held
      <3> QED
        BY <1>5, <2>1, Greatest
    <2>3. lockedBy[m] \in Producer /\ InTransaction(lockedBy[m])
      BY <2>2 DEF LocksOrdered, IInv, TypeOK
    <2>4. PICK s \in todo[lockedBy[m]] : s \in Source /\ IsNext(lockedBy[m], s)
      BY <1>2, <2>3
    <2>5. m < s
      BY <1>1, <2>2, <2>3, <2>4 DEF LocksOrdered
    <2>6. s \notin Held
      BY <2>1, <2>2, <2>4, <2>5, RefreshAssumption
    <2> QED
      BY <1>3, <2>3, <2>4, <2>6
  <1> QED
    BY <1>4, <1>5

\* Locks are taken in the order of the sources, whatever requests, passes, errors
\* and deadlocks there are (enqueue, supervisor.py:22-32, and schedule).
THEOREM OrderOfLocks == Spec => []LocksOrdered
  <1>1. Init => LocksOrdered
    BY DEF Init, LocksOrdered
  <1> QED
    BY <1>1, NextOrdered, Invariance, PTL DEF Spec

\* The requests and results that are open never all await each other, but for the
\* deadlocks of two that PostgreSQL sees and breaks: the safety half of NoStandstill,
\* for any number of sources, schedulers, operators and runs.
THEOREM NoneAwaitAll == Spec => []SomeoneGoesOn
  BY OneGoesOn, OrderOfLocks, Invariance, PTL
==============================================================================
