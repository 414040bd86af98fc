------------------------ MODULE CollectionQueueProofs ------------------------
(***************************************************************************)
(* Proofs about CollectionQueue for any number of workers, sources and     *)
(* runs, any lease, run budget, attempt limit and cooldowns.               *)
(*                                                                         *)
(* The inductive invariant IInv is proved conjunct by conjunct, each lemma *)
(* with one step per action that touches the variables of its conjunct.    *)
(* The safety properties, and the refinement of RunLedger, follow from it. *)
(***************************************************************************)
EXTENDS CollectionQueue, TLAPS

------------------------------------------------------------------------------
(* Values and helpers *)

\* The scan's LIMIT only drops candidates.
LEMMA OldestSubset == ASSUME NEW S, NEW n, NEW T \in Oldest(S, n) PROVE T \subseteq S
  BY DEF Oldest

\* The initial and fresh values are in their types.
LEMMA Values ==
  /\ 0 \in Attempt /\ 0 \in Age /\ 0 \in LeaseTime /\ 0 \in RunOrNone
  /\ Lease \in LeaseTime
  /\ Run \subseteq RunOrNone
  /\ \A r \in Run : r # 0
  BY QueueAssumption DEF Attempt, Age, LeaseTime, RunOrNone, Run

\* A run is as old as the wait of the transaction it appears with.
LEMMA Waits ==
  ASSUME NEW s \in Source, NEW waited \in 0..MaxWait PROVE waited \in Age
  <1>1. /\ ProviderOf[s] \in Provider /\ Cooldown[ProviderOf[s]] \in Nat
        /\ Cooldown[ProviderOf[s]] + MaxWait <= AgeCap
    BY QueueAssumption
  <1> QED
    BY <1>1, QueueAssumption DEF Age

\* A tick keeps ages in their range.
LEMMA AgeGrows ==
  ASSUME NEW a \in Age
  PROVE  (IF a < AgeCap THEN a + 1 ELSE AgeCap) \in Age
  BY QueueAssumption DEF Age

\* A tick keeps the order of two ages, up to the longest wait.
LEMMA AgesKeepOrder ==
  ASSUME NEW a \in Age, NEW b \in Age, a + MaxWait >= b
  PROVE  (IF a < AgeCap THEN a + 1 ELSE AgeCap) + MaxWait
         >= (IF b < AgeCap THEN b + 1 ELSE AgeCap)
  BY QueueAssumption DEF Age

\* A cooldown that is over stays over.
LEMMA AgesPassCooldowns ==
  ASSUME NEW a \in Age, NEW c \in 0..AgeCap, a >= c
  PROVE  (IF a < AgeCap THEN a + 1 ELSE AgeCap) >= c
  BY QueueAssumption DEF Age

\* A tick keeps what is left of a lease in its range.
LEMMA LeaseShrinks ==
  ASSUME NEW l \in LeaseTime
  PROVE  (IF l > 0 THEN l - 1 ELSE 0) \in LeaseTime
  BY QueueAssumption DEF LeaseTime

\* A claim under the attempt limit counts within it.
LEMMA AttemptGrows ==
  ASSUME NEW a \in Attempt, a < MaxAttempts
  PROVE  a + 1 \in Attempt
  BY QueueAssumption DEF Attempt

\* Every run in the table belongs to a provider.
LEMMA Reached ==
  ASSUME TypeOK, RowsSound, NEW r \in Run, status[r] # "absent"
  PROVE  ProviderOfRun(r) \in Provider
  BY QueueAssumption DEF RowsSound, ProviderOfRun

\* The candidate in hand is a run.
LEMMA InHand ==
  ASSUME TypeOK, WorkersSound, NEW w \in Worker, pc[w] = "gated"
  PROVE  mine[w] \in Run
  BY DEF TypeOK, WorkersSound

------------------------------------------------------------------------------
(* Which steps touch what *)

\* What most invariants of the tables depend on.
rowVars == <<status, source, attempts, token, lease, createdAge, startedAge,
             catalog>>

\* What the invariants of the workers depend on.
processVars == <<status, source, attempts, token, lease, startedAge,
                 gate, pc, todo, doomed, mine, mytoken>>

\* The steps of run_one that only move the worker to its next place.
Moves(w) ==
  FetchOk(w) \/ FetchError(w) \/ BeginResult(w) \/ ResultError(w)
  \/ FailRefused(w)

\* The steps that change the tables.
LEMMA TableSteps ==
  ASSUME [Next]_vars
  PROVE  \/ \E s \in Source, r \in Run, waited \in 0..MaxWait : Enqueue(s, r, waited)
         \/ \E w \in Worker : Take(w) \/ FindNothing(w) \/ Renew(w)
                              \/ Commit(w) \/ MarkFailed(w)
         \/ Tick
         \/ UNCHANGED rowVars
  BY DEF rowVars, Next, ClaimStep, RunStep, vars, tableVars, workerVars,
         SetEnabled, Scan, SkipBusy, AcquireGate, SkipGone, SkipDisabled, Skip,
             StopBeating,
         FetchOk, FetchError, BeginResult, ResultError, FailRefused, Leave,
         Crash, Reap, DropGate, Go

\* The steps that change what a worker holds, or that it depends on.
LEMMA ProcessSteps ==
  ASSUME [Next]_vars
  PROVE  \/ \E s \in Source, r \in Run, waited \in 0..MaxWait : Enqueue(s, r, waited)
         \/ \E w \in Worker : Scan(w) \/ SkipBusy(w) \/ AcquireGate(w)
                              \/ SkipGone(w) \/ SkipDisabled(w)
         \/ \E w \in Worker : Take(w) \/ FindNothing(w) \/ Renew(w)
                              \/ Commit(w) \/ MarkFailed(w) \/ Moves(w)
                              \/ Leave(w) \/ Reap(w) \/ DropGate(w)
         \/ Tick
         \/ UNCHANGED processVars
  BY DEF processVars, Next, ClaimStep, RunStep, vars, tableVars,
         workerVars, SetEnabled, StopBeating, Crash, Moves

\* Where those steps lead, and that they change nothing else.
LEMMA MovesEffect ==
  ASSUME NEW w \in Worker, Moves(w)
  PROVE  /\ pc[w] \in Beating
         /\ \/ pc' = [pc EXCEPT ![w] = "leaving"]
            \/ pc' = [pc EXCEPT ![w] = "failing"]
            \/ pc' = [pc EXCEPT ![w] = "fetched"]
            \/ /\ pc' = [pc EXCEPT ![w] = "writing"]
               /\ BeginResult(w) /\ HoldsLease(w) /\ ~RowLocked(mine[w])
         /\ UNCHANGED <<status, source, attempts, token, lease, startedAge,
                        gate, todo, doomed, mine, mytoken>>
  BY DEF Moves, FetchOk, FetchError, BeginResult, ResultError, FailRefused,
         Go, tableVars, workerVars, Beating

------------------------------------------------------------------------------
(* The invariant holds initially and is preserved *)

\* An empty queue satisfies the invariant.
LEMMA InitIInv == Init => IInv
  <1> SUFFICES ASSUME Init PROVE IInv
    OBVIOUS
  <1>1. TypeOK
    BY Values DEF Init, TypeOK, Active, Status, Place
  <1>2. RowsSound /\ OneActivePerSource /\ LeaseBounded
    BY Values DEF Init, RowsSound, OneActivePerSource, LeaseBounded, Active
  <1>3. WorkersSound /\ AttemptsOwned /\ WriterHolds /\ GateHeld
    BY DEF Init, WorkersSound, AttemptsOwned, WriterHolds, GateHeld, Claimed,
           Beating
  <1>4. LocksExclusive
    BY DEF Init, LocksExclusive, Locks
  <1>5. CatalogBehind /\ FeedHistory
    BY QueueAssumption DEF Init, CatalogBehind, FeedHistory, Run
  <1> QED
    BY <1>1, <1>2, <1>3, <1>4, <1>5 DEF IInv

\* Every step keeps the types; attempts stay bounded by the guards of claim.
LEMMA TypeStep == TypeOK /\ RowsSound /\ WorkersSound /\ [Next]_vars => TypeOK'
  <1> SUFFICES ASSUME TypeOK, RowsSound, WorkersSound, [Next]_vars PROVE TypeOK'
    OBVIOUS
  <1> USE Values DEF TypeOK, tableVars, workerVars, Active, Beating, Claimed,
      Status, Place
  <1>1. ASSUME NEW s \in Source, SetEnabled(s) PROVE TypeOK'
    BY <1>1 DEF SetEnabled
  <1>2. ASSUME NEW s \in Source, NEW r \in Run, NEW waited \in 0..MaxWait,
               Enqueue(s, r, waited)
        PROVE TypeOK'
    BY <1>2, Waits DEF Enqueue
  <1>3. ASSUME NEW w \in Worker, Scan(w) PROVE TypeOK'
    <2>1. PICK candidates \in Oldest({r \in Run : Claimable(r)}, ScanLimit) :
            todo' = [todo EXCEPT ![w] = candidates]
      BY <1>3 DEF Scan
    <2>2. candidates \subseteq Run
      BY OldestSubset
    <2> QED
      BY <1>3, <2>1, <2>2 DEF Scan, Spent
  <1>4. ASSUME NEW w \in Worker, SkipBusy(w) PROVE TypeOK'
    BY <1>4 DEF SkipBusy
  <1>5. ASSUME NEW w \in Worker, AcquireGate(w) PROVE TypeOK'
    <2>1. PICK r \in todo[w] :
            /\ gate' = [gate EXCEPT ![ProviderOfRun(r)] = w]
            /\ mine' = [mine EXCEPT ![w] = r]
      BY <1>5 DEF AcquireGate
    <2>2. r \in RunOrNone
      BY <2>1
    <2> QED
      BY <1>5, <2>1, <2>2 DEF AcquireGate
  <1>6. ASSUME NEW w \in Worker, SkipGone(w) PROVE TypeOK'
    BY <1>6 DEF SkipGone, Skip, Released
  <1>7. ASSUME NEW w \in Worker, SkipDisabled(w) PROVE TypeOK'
    <2>1. mine[w] \in Run
      BY <1>7, InHand DEF SkipDisabled
    <2> QED
      BY <1>7, <2>1 DEF SkipDisabled, Skip, Released
  <1>8. ASSUME NEW w \in Worker, Take(w) PROVE TypeOK'
    <2>1. ASSUME NEW r \in Run, Claimable(r) PROVE attempts[r] + 1 \in Attempt
      <3>1. attempts[r] < MaxAttempts
        BY <2>1, QueueAssumption DEF Claimable, RowsSound
      <3> QED
        BY <3>1, AttemptGrows
    <2> QED
      <3>1. mine[w] \in Run
        BY <1>8, InHand DEF Take
      <3> QED
        BY <1>8, <2>1, <3>1 DEF Take
  <1>9. ASSUME NEW w \in Worker, FindNothing(w) PROVE TypeOK'
    BY <1>9 DEF FindNothing
  <1>10. ASSUME NEW w \in Worker, Renew(w) PROVE TypeOK'
    BY <1>10 DEF Renew
  <1>11. ASSUME NEW w \in Worker, StopBeating(w) PROVE TypeOK'
    BY <1>11 DEF StopBeating
  <1>12. ASSUME NEW w \in Worker, FetchOk(w) \/ FetchError(w)
                \/ BeginResult(w) \/ ResultError(w) \/ FailRefused(w)
         PROVE TypeOK'
    BY <1>12 DEF FetchOk, FetchError, BeginResult, ResultError, FailRefused, Go
  <1>13. ASSUME NEW w \in Worker, Commit(w) PROVE TypeOK'
    BY <1>13 DEF Commit, WorkersSound
  <1>14. ASSUME NEW w \in Worker, MarkFailed(w) PROVE TypeOK'
    BY <1>14 DEF MarkFailed
  <1>15. ASSUME NEW w \in Worker, Leave(w) PROVE TypeOK'
    BY <1>15 DEF Leave, Released
  <1>16. ASSUME NEW w \in Worker, Crash(w) PROVE TypeOK'
    BY <1>16 DEF Crash
  <1>17. ASSUME NEW w \in Worker, Reap(w) PROVE TypeOK'
    BY <1>17 DEF Reap, Released
  <1>18. ASSUME NEW w \in Worker, DropGate(w) PROVE TypeOK'
    BY <1>18 DEF DropGate, Released
  <1>19. ASSUME Tick PROVE TypeOK'
    BY <1>19, AgeGrows, LeaseShrinks DEF Tick, Older
  <1>20. CASE UNCHANGED vars
    BY <1>20 DEF vars
  <1> QED
    BY <1>1, <1>2, <1>3, <1>4, <1>5, <1>6, <1>7, <1>8, <1>9, <1>10, <1>11,
       <1>12, <1>13, <1>14, <1>15, <1>16, <1>17, <1>18, <1>19, <1>20
    DEF Next, ClaimStep, RunStep

\* Every step keeps the rows sound.
LEMMA RowsStep ==
  ASSUME TypeOK, RowsSound, WorkersSound, [Next]_vars
  PROVE  RowsSound'
  <1> USE DEF TypeOK, RowsSound, Active
  <1>1. ASSUME NEW s \in Source, NEW r \in Run, NEW waited \in 0..MaxWait,
               Enqueue(s, r, waited)
        PROVE RowsSound'
    BY <1>1 DEF Enqueue
  <1>2. ASSUME NEW w \in Worker, Take(w) PROVE RowsSound'
    BY <1>2 DEF Take, Claimable, Expired, WorkersSound
  <1>3. ASSUME NEW w \in Worker, FindNothing(w) PROVE RowsSound'
    BY <1>3 DEF FindNothing, WorkersSound
  <1>4. ASSUME NEW w \in Worker, Renew(w) PROVE RowsSound'
    BY <1>4 DEF Renew, HoldsLease
  <1>5. ASSUME NEW w \in Worker, Commit(w) PROVE RowsSound'
    BY <1>5 DEF Commit, WorkersSound, Claimed, Beating
  <1>6. ASSUME NEW w \in Worker, MarkFailed(w) PROVE RowsSound'
    BY <1>6 DEF MarkFailed, WorkersSound, Claimed, Beating
  <1>7. ASSUME Tick PROVE RowsSound'
    BY <1>7 DEF Tick
  <1>8. CASE UNCHANGED rowVars
    BY <1>8 DEF rowVars
  <1> QED
    BY <1>1, <1>2, <1>3, <1>4, <1>5, <1>6, <1>7, <1>8, TableSteps

\* Only enqueue makes a run active, and it looks at the unique index first.
LEMMA OneActiveStep ==
  ASSUME TypeOK, OneActivePerSource, WorkersSound, [Next]_vars
  PROVE  OneActivePerSource'
  <1> USE DEF TypeOK, OneActivePerSource, Active
  <1>1. ASSUME NEW s \in Source, NEW r \in Run, NEW waited \in 0..MaxWait,
               Enqueue(s, r, waited)
        PROVE OneActivePerSource'
    BY <1>1 DEF Enqueue
  <1>2. ASSUME NEW w \in Worker, Take(w) PROVE OneActivePerSource'
    BY <1>2 DEF Take, Claimable, Expired
  <1>3. ASSUME NEW w \in Worker, FindNothing(w) PROVE OneActivePerSource'
    BY <1>3 DEF FindNothing
  <1>4. ASSUME NEW w \in Worker, Renew(w) PROVE OneActivePerSource'
    BY <1>4 DEF Renew
  <1>5. ASSUME NEW w \in Worker, Commit(w) PROVE OneActivePerSource'
    BY <1>5 DEF Commit
  <1>6. ASSUME NEW w \in Worker, MarkFailed(w) PROVE OneActivePerSource'
    BY <1>6 DEF MarkFailed
  <1>7. ASSUME Tick PROVE OneActivePerSource'
    BY <1>7 DEF Tick
  <1>8. CASE UNCHANGED rowVars
    BY <1>8 DEF rowVars
  <1> QED
    BY <1>1, <1>2, <1>3, <1>4, <1>5, <1>6, <1>7, <1>8, TableSteps

\* Leases are set by claim and renewed within MaxRun only.
LEMMA LeaseStep ==
  ASSUME TypeOK, RowsSound, WorkersSound, LeaseBounded, [Next]_vars
  PROVE  LeaseBounded'
  <1> USE DEF TypeOK, LeaseBounded
  <1>1. ASSUME NEW s \in Source, NEW r \in Run, NEW waited \in 0..MaxWait,
               Enqueue(s, r, waited)
        PROVE LeaseBounded'
    BY <1>1 DEF Enqueue
  <1>2. ASSUME NEW w \in Worker, Take(w) PROVE LeaseBounded'
    BY <1>2, QueueAssumption DEF Take
  <1>3. ASSUME NEW w \in Worker, FindNothing(w) PROVE LeaseBounded'
    BY <1>3 DEF FindNothing
  <1>4. ASSUME NEW w \in Worker, Renew(w) PROVE LeaseBounded'
    <2>1. mine[w] \in Run /\ startedAge[mine[w]] < MaxRun
      BY <1>4 DEF Renew, HoldsLease, WorkersSound, Claimed
    <2>2. startedAge[mine[w]] + Lease < MaxRun + Lease
      BY <2>1, QueueAssumption DEF Age
    <2> QED
      BY <1>4, <2>1, <2>2 DEF Renew
  <1>5. ASSUME NEW w \in Worker, Commit(w) PROVE LeaseBounded'
    BY <1>5 DEF Commit
  <1>6. ASSUME NEW w \in Worker, MarkFailed(w) PROVE LeaseBounded'
    BY <1>6 DEF MarkFailed
  <1>7. ASSUME Tick PROVE LeaseBounded'
    <2> SUFFICES ASSUME NEW r \in Run, status[r] = "running", lease'[r] > 0
                 PROVE  startedAge'[r] + lease'[r] < MaxRun + Lease
      BY <1>7 DEF Tick
    <2>1. /\ lease[r] \in Nat /\ startedAge[r] \in Nat
          /\ lease'[r] = IF lease[r] > 0 THEN lease[r] - 1 ELSE 0
          /\ startedAge'[r] =
                IF startedAge[r] < AgeCap THEN startedAge[r] + 1 ELSE AgeCap
      BY <1>7, QueueAssumption DEF Tick, Older, LeaseTime, Age
    <2>2. startedAge[r] + lease[r] < MaxRun + Lease
      BY <2>1
    <2> QED
      BY <2>1, <2>2, QueueAssumption
  <1>8. CASE UNCHANGED rowVars
    BY <1>8 DEF rowVars
  <1> QED
    BY <1>1, <1>2, <1>3, <1>4, <1>5, <1>6, <1>7, <1>8, TableSteps

\* A result is stored by the one active run of its source.
LEMMA CatalogStep ==
  ASSUME TypeOK, RowsSound, OneActivePerSource, WorkersSound, WriterHolds,
         CatalogBehind, [Next]_vars
  PROVE  CatalogBehind'
  <1> USE DEF TypeOK, CatalogBehind, Active
  <1>1. ASSUME NEW s \in Source, NEW r \in Run, NEW waited \in 0..MaxWait,
               Enqueue(s, r, waited)
        PROVE CatalogBehind'
    BY <1>1 DEF Enqueue
  <1>2. ASSUME NEW w \in Worker, Take(w) PROVE CatalogBehind'
    BY <1>2 DEF Take, Claimable, Expired, WorkersSound
  <1>3. ASSUME NEW w \in Worker, FindNothing(w) PROVE CatalogBehind'
    BY <1>3 DEF FindNothing, WorkersSound
  <1>4. ASSUME NEW w \in Worker, Renew(w) PROVE CatalogBehind'
    BY <1>4 DEF Renew
  <1>5. ASSUME NEW w \in Worker, Commit(w) PROVE CatalogBehind'
    <2>1. /\ mine[w] \in Run /\ status[mine[w]] = "running"
          /\ source[mine[w]] \in Source
      BY <1>5 DEF Commit, WorkersSound, WriterHolds, RowsSound
    <2> SUFFICES ASSUME NEW s \in Source, NEW r \in Run,
                        \/ status'[r] = "absent"
                        \/ status'[r] \in Active /\ source[r] = s
                 PROVE  catalog'[s][1] < r
      BY <1>5 DEF Commit
    <2>2. r # mine[w] /\ status[r] = status'[r]
      BY <1>5, <2>1 DEF Commit
    <2>3. CASE s # source[mine[w]]
      BY <1>5, <2>1, <2>2, <2>3 DEF Commit
    <2>4. CASE s = source[mine[w]]
      <3>1. catalog'[s][1] = mine[w]
        BY <1>5, <2>1, <2>4 DEF Commit
      <3>2. status[r] = "absent"
        BY <2>1, <2>2, <2>4 DEF OneActivePerSource
      <3>3. ~(r < mine[w])
        BY <2>1, <3>2 DEF RowsSound
      <3> QED
        BY <2>1, <2>2, <3>1, <3>3, QueueAssumption DEF Run
    <2> QED
      BY <2>3, <2>4
  <1>6. ASSUME NEW w \in Worker, MarkFailed(w) PROVE CatalogBehind'
    BY <1>6 DEF MarkFailed, HoldsLease
  <1>7. ASSUME Tick PROVE CatalogBehind'
    BY <1>7 DEF Tick
  <1>8. CASE UNCHANGED rowVars
    BY <1>8 DEF rowVars
  <1> QED
    BY <1>1, <1>2, <1>3, <1>4, <1>5, <1>6, <1>7, <1>8, TableSteps

\* Enqueue waits for the cooldown of all earlier runs and for the active one.
LEMMA HistoryStep ==
  ASSUME TypeOK, RowsSound, WorkersSound, WriterHolds, FeedHistory, [Next]_vars
  PROVE  FeedHistory'
  <1> USE DEF TypeOK, FeedHistory, Active, ProviderOfRun
  <1>1. ASSUME NEW s \in Source, NEW r \in Run, NEW waited \in 0..MaxWait,
               Enqueue(s, r, waited)
        PROVE  FeedHistory'
    <2> SUFFICES ASSUME NEW q \in Run, NEW x \in Run,
                        q < x, source'[q] = source'[x], status'[x] # "absent"
                 PROVE  /\ status'[q] \notin Active
                        /\ Cooldown[ProviderOf[source'[q]]] > 0 =>
                             createdAge'[q] >= Cooldown[ProviderOf[source'[q]]]
                        /\ startedAge'[q] + MaxWait >= createdAge'[x]
      OBVIOUS
    <2>1. q # r
      BY <1>1, QueueAssumption DEF Enqueue, RowsSound
    <2>2. CASE x = r
      <3> DEFINE c == Cooldown[ProviderOf[s]]
      <3>1. source[q] = s /\ ProviderOf[source'[q]] = ProviderOf[s]
        BY <1>1, <2>1, <2>2 DEF Enqueue
      <3>2. c \in Nat /\ createdAge[q] \in Nat /\ startedAge[q] \in Nat
        BY QueueAssumption DEF Age
      <3>3. status[q] \notin Active /\ (c > 0 => createdAge[q] >= c + waited)
        BY <1>1, <3>1 DEF Enqueue
      <3>4. createdAge'[q] = createdAge[q] /\ createdAge'[x] = waited
            /\ startedAge'[q] = startedAge[q] /\ status'[q] = status[q]
        BY <1>1, <2>1, <2>2 DEF Enqueue
      <3>5. c > 0 => createdAge[q] >= c
        BY <3>2, <3>3
      <3>6. startedAge[q] + MaxWait >= waited
        BY <3>2, QueueAssumption
      <3> QED
        BY <3>1, <3>3, <3>4, <3>5, <3>6
    <2>3. CASE x # r
      BY <1>1, <2>1, <2>3 DEF Enqueue
    <2> QED
      BY <2>2, <2>3
  <1>2. ASSUME NEW w \in Worker, Take(w) PROVE FeedHistory'
    <2> DEFINE r == mine[w]
    <2>1. /\ r \in Run /\ status[r] \in Active
          /\ status' = [q \in Run |-> IF q = r THEN "running"
                                      ELSE IF q \in doomed[w] THEN "failed"
                                      ELSE status[q]]
          /\ startedAge' = [startedAge EXCEPT ![r] = 0]
      BY <1>2, InHand DEF Take, Claimable, Expired
    <2> HIDE DEF r
    <2>2. UNCHANGED <<source, createdAge>>
      BY <1>2 DEF Take
    <2> SUFFICES ASSUME NEW q \in Run, NEW x \in Run,
                        q < x, source'[q] = source'[x], status'[x] # "absent"
                 PROVE  /\ status'[q] \notin Active
                        /\ Cooldown[ProviderOf[source'[q]]] > 0 =>
                             createdAge'[q] >= Cooldown[ProviderOf[source'[q]]]
                        /\ startedAge'[q] + MaxWait >= createdAge'[x]
      OBVIOUS
    <2>3. status[x] # "absent"
      BY <2>1 DEF WorkersSound
    <2>4. q # r
      BY <2>1, <2>2, <2>3
    <2> QED
      BY <2>1, <2>2, <2>3, <2>4
  <1>3. ASSUME NEW w \in Worker, FindNothing(w) PROVE FeedHistory'
    BY <1>3 DEF FindNothing, WorkersSound
  <1>4. ASSUME NEW w \in Worker, Renew(w) PROVE FeedHistory'
    BY <1>4 DEF Renew
  <1>5. ASSUME NEW w \in Worker, Commit(w) PROVE FeedHistory'
    BY <1>5 DEF Commit, WriterHolds
  <1>6. ASSUME NEW w \in Worker, MarkFailed(w) PROVE FeedHistory'
    BY <1>6 DEF MarkFailed, HoldsLease
  <1>7. ASSUME Tick PROVE FeedHistory'
    <2> SUFFICES ASSUME NEW q \in Run, NEW r \in Run,
                        q < r, source[q] = source[r], status[r] # "absent"
                 PROVE  /\ Cooldown[ProviderOf[source[q]]] > 0 =>
                             createdAge'[q] >= Cooldown[ProviderOf[source[q]]]
                        /\ startedAge'[q] + MaxWait >= createdAge'[r]
      BY <1>7 DEF Tick
    <2>1. Cooldown[ProviderOf[source[q]]] \in 0..AgeCap
      BY QueueAssumption DEF RowsSound
    <2> QED
      BY <1>7, <2>1, AgesKeepOrder, AgesPassCooldowns DEF Tick, Older
  <1>8. CASE UNCHANGED rowVars
    BY <1>8 DEF rowVars
  <1> QED
    BY <1>1, <1>2, <1>3, <1>4, <1>5, <1>6, <1>7, <1>8, TableSteps

\* Runs never vanish and attempts never count down under a worker.
LEMMA WorkersStep ==
  ASSUME TypeOK, RowsSound, WorkersSound, LocksExclusive, [Next]_vars
  PROVE  WorkersSound'
  <1> USE QueueAssumption DEF TypeOK, WorkersSound, Active, Beating, Claimed,
      tableVars, workerVars
  <1>1. ASSUME NEW s \in Source, NEW r \in Run, NEW waited \in 0..MaxWait,
               Enqueue(s, r, waited)
        PROVE WorkersSound'
    BY <1>1 DEF Enqueue
  <1>2. ASSUME NEW w \in Worker, Scan(w) PROVE WorkersSound'
    <2>1. \A r \in Spent : status[r] \in Active /\ lease[r] = 0
      BY DEF Spent, Expired
    <2>2. \A candidates \in Oldest({r \in Run : Claimable(r)}, ScanLimit) :
            candidates \subseteq Run /\ \A r \in candidates : status[r] # "absent"
      BY OldestSubset DEF Claimable, Expired
    <2> QED
      BY <1>2, <2>1, <2>2 DEF Scan
  <1>3. ASSUME NEW w \in Worker, SkipBusy(w) PROVE WorkersSound'
    BY <1>3 DEF SkipBusy
  <1>4. ASSUME NEW w \in Worker, AcquireGate(w) PROVE WorkersSound'
    BY <1>4 DEF AcquireGate
  <1>5. ASSUME NEW w \in Worker, SkipGone(w) PROVE WorkersSound'
    BY <1>5 DEF SkipGone, Skip
  <1>6. ASSUME NEW w \in Worker, SkipDisabled(w) PROVE WorkersSound'
    BY <1>6 DEF SkipDisabled, Skip, Claimable, Expired, RowsSound
  <1>7. ASSUME NEW w \in Worker, Take(w) PROVE WorkersSound'
    <2> DEFINE r == mine[w]
    <2>1. /\ r \in Run /\ Claimable(r) /\ ~RowLocked(r)
          /\ status' = [q \in Run |-> IF q = r THEN "running"
                                      ELSE IF q \in doomed[w] THEN "failed"
                                      ELSE status[q]]
          /\ attempts' = [attempts EXCEPT ![r] = @ + 1]
          /\ lease' = [lease EXCEPT ![r] = Lease]
          /\ mine[w] = r /\ mine' = mine
          /\ mytoken' = [mytoken EXCEPT ![w] = attempts[r] + 1]
      BY <1>7, InHand DEF Take
    <2> HIDE DEF r
    <2>2. /\ pc' = [pc EXCEPT ![w] = "collecting"]
          /\ todo' = [todo EXCEPT ![w] = {}]
          /\ doomed' = [doomed EXCEPT ![w] = {}]
      BY <1>7 DEF Take
    <2>3. \A q \in Run : attempts[q] \in Nat /\ attempts'[q] >= attempts[q]
      BY <2>1 DEF Attempt
    <2>4. \A q \in Run : status[q] # "absent" => status'[q] # "absent"
      BY <2>1
    <2>5. \A v \in Worker : pc'[v] \in Claimed =>
            /\ mine'[v] \in Run /\ status'[mine'[v]] # "absent"
            /\ 0 < mytoken'[v] /\ mytoken'[v] <= attempts'[mine'[v]]
      BY <2>1, <2>2, <2>3, <2>4 DEF Attempt
    <2>6. \A v \in Worker, q \in Run : q \in doomed'[v] =>
            status'[q] \in Active /\ lease'[q] = 0
      <3> SUFFICES ASSUME NEW v \in Worker, NEW q \in Run, q \in doomed'[v]
                   PROVE  status'[q] \in Active /\ lease'[q] = 0
        OBVIOUS
      <3>1. v # w /\ q \in doomed[v]
        BY <2>2
      <3>2. q # r /\ q \notin doomed[w]
        BY <2>1, <3>1 DEF RowLocked, Locks, LocksExclusive
      <3> QED
        BY <2>1, <3>1, <3>2
    <2>7. \A v \in Worker : pc'[v] = "gated" => mine'[v] \in todo'[v]
      BY <2>1, <2>2
    <2>8. \A v \in Worker :
            /\ pc'[v] \notin {"scanning", "gated"} => doomed'[v] = {}
            /\ \A q \in todo'[v] : status'[q] # "absent"
      BY <2>2, <2>4
    <2> QED
      BY <2>2, <2>5, <2>6, <2>7, <2>8
  <1>8. ASSUME NEW w \in Worker, FindNothing(w) PROVE WorkersSound'
    BY <1>8 DEF FindNothing, LocksExclusive, Locks
  <1>9. ASSUME NEW w \in Worker, Renew(w) PROVE WorkersSound'
    BY <1>9 DEF Renew, RowLocked, Locks
  <1>10. ASSUME NEW w \in Worker, Commit(w) PROVE WorkersSound'
    BY <1>10 DEF Commit, LocksExclusive, Locks
  <1>11. ASSUME NEW w \in Worker, MarkFailed(w) PROVE WorkersSound'
    BY <1>11 DEF MarkFailed, RowLocked, Locks
  <1>12. ASSUME NEW w \in Worker, Moves(w) PROVE WorkersSound'
    BY <1>12, MovesEffect
  <1>13. ASSUME NEW w \in Worker, Leave(w) PROVE WorkersSound'
    BY <1>13 DEF Leave
  <1>14. ASSUME NEW w \in Worker, Reap(w) PROVE WorkersSound'
    BY <1>14 DEF Reap
  <1>15. ASSUME NEW w \in Worker, DropGate(w) PROVE WorkersSound'
    BY <1>15 DEF DropGate
  <1>16. ASSUME Tick PROVE WorkersSound'
    BY <1>16 DEF Tick
  <1>17. CASE UNCHANGED processVars
    BY <1>17 DEF processVars
  <1> QED
    BY <1>1, <1>2, <1>3, <1>4, <1>5, <1>6, <1>7, <1>8, <1>9, <1>10, <1>11,
       <1>12, <1>13, <1>14, <1>15, <1>16, <1>17, ProcessSteps

\* A claim draws a token that nobody holds.
LEMMA AttemptsOwnedStep ==
  ASSUME TypeOK, WorkersSound, AttemptsOwned, [Next]_vars
  PROVE  AttemptsOwned'
  <1> USE QueueAssumption DEF TypeOK, AttemptsOwned, Beating, Claimed, tableVars,
      workerVars
  <1>1. ASSUME NEW s \in Source, NEW r \in Run, NEW waited \in 0..MaxWait,
               Enqueue(s, r, waited)
        PROVE AttemptsOwned'
    BY <1>1 DEF Enqueue
  <1>2. ASSUME NEW w \in Worker, Scan(w) \/ SkipBusy(w) \/ AcquireGate(w)
               \/ SkipGone(w) \/ SkipDisabled(w)
        PROVE AttemptsOwned'
    BY <1>2 DEF Scan, SkipBusy, AcquireGate, SkipGone, SkipDisabled, Skip
  <1>7. ASSUME NEW w \in Worker, Take(w) PROVE AttemptsOwned'
    BY <1>7 DEF Take, WorkersSound, Attempt
  <1>8. ASSUME NEW w \in Worker, FindNothing(w) PROVE AttemptsOwned'
    BY <1>8 DEF FindNothing
  <1>9. ASSUME NEW w \in Worker, Renew(w) PROVE AttemptsOwned'
    BY <1>9 DEF Renew
  <1>10. ASSUME NEW w \in Worker, Commit(w) PROVE AttemptsOwned'
    BY <1>10 DEF Commit
  <1>11. ASSUME NEW w \in Worker, MarkFailed(w) PROVE AttemptsOwned'
    BY <1>11 DEF MarkFailed
  <1>12. ASSUME NEW w \in Worker, Moves(w) PROVE AttemptsOwned'
    BY <1>12, MovesEffect
  <1>13. ASSUME NEW w \in Worker, Leave(w) PROVE AttemptsOwned'
    BY <1>13 DEF Leave
  <1>14. ASSUME NEW w \in Worker, Reap(w) PROVE AttemptsOwned'
    BY <1>14 DEF Reap
  <1>15. ASSUME NEW w \in Worker, DropGate(w) PROVE AttemptsOwned'
    BY <1>15 DEF DropGate
  <1>16. ASSUME Tick PROVE AttemptsOwned'
    BY <1>16 DEF Tick
  <1>17. CASE UNCHANGED processVars
    BY <1>17 DEF processVars
  <1> QED
    BY <1>1, <1>2, <1>7, <1>8, <1>9, <1>10, <1>11,
       <1>12, <1>13, <1>14, <1>15, <1>16, <1>17, ProcessSteps

\* A transaction locks a row that no other one has locked.
LEMMA LocksStep ==
  ASSUME TypeOK, WorkersSound, LocksExclusive, [Next]_vars
  PROVE  LocksExclusive'
  <1> USE DEF TypeOK, LocksExclusive, Locks, Beating, Claimed, tableVars, workerVars
  <1>1. ASSUME NEW s \in Source, NEW r \in Run, NEW waited \in 0..MaxWait,
               Enqueue(s, r, waited)
        PROVE LocksExclusive'
    BY <1>1 DEF Enqueue
  <1>2. ASSUME NEW w \in Worker, Scan(w) PROVE LocksExclusive'
    BY <1>2 DEF Scan, Spent, RowLocked
  <1>3. ASSUME NEW w \in Worker, SkipBusy(w) \/ AcquireGate(w) \/ SkipGone(w)
        PROVE LocksExclusive'
    BY <1>3 DEF SkipBusy, AcquireGate, SkipGone, Skip
  <1>6. ASSUME NEW w \in Worker, SkipDisabled(w) PROVE LocksExclusive'
    BY <1>6 DEF SkipDisabled, Skip, RowLocked
  <1>7. ASSUME NEW w \in Worker, Take(w) PROVE LocksExclusive'
    BY <1>7 DEF Take
  <1>8. ASSUME NEW w \in Worker, FindNothing(w) PROVE LocksExclusive'
    BY <1>8 DEF FindNothing
  <1>9. ASSUME NEW w \in Worker, Renew(w) PROVE LocksExclusive'
    BY <1>9 DEF Renew
  <1>10. ASSUME NEW w \in Worker, Commit(w) PROVE LocksExclusive'
    BY <1>10 DEF Commit
  <1>11. ASSUME NEW w \in Worker, MarkFailed(w) PROVE LocksExclusive'
    BY <1>11 DEF MarkFailed
  <1>12. ASSUME NEW w \in Worker, Moves(w) PROVE LocksExclusive'
    BY <1>12, MovesEffect DEF RowLocked
  <1>13. ASSUME NEW w \in Worker, Leave(w) PROVE LocksExclusive'
    BY <1>13 DEF Leave
  <1>14. ASSUME NEW w \in Worker, Reap(w) PROVE LocksExclusive'
    BY <1>14 DEF Reap
  <1>15. ASSUME NEW w \in Worker, DropGate(w) PROVE LocksExclusive'
    BY <1>15 DEF DropGate
  <1>16. ASSUME Tick PROVE LocksExclusive'
    BY <1>16 DEF Tick
  <1>17. CASE UNCHANGED processVars
    BY <1>17 DEF processVars
  <1> QED
    BY <1>1, <1>2, <1>3, <1>6, <1>7, <1>8, <1>9, <1>10, <1>11,
       <1>12, <1>13, <1>14, <1>15, <1>16, <1>17, ProcessSteps

\* Nobody changes the row a result transaction has locked.
LEMMA WriterStep ==
  ASSUME TypeOK, WorkersSound, LocksExclusive, WriterHolds, [Next]_vars
  PROVE  WriterHolds'
  <1> USE DEF TypeOK, WriterHolds, tableVars, workerVars
  <1>1. ASSUME NEW s \in Source, NEW r \in Run, NEW waited \in 0..MaxWait,
               Enqueue(s, r, waited)
        PROVE WriterHolds'
    BY <1>1 DEF Enqueue
  <1>2. ASSUME NEW w \in Worker, Scan(w) PROVE WriterHolds'
    BY <1>2 DEF Scan
  <1>3. ASSUME NEW w \in Worker, SkipBusy(w) PROVE WriterHolds'
    BY <1>3 DEF SkipBusy
  <1>4. ASSUME NEW w \in Worker, AcquireGate(w) PROVE WriterHolds'
    BY <1>4 DEF AcquireGate
  <1>5. ASSUME NEW w \in Worker, SkipGone(w) PROVE WriterHolds'
    BY <1>5 DEF SkipGone, Skip
  <1>6. ASSUME NEW w \in Worker, SkipDisabled(w) PROVE WriterHolds'
    BY <1>6 DEF SkipDisabled, Skip
  <1>7. ASSUME NEW w \in Worker, Take(w) PROVE WriterHolds'
    BY <1>7 DEF Take, RowLocked, Locks, LocksExclusive, WorkersSound
  <1>8. ASSUME NEW w \in Worker, FindNothing(w) PROVE WriterHolds'
    BY <1>8 DEF FindNothing, LocksExclusive, Locks
  <1>9. ASSUME NEW w \in Worker, Renew(w) PROVE WriterHolds'
    BY <1>9 DEF Renew
  <1>10. ASSUME NEW w \in Worker, Commit(w) PROVE WriterHolds'
    BY <1>10 DEF Commit, LocksExclusive, Locks
  <1>11. ASSUME NEW w \in Worker, MarkFailed(w) PROVE WriterHolds'
    BY <1>11 DEF MarkFailed, RowLocked, Locks
  <1>12. ASSUME NEW w \in Worker, Moves(w) PROVE WriterHolds'
    BY <1>12, MovesEffect DEF HoldsLease, WorkersSound, Claimed, Beating
  <1>13. ASSUME NEW w \in Worker, Leave(w) PROVE WriterHolds'
    BY <1>13 DEF Leave
  <1>14. ASSUME NEW w \in Worker, Reap(w) PROVE WriterHolds'
    BY <1>14 DEF Reap
  <1>15. ASSUME NEW w \in Worker, DropGate(w) PROVE WriterHolds'
    BY <1>15 DEF DropGate
  <1>16. ASSUME Tick PROVE WriterHolds'
    BY <1>16 DEF Tick
  <1>17. CASE UNCHANGED processVars
    BY <1>17 DEF processVars
  <1> QED
    BY <1>1, <1>2, <1>3, <1>4, <1>5, <1>6, <1>7, <1>8, <1>9, <1>10, <1>11, <1>12,
        <1>13, <1>14, <1>15, <1>16, <1>17, ProcessSteps

\* A gate is given away by its holder only.
LEMMA GateStep ==
  ASSUME TypeOK, RowsSound, WorkersSound, GateHeld, [Next]_vars
  PROVE  GateHeld'
  <1> USE DEF TypeOK, GateHeld, Claimed, Beating, tableVars, workerVars,
      ProviderOfRun
  <1>1. ASSUME NEW s \in Source, NEW r \in Run, NEW waited \in 0..MaxWait,
               Enqueue(s, r, waited)
        PROVE GateHeld'
    <2>1. \A q \in Run : status[q] # "absent" => source'[q] = source[q]
      BY <1>1 DEF Enqueue
    <2> QED
      BY <1>1, <2>1 DEF Enqueue, WorkersSound
  <1>2. ASSUME NEW w \in Worker, Scan(w) PROVE GateHeld'
    BY <1>2 DEF Scan, OldestSubset
  <1>3. ASSUME NEW w \in Worker, SkipBusy(w) PROVE GateHeld'
    BY <1>3 DEF SkipBusy
  <1>4. ASSUME NEW w \in Worker, AcquireGate(w) PROVE GateHeld'
    <2>1. PICK r \in todo[w] :
            /\ gate[ProviderOfRun(r)] = None
            /\ gate' = [gate EXCEPT ![ProviderOfRun(r)] = w]
            /\ mine' = [mine EXCEPT ![w] = r]
      BY <1>4 DEF AcquireGate
    <2>2. r \in Run /\ ProviderOfRun(r) \in Provider
      BY <2>1, Reached DEF WorkersSound
    <2>3. gate'[ProviderOfRun(r)] = w /\ pc' = [pc EXCEPT ![w] = "gated"]
      BY <1>4, <2>1, <2>2 DEF AcquireGate
    <2>4. \A v \in Worker \ {w}, p \in Provider : gate[p] = v => gate'[p] = v
      BY <2>1, <2>2, QueueAssumption
    <2>5. \A v \in Worker \ {w} : pc[v] = "gated" \/ pc[v] \in Claimed =>
            ProviderOfRun(mine[v]) \in Provider
      BY Reached DEF WorkersSound
    <2>6. source' = source
      BY <1>4 DEF AcquireGate
    <2> QED
      BY <2>1, <2>3, <2>4, <2>5, <2>6
  <1>5. ASSUME NEW w \in Worker, SkipGone(w) PROVE GateHeld'
    <2>1. \A v \in Worker \ {w}, p \in Provider : gate[p] = v => gate'[p] = v
      BY <1>5 DEF SkipGone, Skip, Released
    <2> QED
      BY <1>5, <2>1, Reached DEF SkipGone, Skip, WorkersSound
  <1>6. ASSUME NEW w \in Worker, SkipDisabled(w) PROVE GateHeld'
    <2>1. \A v \in Worker \ {w}, p \in Provider : gate[p] = v => gate'[p] = v
      BY <1>6 DEF SkipDisabled, Skip, Released
    <2> QED
      BY <1>6, <2>1, Reached DEF SkipDisabled, Skip, WorkersSound
  <1>7. ASSUME NEW w \in Worker, Take(w) PROVE GateHeld'
    BY <1>7 DEF Take
  <1>8. ASSUME NEW w \in Worker, FindNothing(w) PROVE GateHeld'
    BY <1>8 DEF FindNothing
  <1>9. ASSUME NEW w \in Worker, Renew(w) PROVE GateHeld'
    BY <1>9 DEF Renew
  <1>10. ASSUME NEW w \in Worker, Commit(w) PROVE GateHeld'
    BY <1>10 DEF Commit
  <1>11. ASSUME NEW w \in Worker, MarkFailed(w) PROVE GateHeld'
    BY <1>11 DEF MarkFailed
  <1>12. ASSUME NEW w \in Worker, Moves(w) PROVE GateHeld'
    <2>1. /\ UNCHANGED <<gate, todo, mine, source>> /\ pc[w] \in Claimed
          /\ \A v \in Worker : v # w => pc'[v] = pc[v]
          /\ pc'[w] # "gated"
      BY <1>12, MovesEffect
    <2> QED
      BY <2>1
  <1>13. ASSUME NEW w \in Worker, Leave(w) PROVE GateHeld'
    <2>1. \A v \in Worker \ {w}, p \in Provider : gate[p] = v => gate'[p] = v
      BY <1>13 DEF Leave, Released
    <2> QED
      BY <1>13, <2>1, Reached DEF Leave, WorkersSound
  <1>14. ASSUME NEW w \in Worker, Reap(w) PROVE GateHeld'
    <2>1. \A v \in Worker \ {w}, p \in Provider : gate[p] = v => gate'[p] = v
      BY <1>14 DEF Reap, Released
    <2> QED
      BY <1>14, <2>1, Reached DEF Reap, WorkersSound
  <1>15. ASSUME NEW w \in Worker, DropGate(w) PROVE GateHeld'
    <2>1. \A v \in Worker \ {w}, p \in Provider : gate[p] = v => gate'[p] = v
      BY <1>15 DEF DropGate, Released
    <2> QED
      BY <1>15, <2>1, Reached DEF DropGate, WorkersSound
  <1>16. ASSUME Tick PROVE GateHeld'
    BY <1>16 DEF Tick
  <1>17. CASE UNCHANGED processVars
    BY <1>17 DEF processVars
  <1> QED
    BY <1>1, <1>2, <1>3, <1>4, <1>5, <1>6, <1>7, <1>8, <1>9, <1>10, <1>11, <1>12,
        <1>13, <1>14, <1>15, <1>16, <1>17, ProcessSteps

\* Every step keeps the invariant.
LEMMA NextIInv == IInv /\ [Next]_vars => IInv'
  <1> SUFFICES ASSUME IInv, [Next]_vars PROVE IInv'
    OBVIOUS
  <1>1. /\ TypeOK /\ RowsSound /\ OneActivePerSource /\ WorkersSound
        /\ AttemptsOwned /\ LocksExclusive /\ WriterHolds /\ GateHeld
        /\ CatalogBehind /\ FeedHistory /\ LeaseBounded
    BY DEF IInv
  <1>2. TypeOK' /\ RowsSound' /\ OneActivePerSource' /\ LeaseBounded'
    BY <1>1, TypeStep, RowsStep, OneActiveStep, LeaseStep
  <1>3. WorkersSound' /\ AttemptsOwned' /\ LocksExclusive'
    BY <1>1, WorkersStep, AttemptsOwnedStep, LocksStep
  <1>4. WriterHolds' /\ GateHeld' /\ CatalogBehind' /\ FeedHistory'
    BY <1>1, WriterStep, GateStep, CatalogStep, HistoryStep
  <1> QED
    BY <1>2, <1>3, <1>4 DEF IInv

\* IInv is inductive: every reachable state of the queue satisfies it.
THEOREM Invariance == Spec => []IInv
  BY InitIInv, NextIInv, PTL DEF Spec

------------------------------------------------------------------------------
(* What follows from the invariant *)

\* Every variable keeps its type; in particular no run is claimed more than
\* MaxAttempts times (the attempts guards of claim, leases.py:74-87).
THEOREM TypeCorrect == Spec => []TypeOK
  <1>1. IInv => TypeOK
    BY DEF IInv
  <1> QED
    BY <1>1, Invariance, PTL

\* Fencing: while a result transaction is open its run belongs to it alone,
\* whatever happened to the lease meanwhile (require_lease, leases.py:12-20).
THEOREM Fencing == Spec => []WriterOwnsRun
  <1>1. IInv => WriterOwnsRun
    BY DEF IInv, WriterHolds, WriterOwnsRun, LocksExclusive, Locks
  <1> QED
    BY <1>1, Invariance, PTL

\* Provider serialization, for gate sessions that last as long as the claim
\* that opened them (claim, leases.py:67-71 and 88-92).
THEOREM ProviderExclusion ==
  ASSUME ~GateMayDrop PROVE Spec => []OneCollectionPerProvider
  <1>1. IInv => OneCollectionPerProvider
    <2> SUFFICES ASSUME IInv,
                        NEW v \in Worker, NEW w \in Worker, v # w,
                        pc[v] = "collecting", pc[w] = "collecting",
                        ProviderOfRun(mine[v]) = ProviderOfRun(mine[w])
                 PROVE  FALSE
      BY DEF OneCollectionPerProvider
    <2>1. /\ gate[ProviderOfRun(mine[v])] = v
          /\ gate[ProviderOfRun(mine[w])] = w
      BY DEF IInv, GateHeld, Claimed, Beating
    <2> QED
      BY <2>1
  <1> QED
    BY <1>1, Invariance, PTL

\* A lease is gone MaxRun + Lease after its attempt started, so a hung worker
\* cannot keep its run (renew, leases.py:23-33).
THEOREM LeaseBound == Spec => []LeaseBounded
  <1>1. IInv => LeaseBounded
    BY DEF IInv
  <1> QED
    BY <1>1, Invariance, PTL

\* An attempt starts in the claim transaction only, on a run that is still
\* claimable under its lock.
LEMMA StartsClaimable ==
  ASSUME IInv, [Next]_vars, NEW r \in Run, Starts(r)
  PROVE  Claimable(r)
  <1> USE DEF IInv, TypeOK, Starts
  <1>1. PICK w \in Worker : Take(w)
    BY TableSteps DEF rowVars, Enqueue, FindNothing, Renew, Commit,
                      MarkFailed, Tick
  <1> QED
    BY <1>1 DEF Take

\* However runs are requested, delayed, retried and reclaimed, at most two
\* fetches of a feed start within its cooldown: any run but the newest two is
\* older than a cooldown, and so is an attempt that is followed by a retry
\* (enqueue, supervisor.py:25-27; claim, leases.py:93-101).
THEOREM FeedSpacing == Spec => FeedTriedTwice
  <1>1. IInv /\ [Next]_vars => TwoTriesStep
    <2> SUFFICES ASSUME IInv, [Next]_vars, NEW r \in Run, Starts(r),
                        NEW p \in Run, NEW q \in Run, p < q,
                        {p, q} \subseteq TriedWithin(source[r],
                                             Cooldown[ProviderOfRun(r)] - MaxWait)
                 PROVE  FALSE
      BY QueueAssumption DEF TwoTriesStep, Run
    <2> USE DEF IInv, TypeOK
    <2> DEFINE c == Cooldown[ProviderOf[source[r]]]
    <2>1. Claimable(r) /\ status[r] \in Active
      BY StartsClaimable DEF Claimable, Expired, Active
    <2>2. /\ source[p] = source[r] /\ source[q] = source[r]
          /\ attempts[p] > 0 /\ attempts[q] > 0
          /\ startedAge[p] < c - MaxWait /\ startedAge[q] < c - MaxWait
      BY DEF TriedWithin, ProviderOfRun
    <2>3. status[p] # "absent" /\ status[q] # "absent" /\ status[r] # "absent"
      BY <2>1, <2>2 DEF RowsSound, Active
    <2>4. /\ c \in Nat /\ MaxWait \in Nat
          /\ startedAge[p] \in Nat /\ startedAge[q] \in Nat /\ createdAge[q] \in Nat
      BY <2>3, QueueAssumption DEF RowsSound, Age
    <2>5. ~(r < q)
      BY <2>1, <2>2, <2>3 DEF FeedHistory
    <2>6. CASE q = r
      <3>1. startedAge[r] >= c
        BY <2>1, <2>2, <2>6 DEF Claimable, RowsSound, ProviderOfRun
      <3> QED
        BY <2>2, <2>4, <2>6, <3>1
    <2>7. CASE q < r
      <3>1. c > 0
        BY <2>2, <2>4
      <3>2. createdAge[q] >= c
        BY <2>2, <2>3, <2>7, <3>1 DEF FeedHistory, ProviderOfRun
      <3>3. startedAge[p] + MaxWait >= createdAge[q]
        BY <2>2, <2>3 DEF FeedHistory
      <3> QED
        BY <2>2, <2>4, <3>2, <3>3
    <2> QED
      BY <2>5, <2>6, <2>7, QueueAssumption DEF Run
  <1> QED
    BY <1>1, Invariance, PTL DEF Spec, FeedTriedTwice

\* The refinement mapping takes every step of the queue to one of RunLedger.
LEMMA LedgerStep == IInv /\ [Next]_vars => [Ledger!Next]_(Ledger!vars)
  <1> SUFFICES ASSUME IInv, [Next]_vars PROVE [Ledger!Next]_(Ledger!vars)
    OBVIOUS
  <1> USE DEF Ledger!Next, Ledger!vars, Ledger!Unsettled, Active, IInv, TypeOK
  <1>1. ASSUME NEW s \in Source, NEW r \in Run, NEW waited \in 0..MaxWait,
               Enqueue(s, r, waited)
        PROVE  Ledger!Request(s, r)
    BY <1>1 DEF Enqueue, Ledger!Request
  <1>2. ASSUME NEW w \in Worker, Take(w)
        PROVE  \E r \in Run, F \in SUBSET Run : Ledger!Start(r, F)
    <2> DEFINE r == mine[w]
    <2>1. /\ r \in Run /\ Claimable(r) /\ ~RowLocked(r)
          /\ status' = [q \in Run |-> IF q = r THEN "running"
                                      ELSE IF q \in doomed[w] THEN "failed"
                                      ELSE status[q]]
          /\ attempts' = [attempts EXCEPT ![r] = @ + 1]
      BY <1>2, InHand DEF Take
    <2> HIDE DEF r
    <2>2. r \notin doomed[w]
      BY <2>1 DEF RowLocked, Locks
    <2>3. status[r] \in Active /\ attempts[r] < MaxAttempts
      BY <2>1, QueueAssumption DEF Claimable, Expired, RowsSound
    <2>4. \A q \in doomed[w] : status[q] \in Active
      BY DEF WorkersSound
    <2>5. status' = [Ledger!Given(doomed[w]) EXCEPT ![r] = "running"]
      BY <2>1, <2>2 DEF Ledger!Given
    <2>6. UNCHANGED <<source, catalog>>
      BY <1>2 DEF Take
    <2> QED
      BY <2>1, <2>2, <2>3, <2>4, <2>5, <2>6 DEF Ledger!Start
  <1>3. ASSUME NEW w \in Worker, FindNothing(w)
        PROVE  \E F \in SUBSET Run : Ledger!GiveUp(F)
    <2>1. Ledger!GiveUp(doomed[w])
      BY <1>3 DEF FindNothing, Ledger!GiveUp, Ledger!Given, WorkersSound
    <2> QED
      BY <2>1
  <1>4. ASSUME NEW w \in Worker, Commit(w)
        PROVE  Ledger!Publish(mine[w])
    <2>1. /\ mine[w] \in Run /\ status[mine[w]] = "running"
          /\ mytoken[w] = attempts[mine[w]] /\ source[mine[w]] \in Source
      BY <1>4 DEF Commit, WriterHolds, RowsSound
    <2>2. catalog[source[mine[w]]][1] < mine[w]
      BY <2>1 DEF CatalogBehind
    <2> QED
      BY <1>4, <2>1, <2>2 DEF Commit, Ledger!Publish
  <1>5. ASSUME NEW w \in Worker, MarkFailed(w)
        PROVE  \E F \in SUBSET Run : Ledger!GiveUp(F)
    <2>1. mine[w] \in Run
      BY <1>5 DEF MarkFailed, WorkersSound, Claimed, Beating
    <2>2. Ledger!GiveUp({mine[w]})
      BY <1>5, <2>1 DEF MarkFailed, HoldsLease, Ledger!GiveUp, Ledger!Given
    <2> QED
      BY <2>1, <2>2
  <1>6. ASSUME NEW w \in Worker, Renew(w) PROVE UNCHANGED Ledger!vars
    BY <1>6 DEF Renew
  <1>7. ASSUME Tick PROVE UNCHANGED Ledger!vars
    BY <1>7 DEF Tick
  <1>8. CASE UNCHANGED rowVars
    BY <1>8 DEF rowVars
  <1>9. ASSUME NEW w \in Worker, Commit(w) PROVE mine[w] \in Run
    BY <1>9 DEF Commit, WriterHolds
  <1> QED
    BY <1>1, <1>2, <1>3, <1>4, <1>5, <1>6, <1>7, <1>8, <1>9, TableSteps

\* The lease queue implements the ledger its readers rely on: each run is
\* attempted a bounded number of times and settles once, and the postings of
\* a source come from the latest attempt of ever later runs.
THEOREM Refinement == Spec => ImplementsLedger
  <1>1. Init => Ledger!Init
    BY DEF Init, Ledger!Init
  <1> QED
    BY <1>1, LedgerStep, Invariance, PTL DEF Spec, ImplementsLedger, Ledger!Spec

\* Stored postings only ever move to a later run of the source and come from
\* the attempt that owned it (run_one, supervisor.py:48-72).
THEOREM CatalogForward == Spec => CatalogMovesForward
  <1>1. IInv /\ [Next]_vars => ForwardStep
    <2> SUFFICES ASSUME IInv, [Next]_vars, NEW s \in Source,
                        catalog'[s] # catalog[s]
                 PROVE  \E r \in Run :
                          /\ catalog'[s] = <<r, attempts[r]>>
                          /\ r > catalog[s][1] /\ source[r] = s
                          /\ status[r] = "running"
                          /\ status'[r] = "completed"
      BY DEF ForwardStep
    <2> USE DEF IInv, TypeOK
    <2>1. PICK w \in Worker : Commit(w)
      BY TableSteps DEF rowVars, Enqueue, FindNothing, Renew, Take,
                        MarkFailed, Tick
    <2>2. /\ mine[w] \in Run /\ status[mine[w]] = "running"
          /\ mytoken[w] = attempts[mine[w]] /\ source[mine[w]] \in Source
      BY <2>1 DEF Commit, WriterHolds, RowsSound
    <2>3. catalog[source[mine[w]]][1] < mine[w]
      BY <2>2 DEF CatalogBehind, Active
    <2>4. source[mine[w]] = s /\ catalog'[s] = <<mine[w], attempts[mine[w]]>>
      BY <2>1, <2>2 DEF Commit
    <2>5. status'[mine[w]] = "completed"
      BY <2>1, <2>2 DEF Commit
    <2>6. mine[w] > catalog[s][1]
      BY <2>3, <2>4
    <2> QED
      BY <2>2, <2>4, <2>5, <2>6
  <1> QED
    BY <1>1, Invariance, PTL DEF Spec, CatalogMovesForward
==============================================================================
