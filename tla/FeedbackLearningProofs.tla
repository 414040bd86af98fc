----------------------- MODULE FeedbackLearningProofs -----------------------
(***************************************************************************)
(* Proofs about FeedbackLearning for any postings, requests and limits.    *)
(***************************************************************************)
EXTENDS FeedbackLearning, FiniteSetTheorems, TLAPS

Place == {"idle", "waiting", "locked", "inserting", "answering"}

\* A request that ends leaves the others as they were.
LEMMA Ended ==
  ASSUME TypeOK, NEW r \in Request, End(r)
  PROVE  /\ pc'[r] = "idle" /\ call'[r] = None /\ snap'[r] = {}
         /\ lock' # r /\ (lock # r => lock' = lock)
         /\ \A q \in Request : q # r =>
              /\ pc'[q] = pc[q] /\ call'[q] = call[q] /\ begun'[q] = begun[q]
              /\ cfg'[q] = cfg[q] /\ draft'[q] = draft[q] /\ snap'[q] = snap[q]
         /\ lock' \in Request \union {None}
         /\ pc' \in [Request -> Place]
         /\ call' \in [Request -> Call \union {None}]
         /\ begun' \in [Request -> 0..MaxClock]
         /\ cfg' \in [Request -> Settings \union {None}]
         /\ draft' \in [Request -> Version \union {None}]
         /\ snap' \in [Request -> SUBSET Identity]
  BY LearningAssumption DEF End, TypeOK, Place

\* What a request asks for has the form of its kind.
LEMMA Calls ==
  ASSUME NEW c \in Call
  PROVE  /\ c # None
         /\ c.kind \in {"read", "pause", "resume", "reset", "restore"}
         /\ c.kind = "restore" => c.to \in Version
  BY LearningAssumption DEF Call

\* A request that opens asks for something, and remembers what is archived.
LEMMA Opened ==
  ASSUME TypeOK, NEW r \in Request, Ask(r)
  PROVE  \E c \in Call :
           Open(r, c) /\ (c.kind = "restore" => c.to \in versions)
  <1>1. CASE \E k \in {"read", "pause", "resume", "reset"} :
               Open(r, [kind |-> k, to |-> None])
    <2>1. PICK k \in {"read", "pause", "resume", "reset"} :
            Open(r, [kind |-> k, to |-> None])
      BY <1>1
    <2>2. [kind |-> k, to |-> None] \in Call
      BY DEF Call
    <2> QED
      BY <2>1, <2>2
  <1>2. CASE \E v \in versions : Open(r, [kind |-> "restore", to |-> v])
    <2>1. PICK v \in versions : Open(r, [kind |-> "restore", to |-> v])
      BY <1>2
    <2>2. [kind |-> "restore", to |-> v] \in Call
      BY DEF Call, TypeOK
    <2> QED
      BY <2>1, <2>2
  <1> QED
    BY <1>1, <1>2 DEF Ask

\* What can be read of the archive is evidence.
LEMMA EvidenceTyped ==
  ASSUME TypeOK, NEW since
  PROVE  /\ EvidenceSince(since) \in SUBSET Evidence
         /\ \A e \in EvidenceSince(since) :
              e.identity \in Identity /\ archive[e.identity] # None
              /\ archive[e.identity].at > since
         /\ \A i \in Identity : archive[i] # None /\ archive[i].at > since =>
              \E e \in EvidenceSince(since) : e.identity = i
  <1> DEFINE Of(i) == [identity |-> i, mark |-> archive[i].mark, at |-> archive[i].at,
                       features |-> features[i]]
             After == {i \in Identity : archive[i] # None /\ archive[i].at > since}
  <1>1. EvidenceSince(since) = {Of(i) : i \in After}
    BY DEF EvidenceSince, Archived
  <1>2. \A i \in After : Of(i) \in Evidence /\ Of(i).identity = i
    <2> SUFFICES ASSUME NEW i \in After PROVE Of(i) \in Evidence /\ Of(i).identity = i
      OBVIOUS
    <2>1. archive[i] \in Row /\ features[i] \in SUBSET Feature
      BY DEF TypeOK
    <2> QED
      BY <2>1 DEF Row, Evidence
  <1> HIDE DEF Of
  <1> QED
    BY <1>1, <1>2

\* Settings after a change are settings, with a version that exists.
LEMMA ConfiguredTyped ==
  ASSUME TypeOK, LockHeld, NEW r \in Request, pc[r] = "locked", call[r].kind # "read"
  PROVE  /\ Configured(r) \in Settings
         /\ Configured(r).pinned \in versions \union {None}
         /\ Configured(r).since = IF call[r].kind = "reset" THEN begun[r] ELSE settings.since
  <1>1. call[r] \in Call
    BY DEF LockHeld
  <1>2. /\ call[r].kind \in {"pause", "resume", "reset", "restore"}
        /\ call[r].kind = "restore" => call[r].to \in versions /\ call[r].to \in Version
    BY <1>1, Calls DEF LockHeld
  <1> QED
    BY <1>2 DEF Configured, TypeOK, Settings

\* Nothing is archived, asked or learned at first.
LEMMA InitIInv == Init => IInv
  <1> SUFFICES ASSUME Init PROVE IInv
    OBVIOUS
  <1> USE LearningAssumption DEF Init
  <1>1. TypeOK
    BY DEF TypeOK, Settings
  <1>2. LockHeld /\ Moments /\ Learned /\ AnswerInForce /\ Counted
    BY DEF LockHeld, Moments, Learned, AnswerInForce, Counted
  <1> QED
    BY <1>1, <1>2 DEF IInv

\* Every step keeps the types, and what the lock protects.
LEMMA LockStep ==
  IInv /\ [Next]_vars => (TypeOK /\ LockHeld /\ AnswerInForce)'
  <1> DEFINE Locked == TypeOK /\ LockHeld /\ AnswerInForce
  <1> SUFFICES ASSUME IInv, [Next]_vars PROVE Locked'
    OBVIOUS
  <1> USE LearningAssumption DEF IInv
  <1>1. ASSUME UNCHANGED <<settings, versions, requests, resets>>,
               clock' \in 0..MaxClock, features' \in [Identity -> SUBSET Feature],
               \A i \in Identity : features'[i] \in Variants[i],
               deciding' \in [Identity -> Row \union {None}],
               archive' \in [Identity -> Row \union {None}]
        PROVE  Locked'
    BY <1>1 DEF TypeOK, LockHeld, AnswerInForce, requests, resets
  <1>2. ASSUME NEW i \in Identity, NEW mark \in Taken, Decide(i, mark) PROVE Locked'
    BY <1>1, <1>2 DEF Decide, Moment, TypeOK, Row
  <1>3. ASSUME NEW i \in Identity, CommitDecision(i) PROVE Locked'
    BY <1>1, <1>3 DEF CommitDecision, TypeOK
  <1>4. ASSUME NEW i \in Identity, NEW f \in Variants[i], Refresh(i, f) PROVE Locked'
    <2>1. f \in SUBSET Feature
      BY DEF Feature
    <2> QED
      BY <1>1, <1>4, <2>1 DEF Refresh, TypeOK
  <1>5. ASSUME NEW r \in Request, Ask(r) PROVE Locked'
    <2>1. PICK c \in Call : Open(r, c) /\ (c.kind = "restore" => c.to \in versions)
      BY <1>5, Opened
    <2>2. TypeOK'
      <3>1. clock' \in 0..MaxClock /\ Archived \in SUBSET Identity
        BY <2>1 DEF Open, Moment, TypeOK, Archived
      <3>2. /\ pc' \in [Request -> Place] /\ call' \in [Request -> Call \union {None}]
            /\ begun' \in [Request -> 0..MaxClock] /\ snap' \in [Request -> SUBSET Identity]
        BY <2>1, <3>1 DEF Open, TypeOK, Place
      <3> QED
        BY <2>1, <3>1, <3>2 DEF Open, TypeOK, Place, decisions, resets
    <2>3. /\ pc'[r] = "waiting" /\ call'[r] = c
          /\ \A q \in Request : q # r => pc'[q] = pc[q] /\ call'[q] = call[q]
          /\ UNCHANGED <<settings, versions, lock, cfg, draft>>
      BY <2>1 DEF Open, TypeOK
    <2>4. (LockHeld /\ AnswerInForce)'
      BY <2>1, <2>3 DEF LockHeld, AnswerInForce
    <2> QED
      BY <2>2, <2>4
  <1>6. ASSUME NEW r \in Request, Lock(r) PROVE Locked'
    <2>1. TypeOK'
      BY <1>6 DEF Lock, TypeOK, decisions, resets
    <2>2. (LockHeld /\ AnswerInForce)'
      BY <1>6 DEF Lock, TypeOK, LockHeld, AnswerInForce
    <2> QED
      BY <2>1, <2>2
  <1>7. ASSUME NEW r \in Request, Learn(r) PROVE Locked'
    <2>1. lock = r /\ cfg[r] = settings /\ settings \in Settings
      BY <1>7 DEF Learn, LockHeld, TypeOK
    <2>2. /\ draft'[r] \in Version
          /\ settings.pinned # None => draft'[r] = settings.pinned
          /\ settings.pinned = None => draft'[r].since = settings.since
      BY <1>7, <2>1, EvidenceTyped DEF Learn, TypeOK, Settings, Version
    <2>3. /\ pc'[r] = IF draft'[r] \in versions THEN "answering" ELSE "inserting"
          /\ \A q \in Request : q # r => pc'[q] = pc[q] /\ draft'[q] = draft[q]
          /\ UNCHANGED <<clock, decisions, settings, versions, lock, call, begun, cfg,
                         snap, resets>>
      BY <1>7 DEF Learn, TypeOK
    <2>4. draft' \in [Request -> Version \union {None}] /\ pc' \in [Request -> Place]
      BY <1>7, <2>2 DEF Learn, TypeOK, Place
    <2>5. TypeOK'
      BY <2>3, <2>4 DEF TypeOK, Place, decisions, resets
    <2>6. \A q \in Request : q # r => pc[q] \notin {"locked", "inserting", "answering"}
      BY <2>1 DEF LockHeld
    <2>7. pc[r] = "locked" /\ pc'[r] \in {"inserting", "answering"}
      BY <1>7, <2>3 DEF Learn
    <2>8. LockHeld'
      BY <2>1, <2>2, <2>3, <2>6, <2>7 DEF LockHeld
    <2>9. AnswerInForce'
      BY <2>1, <2>2, <2>3, <2>6, <2>7 DEF AnswerInForce
    <2> QED
      BY <2>5, <2>8, <2>9
  <1>8. ASSUME NEW r \in Request, Insert(r) PROVE Locked'
    <2>1. /\ lock = r /\ draft[r] \in Version
          /\ \A q \in Request : q # r => pc[q] \notin {"locked", "inserting", "answering"}
      BY <1>8 DEF Insert, LockHeld
    <2>2. TypeOK'
      BY <1>8, <2>1, Ended DEF Insert, TypeOK, Place, decisions, resets
    <2>3. (LockHeld /\ AnswerInForce)'
      BY <1>8, <2>1, Ended DEF Insert, LockHeld, AnswerInForce
    <2> QED
      BY <2>2, <2>3
  <1>9. ASSUME NEW r \in Request, Answer(r) \/ Fail(r) PROVE Locked'
    <2>1. TypeOK'
      BY <1>9, Ended DEF Answer, Fail, TypeOK, Place, decisions, resets
    <2>2. (LockHeld /\ AnswerInForce)'
      BY <1>9, Ended DEF Answer, Fail, LockHeld, AnswerInForce
    <2> QED
      BY <2>1, <2>2
  <1>10. ASSUME NEW r \in Request, Configure(r) PROVE Locked'
    <2>1. /\ lock = r
          /\ \A q \in Request : q # r => pc[q] \notin {"locked", "inserting", "answering"}
      BY <1>10 DEF Configure, LockHeld
    <2>2. settings' \in Settings /\ settings'.pinned \in versions \union {None}
      BY <1>10, ConfiguredTyped DEF Configure
    <2>3. forgotten' \subseteq Identity /\ resetDone' \in 0..MaxClock
      <3>1. snap[r] \subseteq Identity /\ clock \in 0..MaxClock
        BY DEF TypeOK
      <3>2. CASE call[r].kind = "reset"
        BY <1>10, <3>1, <3>2 DEF Configure
      <3>3. CASE call[r].kind # "reset"
        BY <1>10, <3>3 DEF Configure, TypeOK, resets
      <3> QED
        BY <3>2, <3>3
    <2>4. TypeOK'
      BY <1>10, <2>2, <2>3, Ended DEF Configure, TypeOK, Place, decisions
    <2>5. (LockHeld /\ AnswerInForce)'
      BY <1>10, <2>1, Ended DEF Configure, LockHeld, AnswerInForce
    <2> QED
      BY <2>4, <2>5
  <1>11. CASE UNCHANGED vars
    BY <1>1, <1>11 DEF vars, decisions, TypeOK
  <1> QED
    BY <1>2, <1>3, <1>4, <1>5, <1>6, <1>7, <1>8, <1>9, <1>10, <1>11 DEF Next

\* What a settings change or the end of a request leaves of the other variables.
LEMMA Kept ==
  ASSUME IInv, NEW r \in Request, Insert(r) \/ Answer(r) \/ Fail(r)
  PROVE  /\ End(r)
         /\ UNCHANGED <<clock, archive, deciding, features, settings, forgotten, resetDone>>
  BY DEF Insert, Answer, Fail, decisions, resets

\* Every step keeps the order of the moments.
LEMMA MomentsStep == IInv /\ [Next]_vars => Moments'
  <1> SUFFICES ASSUME IInv, [Next]_vars PROVE Moments'
    OBVIOUS
  <1>t. TypeOK /\ Moments /\ LockHeld
    BY DEF IInv
  <1>n. /\ clock \in Nat /\ resetDone \in Nat /\ settings.since \in Nat
        /\ \A i \in Identity : /\ archive[i] # None => archive[i].at \in Nat
                               /\ deciding[i] # None => deciding[i].at \in Nat
        /\ \A r \in Request : begun[r] \in Nat /\ snap[r] \subseteq Identity
    BY <1>t, LearningAssumption DEF TypeOK, Row, Settings
  <1>1. ASSUME NEW i \in Identity, NEW mark \in Taken, Decide(i, mark) PROVE Moments'
    <2>1. /\ clock' = clock + 1 /\ archive[i] = None
          /\ deciding'[i].at = clock'
          /\ \A j \in Identity : j # i => deciding'[j] = deciding[j]
          /\ UNCHANGED <<archive, settings, pc, begun, snap, forgotten, resetDone>>
      BY <1>1, <1>t DEF Decide, Moment, TypeOK, requests, resets
    <2> QED
      BY <2>1, <1>t, <1>n DEF Moments
  <1>2. ASSUME NEW i \in Identity, CommitDecision(i) PROVE Moments'
    <2>1. /\ deciding[i] # None /\ archive'[i] = deciding[i] /\ deciding'[i] = None
          /\ \A j \in Identity : j # i => archive'[j] = archive[j] /\ deciding'[j] = deciding[j]
          /\ UNCHANGED <<clock, settings, pc, begun, snap, forgotten, resetDone>>
      BY <1>2, <1>t DEF CommitDecision, TypeOK, requests, resets
    <2>2. archive[i] = None /\ i \notin forgotten /\ \A r \in Request : i \notin snap[r]
      BY <2>1, <1>t DEF Moments
    <2>3. forgotten \subseteq Identity
      BY <1>t DEF TypeOK
    <2> QED
      BY <2>1, <2>2, <2>3, <1>t, <1>n DEF Moments
  <1>3. ASSUME NEW i \in Identity, NEW f \in Variants[i], Refresh(i, f) PROVE Moments'
    BY <1>3, <1>t DEF Refresh, Moments, requests, resets
  <1>4. ASSUME NEW r \in Request, Ask(r) PROVE Moments'
    <2>1. PICK c \in Call : Open(r, c) /\ (c.kind = "restore" => c.to \in versions)
      BY <1>4, <1>t, Opened
    <2>2. /\ clock' = clock + 1 /\ begun'[r] = clock'
          /\ snap'[r] = {i \in Identity : archive[i] # None}
          /\ \A q \in Request : q # r => pc'[q] = pc[q] /\ begun'[q] = begun[q]
                                      /\ snap'[q] = snap[q]
          /\ UNCHANGED <<archive, deciding, settings, forgotten, resetDone>>
      BY <2>1, <1>t DEF Open, Moment, TypeOK, Archived, decisions, resets
    <2>3. \A i \in Identity : archive[i] # None => archive[i].at < clock'
      BY <2>2, <1>t, <1>n DEF Moments
    <2>4. \A q \in Request : /\ pc'[q] # "idle" => begun'[q] <= clock'
                             /\ \A i \in snap'[q] : archive[i] # None /\ archive[i].at < begun'[q]
      BY <2>2, <2>3, <1>t, <1>n DEF Moments
    <2> QED
      BY <2>2, <2>4, <1>t, <1>n DEF Moments
  <1>5. ASSUME NEW r \in Request, Lock(r) \/ Learn(r) PROVE Moments'
    <2>1. /\ \A q \in Request : pc'[q] # "idle" => pc[q] # "idle"
          /\ UNCHANGED <<clock, archive, deciding, settings, begun, snap, forgotten, resetDone>>
      BY <1>5, <1>t DEF Lock, Learn, TypeOK, decisions, resets
    <2> QED
      BY <2>1, <1>t DEF Moments
  <1>6. ASSUME NEW r \in Request, Insert(r) \/ Answer(r) \/ Fail(r) PROVE Moments'
    <2>1. /\ End(r)
          /\ UNCHANGED <<clock, archive, deciding, features, settings, forgotten, resetDone>>
      BY <1>6, Kept
    <2> QED
      BY <2>1, <1>t, Ended DEF Moments
  <1>7. ASSUME NEW r \in Request, Configure(r) PROVE Moments'
    <2>1. /\ pc[r] = "locked" /\ call[r].kind # "read" /\ settings' = Configured(r) /\ End(r)
          /\ UNCHANGED <<clock, archive, deciding>>
      BY <1>7 DEF Configure, decisions
    <2>2. settings'.since = IF call[r].kind = "reset" THEN begun[r] ELSE settings.since
      BY <2>1, <1>t, ConfiguredTyped
    <2>3. /\ settings'.since <= resetDone' /\ resetDone' <= clock
          /\ \A i \in forgotten' : archive[i] # None /\ archive[i].at <= settings'.since
      <3>1. CASE call[r].kind = "reset"
        <4>1. forgotten' = snap[r] /\ resetDone' = clock /\ begun[r] <= clock
          BY <1>7, <2>1, <3>1, <1>t DEF Configure, Moments
        <4> QED
          BY <4>1, <2>2, <3>1, <1>t, <1>n DEF Moments
      <3>2. CASE call[r].kind # "reset"
        <4>1. forgotten' = forgotten /\ resetDone' = resetDone
          BY <1>7, <3>2 DEF Configure, resets
        <4> QED
          BY <4>1, <2>2, <3>2, <1>t DEF Moments
      <3> QED
        BY <3>1, <3>2
    <2> QED
      BY <2>1, <2>3, <1>t, Ended DEF Moments
  <1>8. CASE UNCHANGED vars
    BY <1>8, <1>t DEF vars, decisions, requests, resets, Moments
  <1> QED
    BY <1>1, <1>2, <1>3, <1>4, <1>5, <1>6, <1>7, <1>8 DEF Next

\* Every step keeps what an answer has learned.
LEMMA LearnedStep == IInv /\ [Next]_vars => Learned'
  <1> SUFFICES ASSUME IInv, [Next]_vars PROVE Learned'
    OBVIOUS
  <1>t. TypeOK /\ Moments /\ LockHeld /\ Learned
    BY DEF IInv
  <1>n. \A r \in Request : snap[r] \subseteq Identity
    BY <1>t DEF TypeOK
  <1>s. \A r \in Request : \A i \in snap[r] : archive[i] # None
    BY <1>t DEF Moments
  <1>1. ASSUME UNCHANGED <<archive, settings, pc, draft, snap>> PROVE Learned'
    BY <1>1, <1>t DEF Learned
  <1>2. ASSUME NEW i \in Identity, CommitDecision(i) PROVE Learned'
    <2>1. /\ \A j \in Identity : archive[j] # None => archive'[j] = archive[j]
          /\ UNCHANGED <<settings, pc, draft, snap>>
      BY <1>2, <1>t DEF CommitDecision, TypeOK, Moments, requests
    <2>2. ASSUME NEW r \in Request, pc[r] \in {"inserting", "answering"}, settings.pinned = None
          PROVE  /\ \A e \in draft[r].evidence :
                       archive'[e.identity] # None /\ archive'[e.identity].at > settings.since
                 /\ \A j \in snap[r] : archive'[j].at > settings.since =>
                       \E e \in draft[r].evidence : e.identity = j
      <3>1. draft[r] \in Version
        BY <2>2, <1>t DEF LockHeld
      <3>2. \A e \in draft[r].evidence : e.identity \in Identity
        BY <3>1 DEF Version, Evidence
      <3>3. \A j \in snap[r] : j \in Identity /\ archive[j] # None
        BY <1>n, <1>s
      <3> QED
        <4>1. /\ \A e \in draft[r].evidence :
                   archive[e.identity] # None /\ archive[e.identity].at > settings.since
              /\ \A j \in snap[r] : archive[j].at > settings.since =>
                   \E e \in draft[r].evidence : e.identity = j
          BY <2>2, <1>t DEF Learned
        <4> QED
          BY <2>1, <3>2, <3>3, <4>1
    <2> QED
      BY <2>1, <2>2 DEF Learned
  <1>3. ASSUME NEW i \in Identity, NEW mark \in Taken, Decide(i, mark) PROVE Learned'
    BY <1>1, <1>3 DEF Decide, requests
  <1>4. ASSUME NEW i \in Identity, NEW f \in Variants[i], Refresh(i, f) PROVE Learned'
    BY <1>1, <1>4 DEF Refresh, requests
  <1>5. ASSUME NEW r \in Request, Ask(r) PROVE Learned'
    <2>1. PICK c \in Call : Open(r, c)
      BY <1>5, <1>t, Opened
    <2>2. /\ pc'[r] = "waiting"
          /\ \A q \in Request : q # r => pc'[q] = pc[q] /\ snap'[q] = snap[q]
          /\ UNCHANGED <<archive, settings, draft>>
      BY <2>1, <1>t DEF Open, TypeOK, decisions
    <2> QED
      BY <2>2, <1>t DEF Learned
  <1>6. ASSUME NEW r \in Request, Lock(r) PROVE Learned'
    <2>1. /\ pc'[r] = "locked"
          /\ \A q \in Request : q # r => pc'[q] = pc[q]
          /\ UNCHANGED <<archive, settings, draft, snap>>
      BY <1>6, <1>t DEF Lock, TypeOK, decisions
    <2> QED
      BY <2>1, <1>t DEF Learned
  <1>7. ASSUME NEW r \in Request, Learn(r) PROVE Learned'
    <2>1. /\ cfg[r] = settings
          /\ settings.pinned = None =>
               draft'[r].evidence = EvidenceSince(settings.since)
          /\ \A q \in Request : q # r => pc'[q] = pc[q] /\ draft'[q] = draft[q]
          /\ UNCHANGED <<archive, settings, snap>>
      BY <1>7, <1>t DEF Learn, LockHeld, TypeOK, decisions
    <2>2. settings.pinned = None =>
            /\ \A e \in draft'[r].evidence :
                 archive[e.identity] # None /\ archive[e.identity].at > settings.since
            /\ \A i \in snap[r] : archive[i].at > settings.since =>
                 \E e \in draft'[r].evidence : e.identity = i
      <3>1. \A i \in snap[r] : i \in Identity /\ archive[i] # None
        BY <1>n, <1>s
      <3>2. \A i \in Identity : archive[i] # None /\ archive[i].at > settings.since =>
              \E e \in EvidenceSince(settings.since) : e.identity = i
        BY <1>t, EvidenceTyped
      <3>3. \A e \in EvidenceSince(settings.since) :
              archive[e.identity] # None /\ archive[e.identity].at > settings.since
        BY <1>t, EvidenceTyped
      <3> QED
        BY <2>1, <3>1, <3>2, <3>3
    <2> QED
      BY <2>1, <2>2, <1>t DEF Learned
  <1>8. ASSUME NEW r \in Request, Insert(r) \/ Answer(r) \/ Fail(r) PROVE Learned'
    <2>1. End(r) /\ UNCHANGED <<archive, settings>>
      BY <1>8, Kept
    <2> QED
      BY <2>1, <1>t, Ended DEF Learned
  <1>9. ASSUME NEW r \in Request, Configure(r) PROVE Learned'
    <2>1. End(r) /\ \A q \in Request : q # r => pc[q] \notin {"inserting", "answering"}
      BY <1>9, <1>t DEF Configure, LockHeld
    <2> QED
      BY <2>1, <1>t, Ended DEF Learned
  <1>10. CASE UNCHANGED vars
    BY <1>1, <1>10 DEF vars, decisions, requests
  <1> QED
    BY <1>2, <1>3, <1>4, <1>5, <1>6, <1>7, <1>8, <1>9, <1>10 DEF Next

\* What a version is trained from is finite.
LEMMA EvidenceFinite ==
  ASSUME NEW since
  PROVE  IsFiniteSet(EvidenceSince(since))
  <1> DEFINE Since == {k \in Archived : archive[k].at > since}
             of == [i \in Since |-> [identity |-> i, mark |-> archive[i].mark,
                                     at |-> archive[i].at, features |-> features[i]]]
  <1>1. IsFiniteSet(Since)
    BY LearningAssumption, FS_Subset DEF Archived
  <1>2. of \in Surjection(Since, EvidenceSince(since))
    BY DEF Surjection, EvidenceSince
  <1> HIDE DEF Since, of
  <1> QED
    BY <1>1, <1>2, FS_Surjection

\* Every step keeps the versions finite.
LEMMA CountedStep == IInv /\ [Next]_vars => Counted'
  <1> SUFFICES ASSUME IInv, [Next]_vars PROVE Counted'
    OBVIOUS
  <1>t. TypeOK /\ LockHeld /\ Counted
    BY DEF IInv
  <1>1. ASSUME UNCHANGED <<versions, draft>> PROVE Counted'
    BY <1>1, <1>t DEF Counted
  <1>2. ASSUME NEW r \in Request, Learn(r) PROVE Counted'
    <2>1. cfg[r] = settings /\ settings.pinned \in versions \union {None}
      BY <1>2, <1>t DEF Learn, LockHeld, TypeOK
    <2>2. IsFiniteSet(draft'[r].evidence)
      <3>1. CASE settings.pinned # None
        BY <1>2, <2>1, <3>1, <1>t DEF Learn, Counted, TypeOK
      <3>2. CASE settings.pinned = None
        <4>1. draft'[r].evidence = EvidenceSince(settings.since)
          BY <1>2, <2>1, <3>2, <1>t DEF Learn, TypeOK
        <4> QED
          BY <4>1, EvidenceFinite
      <3> QED
        BY <3>1, <3>2
    <2>3. versions' = versions /\ \A q \in Request : q # r => draft'[q] = draft[q]
      BY <1>2, <1>t DEF Learn, TypeOK
    <2> QED
      BY <2>2, <2>3, <1>t DEF Counted
  <1>3. ASSUME NEW r \in Request, Insert(r) PROVE Counted'
    <2>1. draft[r] # None
      BY <1>3, <1>t, LearningAssumption DEF Insert, LockHeld
    <2>2. draft'[r] = None /\ \A q \in Request : q # r => draft'[q] = draft[q]
      BY <1>3, <1>t DEF Insert, End, TypeOK
    <2>3. versions' = versions \union {draft[r]}
      BY <1>3 DEF Insert
    <2> QED
      BY <2>1, <2>2, <2>3, <1>t DEF Counted
  <1>4. ASSUME NEW r \in Request, End(r), versions' = versions PROVE Counted'
    <2>1. draft'[r] = None /\ \A q \in Request : q # r => draft'[q] = draft[q]
      BY <1>4, <1>t DEF End, TypeOK
    <2> QED
      BY <2>1, <1>4, <1>t DEF Counted
  <1>5. ASSUME NEW r \in Request, Answer(r) \/ Configure(r) \/ Fail(r) PROVE Counted'
    BY <1>4, <1>5 DEF Answer, Configure, Fail
  <1>6. ASSUME NEW r \in Request, Ask(r) \/ Lock(r) PROVE Counted'
    BY <1>1, <1>6 DEF Ask, Open, Lock
  <1>7. ASSUME NEW i \in Identity,
               (\E mark \in Taken : Decide(i, mark)) \/ CommitDecision(i)
                 \/ \E f \in Variants[i] : Refresh(i, f)
        PROVE  Counted'
    BY <1>1, <1>7 DEF Decide, CommitDecision, Refresh, requests
  <1>8. CASE UNCHANGED vars
    BY <1>1, <1>8 DEF vars, requests
  <1> QED
    BY <1>2, <1>3, <1>5, <1>6, <1>7, <1>8 DEF Next

\* The strengthened invariant holds in every state.
THEOREM Invariance == Spec => []IInv
  <1>1. IInv /\ [Next]_vars => IInv'
    BY LockStep, MomentsStep, LearnedStep, CountedStep DEF IInv
  <1> QED
    BY InitIInv, <1>1, PTL DEF Spec

\* The variables have their types, and the pinned version exists.
THEOREM TypesCorrect == Spec => []TypeOK
  <1>1. IInv => TypeOK
    BY DEF IInv
  <1> QED
    BY Invariance, <1>1, PTL

\* An answer is made from the settings and the versions in force when it is given.
THEOREM AnswersInForce == Spec => []AnswerInForce
  <1>1. IInv => AnswerInForce
    BY DEF IInv
  <1> QED
    BY Invariance, <1>1, PTL

\* An unpinned ranking forgets what was archived before the last reset, and has
\* learned what was decided after it and archived before the request.
THEOREM ResetsSeparate == Spec => []ResetSeparates
  <1>1. IInv => ResetSeparates
    <2> SUFFICES ASSUME IInv, NEW r \in Request,
                        pc[r] \in {"inserting", "answering"}, settings.pinned = None
                 PROVE  /\ forgotten \intersect {e.identity : e \in draft[r].evidence} = {}
                        /\ {i \in snap[r] : archive[i].at > resetDone}
                              \subseteq {e.identity : e \in draft[r].evidence}
      BY DEF ResetSeparates
    <2> USE DEF IInv
    <2>1. /\ settings.since \in Nat /\ resetDone \in Nat
          /\ \A i \in Identity : archive[i] # None => archive[i].at \in Nat
          /\ forgotten \subseteq Identity /\ snap[r] \subseteq Identity
      BY LearningAssumption DEF TypeOK, Row, Settings
    <2>2. \A i \in forgotten : archive[i].at \in Nat /\ archive[i].at <= settings.since
      BY <2>1 DEF Moments
    <2>3. \A e \in draft[r].evidence : archive[e.identity].at > settings.since
      BY DEF Learned
    <2>4. \A i \in snap[r] : archive[i].at \in Nat /\ settings.since <= resetDone
      BY <2>1 DEF Moments
    <2>5. \A i \in snap[r] : archive[i].at > resetDone => archive[i].at > settings.since
      BY <2>1, <2>4
    <2>6. \A i \in snap[r] : archive[i].at > resetDone =>
            \E e \in draft[r].evidence : e.identity = i
      BY <2>5 DEF Learned
    <2> QED
      BY <2>1, <2>2, <2>3, <2>6
  <1> QED
    BY Invariance, <1>1, PTL

------------------------------------------------------------------------------
\* The points of a version are finitely many, so that they can be counted.
LEMMA PointsCount ==
  ASSUME TypeOK, NEW v, NEW kinds \in SUBSET Kind, NEW i \in Identity
  PROVE  Cardinality(Points(v, kinds, i)) \in Nat
  <1> DEFINE all == (kinds \X features[i]) \X (1..MaxWeight)
  <1>1. IsFiniteSet(Kind)
    <2> DEFINE one == {{"applied"}}
               two == one \union {{"spam"}}
               three == two \union {{"old_posting"}}
               four == three \union
                 {{"not_relevant", "wrong_function", "wrong_seniority", "wrong_workplace"}}
    <2>1. \A S, x : IsFiniteSet(S) => IsFiniteSet(S \union {x})
      BY FS_AddElement
    <2>2. IsFiniteSet(one)
      BY FS_Singleton
    <2>3. IsFiniteSet(two) /\ (IsFiniteSet(two) => IsFiniteSet(three))
            /\ (IsFiniteSet(three) => IsFiniteSet(four))
      BY ONLY <2>1, <2>2
    <2>4. IsFiniteSet(four)
      BY <2>3
    <2>5. Kind = four
      BY DEF Kind
    <2> QED
      BY <2>4, <2>5
  <1>2. IsFiniteSet(kinds)
    BY <1>1, FS_Subset
  <1>3. IsFiniteSet(features[i])
    BY LearningAssumption DEF TypeOK
  <1>4. IsFiniteSet(1..MaxWeight)
    BY LearningAssumption, FS_Interval
  <1>5. IsFiniteSet(all)
    BY <1>2, <1>3, <1>4, FS_Product
  <1>6. Points(v, kinds, i) \subseteq all
    BY DEF Points
  <1> QED
    BY <1>5, <1>6, FS_Subset, FS_CardinalityType

\* An adjustment is a number within the cap, and none of a paused ranking.
LEMMA AdjustmentCapped ==
  ASSUME TypeOK, NEW v, NEW on \in BOOLEAN, NEW i \in Identity
  PROVE  /\ Adjustment(v, on, i) \in Int
         /\ Adjustment(v, on, i) <= MaxAdjustment /\ -Adjustment(v, on, i) <= MaxAdjustment
         /\ ~on => Adjustment(v, on, i) = 0
  <1> DEFINE for == Cardinality(Points(v, {{"applied"}}, i))
             against == Cardinality(Points(v, Kind \ {{"applied"}}, i))
  <1>1. for \in Nat /\ against \in Nat
    <2>1. {{"applied"}} \in SUBSET Kind /\ Kind \ {{"applied"}} \in SUBSET Kind
      BY DEF Kind
    <2> QED
      BY <2>1, PointsCount
  <1>2. MaxAdjustment \in Nat \ {0}
    BY LearningAssumption
  <1>3. Adjustment(v, on, i) =
          IF ~on THEN 0
          ELSE IF for - against > MaxAdjustment THEN MaxAdjustment
          ELSE IF for - against < -MaxAdjustment THEN -MaxAdjustment ELSE for - against
    BY DEF Adjustment
  <1> HIDE DEF for, against
  <1> QED
    BY <1>1, <1>2, <1>3

\* Decisions without a reason speak for no rule.
LEMMA Telling ==
  ASSUME NEW rows, NEW rule
  PROVE  Strength({e \in rows : e.mark \notin {"not_relevant", "other"}}, rule)
           = Strength(rows, rule)
  <1> DEFINE telling == {e \in rows : e.mark \notin {"not_relevant", "other"}}
             speaks(e) == e.mark \in rule[1] /\ rule[2] \in e.features
                            /\ Speaks(e.mark, rule[2].dim) # 0
  <1>1. \A e : speaks(e) => e.mark \notin {"not_relevant", "other"}
    BY DEF Speaks
  <1> HIDE DEF speaks
  <1>2. {e \in telling : speaks(e)} = {e \in rows : speaks(e)}
    BY <1>1
  <1> QED
    BY <1>2 DEF Strength, speaks

\* A rule takes as many decisions as it needs.
LEMMA TooFew ==
  ASSUME NEW rows, IsFiniteSet(rows), Cardinality(rows) < MinEvidence, NEW rule
  PROVE  Strength(rows, rule) = 0
  <1> DEFINE speaking == {e \in rows : e.mark \in rule[1] /\ rule[2] \in e.features
                                         /\ Speaks(e.mark, rule[2].dim) # 0}
             of == [e \in speaking |-> e.identity]
             counted == {e.identity : e \in speaking}
  <1>1. IsFiniteSet(speaking) /\ Cardinality(speaking) <= Cardinality(rows)
    BY FS_Subset
  <1>2. of \in Surjection(speaking, counted)
    BY DEF Surjection
  <1>3. Strength(rows, rule) =
          IF Cardinality(counted) < MinEvidence THEN 0
          ELSE IF Cardinality(counted) < MaxWeight THEN Cardinality(counted) ELSE MaxWeight
    BY DEF Strength
  <1> HIDE DEF speaking, of, counted
  <1>4. IsFiniteSet(counted) /\ Cardinality(counted) <= Cardinality(speaking)
    BY <1>1, <1>2, FS_Surjection
  <1>5. Cardinality(rows) \in Nat /\ Cardinality(speaking) \in Nat /\ Cardinality(counted) \in Nat
    BY <1>1, <1>4, FS_CardinalityType
  <1>6. MinEvidence \in Nat
    BY LearningAssumption
  <1>7. Cardinality(counted) < MinEvidence
    BY <1>1, <1>4, <1>5, <1>6
  <1> QED
    BY <1>3, <1>7

\* No version moves a job by more than its cap, or with fewer decisions than a rule
\* needs, or for decisions that give no reason (train, explain).
THEOREM InfluencesBounded == Spec => []InfluenceBounded
  <1>1. IInv => InfluenceBounded
    <2> SUFFICES ASSUME IInv, NEW v \in versions, NEW i \in Identity
                 PROVE  LET a == Adjustment(v, TRUE, i)
                            telling == {e \in v.evidence : e.mark \notin {"not_relevant", "other"}}
                        IN  /\ a <= MaxAdjustment /\ -a <= MaxAdjustment
                            /\ Cardinality(telling) < MinEvidence => a = 0
                            /\ a = Adjustment([v EXCEPT !.evidence = telling], TRUE, i)
      BY DEF InfluenceBounded
    <2> DEFINE telling == {e \in v.evidence : e.mark \notin {"not_relevant", "other"}}
               w == [v EXCEPT !.evidence = telling]
    <2>1. TypeOK /\ IsFiniteSet(v.evidence) /\ w.evidence = telling
      BY DEF IInv, TypeOK, Version, Counted
    <2>2. \A rule : Strength(telling, rule) = Strength(v.evidence, rule)
      BY Telling
    <2>3. \A kinds : Points(w, kinds, i) = Points(v, kinds, i)
      BY <2>1, <2>2 DEF Points
    <2>4. Adjustment(w, TRUE, i) = Adjustment(v, TRUE, i)
      BY <2>3 DEF Adjustment
    <2>5. ASSUME Cardinality(telling) < MinEvidence PROVE Adjustment(v, TRUE, i) = 0
      <3>1. IsFiniteSet(telling)
        BY <2>1, FS_Subset
      <3>2. \A rule : Strength(v.evidence, rule) = 0
        BY <2>2, <2>5, <3>1, TooFew
      <3>3. \A kinds : Points(v, kinds, i) = {}
        BY <3>2, LearningAssumption DEF Points
      <3>4. Cardinality(Points(v, {{"applied"}}, i)) = 0
            /\ Cardinality(Points(v, Kind \ {{"applied"}}, i)) = 0
        BY <3>3, FS_EmptySet
      <3> QED
        BY <3>4, LearningAssumption DEF Adjustment
    <2>6. Adjustment(v, TRUE, i) <= MaxAdjustment /\ -Adjustment(v, TRUE, i) <= MaxAdjustment
      BY <2>1, AdjustmentCapped
    <2> QED
      BY <2>4, <2>5, <2>6
  <1> QED
    BY Invariance, <1>1, PTL
==============================================================================
