-------------------------- MODULE EmailReportProofs --------------------------
(***************************************************************************)
(* Proofs about EmailReport for any number of processes and reports, with  *)
(* every crash, lost answer and torn line the model has.                   *)
(***************************************************************************)
EXTENDS EmailReport, TLAPS

Status == Outcome \union {"sending"}

\* Logging extends the lines of one report.
LEMMA Logged ==
  ASSUME TypeOK, NEW d \in Report, NEW st \in Status, Log(d, st)
  PROVE  /\ journal' \in [Report -> Seq(Status)]
         /\ \A e \in Report : e # d => journal'[e] = journal[e]
         /\ Len(journal'[d]) = Len(journal[d]) + 1
         /\ \A i \in 1..Len(journal[d]) : journal'[d][i] = journal[d][i]
         /\ journal'[d][Len(journal'[d])] = st
  BY DEF Log, TypeOK, Status

\* A report that was blocked stays blocked, one with an intent becomes so, and
\* no other report is touched.
LEMMA LoggedBefore ==
  ASSUME TypeOK, NEW d \in Report, NEW st \in Status, Log(d, st)
  PROVE  /\ \A e \in Report : e # d => (SentBefore(e)' <=> SentBefore(e))
         /\ SentBefore(d) => SentBefore(d)'
         /\ st \in Blocking => SentBefore(d)'
  <1>1. /\ Len(journal[d]) \in Nat
        /\ Len(journal'[d]) = Len(journal[d]) + 1
        /\ \A i \in 1..Len(journal[d]) : journal'[d][i] = journal[d][i]
        /\ journal'[d][Len(journal'[d])] = st
        /\ \A e \in Report : e # d => journal'[e] = journal[e]
    BY Logged DEF TypeOK
  <1>2. \A e \in Report : e # d => (SentBefore(e)' <=> SentBefore(e))
    BY <1>1 DEF SentBefore
  <1>3. SentBefore(d) => SentBefore(d)'
    BY <1>1 DEF SentBefore
  <1>4. st \in Blocking => SentBefore(d)'
    BY <1>1 DEF SentBefore
  <1> QED
    BY <1>2, <1>3, <1>4

\* Accepting a message is the only thing that adds a copy, and adds one.
LEMMA Copied ==
  ASSUME TypeOK, NEW d \in Report, Copy(d), mailbox[d] = 0
  PROVE  /\ mailbox' \in [Report -> 0..MaxCopies]
         /\ mailbox'[d] = 1
         /\ \A e \in Report : e # d => mailbox'[e] = mailbox[e]
  BY ReportAssumption DEF Copy, TypeOK

\* Nothing is in the mailbox of a new journal.
LEMMA InitIInv == Init => IInv
  <1> SUFFICES ASSUME Init PROVE IInv
    OBVIOUS
  <1>1. TypeOK
    <2>1. journal \in [Report -> Seq(Outcome \union {"sending"})]
      BY DEF Init
    <2>2. \A p \in Sender : pc[p] \notin Locked /\ flock # p /\ pc[p] = "idle"
      BY ReportAssumption DEF Init, Locked, Outcome
    <2>3. 0 \in 0..MaxCopies
      BY ReportAssumption
    <2>4. /\ mailbox \in [Report -> 0..MaxCopies]
          /\ history \in [Report -> {"none", "prepared", "emailed"}]
          /\ flock \in Sender \union {None}
      BY <2>3 DEF Init
    <2>5. torn \in BOOLEAN
      BY DEF Init
    <2>6. /\ pc \in [Sender -> Locked \union
                {"idle", "failed", "preparing", "opening", "reconciling",
                 "syncing"}]
          /\ body \in [Sender -> Report \union {None}]
      BY DEF Init
    <2> QED
      BY <2>1, <2>2, <2>4, <2>5, <2>6 DEF TypeOK
  <1>2. DeliveredOnce /\ HistoryHonest
    BY DEF Init, DeliveredOnce, HistoryHonest
  <1>3. JournalSound
    BY DEF Init, JournalSound
  <1>4. SendersSound
    BY DEF Init, SendersSound, Outcome
  <1> QED
    BY <1>1, <1>2, <1>3, <1>4 DEF IInv

\* Every step keeps the types and the lock to one holder.
LEMMA TypeStep == IInv /\ [Next]_vars => TypeOK'
  <1> SUFFICES ASSUME IInv, [Next]_vars PROVE TypeOK'
    OBVIOUS
  <1> USE ReportAssumption DEF IInv, TypeOK, Goto, End, Unlock, Locked, Outcome
  <1>1. ASSUME NEW p \in Sender, NEW d \in Report, Start(p, d) PROVE TypeOK'
    BY <1>1 DEF Start
  <1>2. ASSUME NEW p \in Sender, Prepare(p) PROVE TypeOK'
    BY <1>2 DEF Prepare
  <1>3. ASSUME NEW p \in Sender, Reconcile(p) PROVE TypeOK'
    BY <1>3 DEF Reconcile
  <1>4. ASSUME NEW p \in Sender, Sync(p) PROVE TypeOK'
    BY <1>4 DEF Sync
  <1>5. ASSUME NEW p \in Sender, Lock(p) PROVE TypeOK'
    BY <1>5 DEF Lock
  <1>6. ASSUME NEW p \in Sender, Refuse(p) PROVE TypeOK'
    BY <1>6 DEF Refuse
  <1>7. ASSUME NEW p \in Sender, Connect(p) PROVE TypeOK'
    BY <1>7 DEF Connect
  <1>8. ASSUME NEW p \in Sender, Intend(p) PROVE TypeOK'
    BY <1>8, Logged DEF Intend, Status
  <1>9. ASSUME NEW p \in Sender, Accept(p) PROVE TypeOK'
    BY <1>9, Copied DEF Accept, SendersSound
  <1>10. ASSUME NEW p \in Sender, Reject(p) PROVE TypeOK'
    BY <1>10 DEF Reject
  <1>11. ASSUME NEW p \in Sender, Settle(p) PROVE TypeOK'
    <2>1. pc[p] \in Status /\ body[p] \in Report
      BY <1>11 DEF Settle, Status
    <2>2. journal' \in [Report -> Seq(Status)]
      BY <1>11, <2>1, Logged DEF Settle
    <2> QED
      BY <1>11, <2>2 DEF Settle, Status
  <1>12. ASSUME NEW p \in Sender, TrackError(p) PROVE TypeOK'
    BY <1>12 DEF TrackError
  <1>13. ASSUME NEW p \in Sender, Crash(p) PROVE TypeOK'
    BY <1>13 DEF Crash
  <1>14. ASSUME NEW p \in Sender, CrashSending(p) PROVE TypeOK'
    BY <1>14, Copied DEF CrashSending, SendersSound
  <1>15. ASSUME NEW p \in Sender, Tear(p) PROVE TypeOK'
    BY <1>15 DEF Tear
  <1>16. CASE UNCHANGED vars
    BY <1>16 DEF vars
  <1> QED
    BY <1>1, <1>2, <1>3, <1>4, <1>5, <1>6, <1>7, <1>8, <1>9, <1>10, <1>11,
       <1>12, <1>13, <1>14, <1>15, <1>16
       DEF Next, Send, Deliver, Fail

\* Every step keeps the story of journal, mailbox and history straight.
LEMMA StoryStep ==
  IInv /\ [Next]_vars => (DeliveredOnce /\ HistoryHonest /\ JournalSound)'
  <1> DEFINE Story == DeliveredOnce /\ HistoryHonest /\ JournalSound
  <1> SUFFICES ASSUME IInv, [Next]_vars PROVE Story'
    OBVIOUS
  <1> USE DEF IInv, DeliveredOnce, HistoryHonest, JournalSound
  <1>1. CASE UNCHANGED <<journal, mailbox, history>>
    BY <1>1 DEF SentBefore
  <1>2. ASSUME NEW p \in Sender, Prepare(p) PROVE Story'
    BY <1>2 DEF Prepare, TypeOK, SentBefore
  <1>3. ASSUME NEW p \in Sender, Sync(p) PROVE Story'
    BY <1>3 DEF Sync, TypeOK, SendersSound, SentBefore
  <1>4. ASSUME NEW p \in Sender, Intend(p) PROVE Story'
    <2>1. body[p] \in Report /\ "sending" \in Status
      BY <1>4 DEF Intend, TypeOK, Status
    <2>2. UNCHANGED <<mailbox, history>> /\ Log(body[p], "sending")
      BY <1>4 DEF Intend
    <2>3. \A d \in Report : SentBefore(d) => SentBefore(d)'
      BY <2>1, <2>2, LoggedBefore
    <2>4. ASSUME NEW d \in Report, NEW i \in 1..Len(journal'[d]),
                 journal'[d][i] = "smtp_accepted"
          PROVE  mailbox'[d] > 0
      <3>1. CASE d = body[p]
        <4>1. i # Len(journal'[d]) /\ Len(journal'[d]) = Len(journal[d]) + 1
          BY <2>1, <2>2, <2>4, <3>1, Logged
        <4>2. i \in 1..Len(journal[d])
          BY <4>1 DEF TypeOK
        <4>3. journal[d][i] = "smtp_accepted"
          BY <2>1, <2>2, <2>4, <3>1, <4>2, Logged
        <4> QED
          BY <4>2, <4>3, <2>2
      <3>2. CASE d # body[p]
        BY <2>1, <2>2, <2>4, <3>2, Logged
      <3> QED
        BY <3>1, <3>2
    <2> QED
      BY <2>2, <2>3, <2>4
  <1>5. ASSUME NEW p \in Sender, pc[p] = "submitting", Copy(body[p]),
               UNCHANGED <<journal, history>>
        PROVE  Story'
    <2>1. body[p] \in Report /\ mailbox[body[p]] = 0 /\ SentBefore(body[p])
      BY <1>5 DEF TypeOK, SendersSound
    <2>2. /\ mailbox'[body[p]] = 1
          /\ \A d \in Report : d # body[p] => mailbox'[d] = mailbox[d]
      BY <1>5, <2>1, Copied
    <2>3. \A d \in Report : SentBefore(d)' <=> SentBefore(d)
      BY <1>5 DEF SentBefore
    <2>4. ASSUME NEW d \in Report
          PROVE  /\ mailbox'[d] <= 1 /\ (mailbox[d] > 0 => mailbox'[d] > 0)
                 /\ mailbox'[d] > 0 => SentBefore(d)'
      <3>1. CASE d = body[p]
        BY <2>1, <2>2, <2>3, <3>1
      <3>2. CASE d # body[p]
        BY <2>2, <2>3, <3>2
      <3> QED
        BY <3>1, <3>2
    <2> QED
      BY <1>5, <2>4
  <1>6. ASSUME NEW p \in Sender, Settle(p) PROVE Story'
    <2>1. pc[p] \in Status /\ body[p] \in Report
      BY <1>6 DEF Settle, TypeOK, Status, Outcome
    <2>2. UNCHANGED <<mailbox, history>> /\ Log(body[p], pc[p])
      BY <1>6 DEF Settle
    <2>3. \A d \in Report : SentBefore(d) => SentBefore(d)'
      BY <2>1, <2>2, LoggedBefore
    <2>4. pc[p] = "smtp_accepted" => mailbox[body[p]] > 0
      BY DEF SendersSound
    <2>5. ASSUME NEW d \in Report, NEW i \in 1..Len(journal'[d]),
                 journal'[d][i] = "smtp_accepted"
          PROVE  mailbox'[d] > 0
      <3>1. CASE i \in 1..Len(journal[d])
        <4>1. journal[d][i] = "smtp_accepted"
          BY <2>1, <2>2, <2>5, <3>1, Logged
        <4> QED
          BY <4>1, <3>1, <2>2
      <3>2. CASE i \notin 1..Len(journal[d])
        <4>1. d = body[p] /\ i = Len(journal'[d])
          BY <2>1, <2>2, <2>5, <3>2, Logged DEF TypeOK
        <4>2. pc[p] = "smtp_accepted"
          BY <2>1, <2>2, <2>5, <4>1, Logged
        <4> QED
          BY <4>1, <4>2, <2>2, <2>4
      <3> QED
        BY <3>1, <3>2
    <2> QED
      BY <2>2, <2>3, <2>5
  <1>7. ASSUME NEW p \in Sender, Accept(p) PROVE Story'
    BY <1>7, <1>5 DEF Accept
  <1>8. ASSUME NEW p \in Sender, CrashSending(p) PROVE Story'
    BY <1>8, <1>5 DEF CrashSending
  <1>9. \/ \E p \in Sender : Prepare(p) \/ Sync(p) \/ Intend(p) \/ Settle(p)
                             \/ Accept(p) \/ CrashSending(p)
        \/ UNCHANGED <<journal, mailbox, history>>
    BY DEF Next, Send, Deliver, Fail, vars, Start, Reconcile, Lock, Refuse,
           Connect, Reject, TrackError, Crash, Tear
  <1> QED
    BY <1>1, <1>2, <1>3, <1>4, <1>6, <1>7, <1>8, <1>9

\* Every step leaves what a sender has concluded true, because the file lock
\* keeps all others out of the journal while it acts on it.
LEMMA SendersStep == IInv /\ [Next]_vars => SendersSound'
  <1> SUFFICES ASSUME IInv, [Next]_vars PROVE SendersSound'
    OBVIOUS
  <1> USE DEF IInv, TypeOK, Goto, End
  <1> DEFINE Sound(q) ==
        /\ pc[q] = "connected" => ~SentBefore(body[q])
        /\ pc[q] = "submitting" => mailbox[body[q]] = 0
        /\ pc[q] \in {"submitting"} \union Outcome => SentBefore(body[q])
        /\ pc[q] \in {"smtp_accepted", "syncing"} => mailbox[body[q]] > 0
  <1> SUFFICES ASSUME NEW q \in Sender PROVE Sound(q)'
    BY DEF SendersSound
  <1>0. Sound(q)
    BY DEF SendersSound
  <1>1. \A p \in Sender : pc[p] \in Locked /\ pc[q] \in Locked => p = q
    OBVIOUS
  <1>2. ASSUME UNCHANGED <<journal, mailbox>>,
               \/ pc'[q] = pc[q] /\ body'[q] = body[q]
               \/ pc'[q] \notin
                     {"connected", "submitting", "syncing"} \union Outcome
        PROVE  Sound(q)'
    BY <1>0, <1>2 DEF SentBefore, Outcome
  <1>3. ASSUME NEW p \in Sender, Reconcile(p) PROVE Sound(q)'
    <2>1. CASE q = p /\ LastAccepted(body[p]) /\ ~torn
      <3> DEFINE lines == journal[body[p]]
      <3>0. body[p] \in Report /\ lines \in Seq(Outcome \union {"sending"})
        BY <1>3 DEF Reconcile
      <3>1. lines # <<>> /\ lines[Len(lines)] = "smtp_accepted"
        BY <2>1 DEF LastAccepted
      <3>2. Len(lines) \in 1..Len(lines)
        <4> HIDE DEF lines
        <4> QED
          BY <3>0, <3>1
      <3>3. body[p] \in Report /\ mailbox[body[p]] > 0
        BY <3>0, <3>1, <3>2 DEF JournalSound
      <3> QED
        BY <1>3, <2>1, <3>3 DEF Reconcile, Outcome
    <2>2. CASE ~(q = p /\ LastAccepted(body[p]) /\ ~torn)
      BY <1>2, <1>3, <2>2 DEF Reconcile, Outcome
    <2> QED
      BY <2>1, <2>2
  <1>4. ASSUME NEW p \in Sender, Connect(p) PROVE Sound(q)'
    BY <1>0, <1>4 DEF Connect, SentBefore, Outcome
  <1>5. ASSUME NEW p \in Sender, Intend(p) PROVE Sound(q)'
    <2>1. body[p] \in Report /\ "sending" \in Status /\ "sending" \in Blocking
      BY <1>5 DEF Intend, Status, Blocking
    <2>2. Log(body[p], "sending") /\ UNCHANGED <<mailbox, body>>
      BY <1>5 DEF Intend
    <2>3. CASE q = p
      <3>1. SentBefore(body[p])' /\ ~SentBefore(body[p])
        BY <2>1, <2>2, <1>0, <1>5, <2>3, LoggedBefore DEF Intend
      <3>2. mailbox[body[p]] = 0
        BY <2>1, <3>1 DEF JournalSound
      <3> QED
        BY <1>5, <2>2, <2>3, <3>1, <3>2 DEF Intend, Outcome
    <2>4. CASE q # p
      <3>1. pc[q] \notin Locked /\ pc'[q] = pc[q]
        BY <1>1, <1>5, <2>4 DEF Intend, Locked
      <3> QED
        BY <1>0, <2>2, <3>1 DEF Locked, Outcome
    <2> QED
      BY <2>3, <2>4
  <1>6. ASSUME NEW p \in Sender, pc[p] = "submitting", Copy(body[p]),
               UNCHANGED journal,
               \/ \E known \in {"smtp_accepted", "delivery_unknown"} :
                    pc' = [pc EXCEPT ![p] = known] /\ body' = body
               \/ /\ pc' = [pc EXCEPT ![p] = "failed"]
                  /\ body' = [body EXCEPT ![p] = None]
        PROVE  Sound(q)'
    <2>1. /\ body[p] \in Report /\ mailbox[body[p]] = 0
          /\ SentBefore(body[p])
      BY <1>6 DEF SendersSound
    <2>2. /\ mailbox'[body[p]] = 1
          /\ \A d \in Report : d # body[p] => mailbox'[d] = mailbox[d]
      BY <1>6, <2>1, Copied
    <2>3. \A d \in Report : mailbox[d] > 0 => mailbox'[d] > 0
      BY <2>2
    <2>4. \A d : SentBefore(d)' <=> SentBefore(d)
      BY <1>6 DEF SentBefore
    <2>5. CASE q = p
      BY <1>6, <2>1, <2>2, <2>4, <2>5 DEF Outcome
    <2>6. CASE q # p
      <3>1. pc[q] \notin Locked /\ pc'[q] = pc[q] /\ body'[q] = body[q]
        BY <1>1, <1>6, <2>6 DEF Locked
      <3> QED
        BY <1>0, <2>3, <3>1 DEF Locked, Outcome
    <2> QED
      BY <2>5, <2>6
  <1>7. ASSUME NEW p \in Sender, Settle(p) PROVE Sound(q)'
    <2>1. pc[p] \in Status /\ body[p] \in Report
      BY <1>7 DEF Settle, Status, Outcome
    <2>2. Log(body[p], pc[p]) /\ UNCHANGED <<mailbox, body>>
      BY <1>7 DEF Settle
    <2>3. CASE q = p
      BY <1>0, <1>7, <2>2, <2>3 DEF Settle, Outcome
    <2>4. CASE q # p
      <3>1. pc[q] \notin Locked /\ pc'[q] = pc[q]
        BY <1>1, <1>7, <2>4 DEF Settle, Locked
      <3> QED
        BY <1>0, <2>2, <3>1 DEF Locked, Outcome
    <2> QED
      BY <2>3, <2>4
  <1>8. ASSUME NEW p \in Sender, Reject(p) PROVE Sound(q)'
    BY <1>0, <1>8 DEF Reject, SentBefore, Outcome
  <1>9. ASSUME NEW p \in Sender, Accept(p) PROVE Sound(q)'
    BY <1>9, <1>6 DEF Accept
  <1>10. ASSUME NEW p \in Sender, CrashSending(p) PROVE Sound(q)'
    BY <1>10, <1>6 DEF CrashSending
  <1>11. ASSUME NEW p \in Sender, NEW d \in Report, Start(p, d)
         PROVE  Sound(q)'
    BY <1>2, <1>11 DEF Start, Outcome
  <1>12. ASSUME NEW p \in Sender,
                Prepare(p) \/ Sync(p) \/ Lock(p) \/ Refuse(p)
                \/ TrackError(p) \/ Crash(p) \/ Tear(p)
         PROVE  Sound(q)'
    BY <1>2, <1>12
       DEF Prepare, Sync, Lock, Refuse, TrackError, Crash, Tear, Outcome
  <1>13. CASE UNCHANGED vars
    BY <1>2, <1>13 DEF vars
  <1> QED
    BY <1>3, <1>4, <1>5, <1>7, <1>8, <1>9, <1>10, <1>11, <1>12, <1>13
       DEF Next, Send, Deliver, Fail

\* Every step keeps the invariant.
LEMMA NextIInv == IInv /\ [Next]_vars => IInv'
  BY TypeStep, StoryStep, SendersStep DEF IInv

\* IInv is inductive: every reachable state of the sender satisfies it.
THEOREM Invariance == Spec => []IInv
  BY InitIInv, NextIInv, PTL DEF Spec

\* Senders, lock and journal keep their types; the lock has one holder, and a
\* process is inside deliver exactly while it holds it (deliver,
\* email_report.py:152-186).
THEOREM TypeCorrect == Spec => []TypeOK
  <1>1. IInv => TypeOK
    BY DEF IInv
  <1> QED
    BY <1>1, Invariance, PTL

\* Gmail never accepts one report twice, for any number of senders, crashes
\* and lost answers (deliver, email_report.py:152-186).
THEOREM AtMostOnce == Spec => []DeliveredOnce
  <1>1. IInv => DeliveredOnce
    BY DEF IInv
  <1> QED
    BY <1>1, Invariance, PTL

\* The history lists a job as emailed only if Gmail has accepted its report
\* (send_tracked, email_report.py:288-302).
THEOREM HonestHistory == Spec => []HistoryHonest
  <1>1. IInv => HistoryHonest
    BY DEF IInv
  <1> QED
    BY <1>1, Invariance, PTL
==============================================================================
