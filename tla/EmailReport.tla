----------------------------- MODULE EmailReport -----------------------------
(***************************************************************************)
(* Sending a report and recording what was sent: scripts/email_report.py   *)
(* (send_tracked, deliver, record) over the delivery journal and its file  *)
(* lock, Gmail's SMTP server, and the table emailed_jobs                   *)
(* (email_history.py, record_report).                                      *)
(*                                                                         *)
(* A report is identified by its digest.  The same rows in the same window *)
(* give the same report, so what an owner or a timer that runs the command *)
(* will send next is any report, an earlier one again or a new one.  The   *)
(* journal is kept per report, in the order of its lines: no reader looks  *)
(* at the lines of another report.                                         *)
(***************************************************************************)
EXTENDS Naturals, Sequences

CONSTANTS
  Sender,    \* processes that run the send command
  Report,    \* digests of the reports there are to send
  Tearing,   \* may a machine that dies leave half a line in the journal?
  MaxCopies, \* bound: copies of one report counted in the mailbox
  None       \* the lock is free

ASSUME ReportAssumption ==
  /\ None \notin Sender \union Report
  /\ Tearing \in BOOLEAN
  /\ MaxCopies \in Nat /\ MaxCopies > 1

VARIABLES
  journal,  \* per report: the statuses in the delivery journal
  torn,     \* the journal has a line that does not parse
  flock,    \* the holder of the journal's lock
  mailbox,  \* per report: how often Gmail has accepted it
  history,  \* per report: its rows of emailed_jobs
  pc,       \* where a sender is in send_tracked
  body      \* the report it sends

vars == <<journal, torn, flock, mailbox, history, pc, body>>

------------------------------------------------------------------------------
Blocking == {"sending", "smtp_accepted", "delivery_unknown"}
Outcome  == {"smtp_accepted", "rejected", "delivery_unknown"}
Locked   == {"checking", "connected", "submitting"} \union Outcome

\* Mutant: an intent that was never followed by an outcome does not block.
SentOutcomesOnly(d) ==
  \E i \in 1..Len(journal[d]) : journal[d][i] \in Blocking \ {"sending"}

\* deliver: an earlier line of the journal blocks the report.
SentBefore(d) == \E i \in 1..Len(journal[d]) : journal[d][i] \in Blocking

\* Mutant: any line of the report counts as acceptance.
AnyLine(d) == journal[d] # <<>>

\* send_tracked: the last line about the report says it was accepted.
LastAccepted(d) ==
  journal[d] # <<>> /\ journal[d][Len(journal[d])] = "smtp_accepted"

Log(d, status) == journal' = [journal EXCEPT ![d] = Append(@, status)]

Copy(d) ==
  mailbox' = [mailbox EXCEPT ![d] = IF @ < MaxCopies THEN @ + 1 ELSE @]

Goto(p, to) == pc' = [pc EXCEPT ![p] = to]

\* The command ends: as it should ("idle"), or by a failure around it.
End(p, how) ==
  /\ Goto(p, how)
  /\ body' = [body EXCEPT ![p] = None]

\* Leaving the with statement of the journal closes the file.
Unlock(p) == flock' = IF flock = p THEN None ELSE flock

Init ==
  /\ journal = [d \in Report |-> <<>>]
  /\ torn = FALSE
  /\ flock = None
  /\ mailbox = [d \in Report |-> 0]
  /\ history = [d \in Report |-> "none"]
  /\ pc = [p \in Sender |-> "idle"]
  /\ body = [p \in Sender |-> None]

------------------------------------------------------------------------------
(* send_tracked *)

\* main: the rows are exported and rendered.
Start(p, d) ==
  /\ pc[p] \in {"idle", "failed"}
  /\ Goto(p, "preparing")
  /\ body' = [body EXCEPT ![p] = d]
  /\ UNCHANGED <<journal, torn, flock, mailbox, history>>

\* track_report before the delivery: the jobs are listed, not emailed.
Prepare(p) ==
  /\ pc[p] = "preparing"
  /\ history' = [history EXCEPT ![body[p]] = IF @ = "none" THEN "prepared" ELSE @]
  /\ Goto(p, "opening")
  /\ UNCHANGED <<journal, torn, flock, mailbox, body>>

\* Mutant: whatever deliver has raised goes on to the caller.
Reraise(p) ==
  /\ pc[p] = "reconciling"
  /\ End(p, "idle")
  /\ UNCHANGED <<journal, torn, flock, mailbox, history>>

\* deliver has raised: was this very report accepted already?
Reconcile(p) ==
  /\ pc[p] = "reconciling"
  /\ IF LastAccepted(body[p]) /\ ~torn
     THEN Goto(p, "syncing") /\ UNCHANGED body
     ELSE End(p, "idle")
  /\ UNCHANGED <<journal, torn, flock, mailbox, history>>

\* track_report after the delivery.
Sync(p) ==
  /\ pc[p] = "syncing"
  /\ history' = [history EXCEPT ![body[p]] = "emailed"]
  /\ End(p, "idle")
  /\ UNCHANGED <<journal, torn, flock, mailbox>>

------------------------------------------------------------------------------
(* deliver *)

\* Mutant: the lock is not waited for.
LockAnyway(p) ==
  /\ pc[p] = "opening"
  /\ flock' = p
  /\ Goto(p, "checking")
  /\ UNCHANGED <<journal, torn, mailbox, history, body>>

\* The journal is opened and locked.
Lock(p) ==
  /\ pc[p] = "opening" /\ flock = None
  /\ flock' = p
  /\ Goto(p, "checking")
  /\ UNCHANGED <<journal, torn, mailbox, history, body>>

\* deliver raises with nothing of its own in the journal: a line does not
\* parse, the report is blocked, or the session with the server fails.
Refuse(p) ==
  /\ pc[p] \in {"checking", "connected"}
  /\ Unlock(p)
  /\ Goto(p, "reconciling")
  /\ UNCHANGED <<journal, torn, mailbox, history, body>>

\* The journal does not block the report and the server lets the sender in.
Connect(p) ==
  /\ pc[p] = "checking" /\ ~torn /\ ~SentBefore(body[p])
  /\ Goto(p, "connected")
  /\ UNCHANGED <<journal, torn, flock, mailbox, history, body>>

\* The intent is on disk before the message goes out.
Intend(p) ==
  /\ pc[p] = "connected"
  /\ Log(body[p], "sending")
  /\ Goto(p, "submitting")
  /\ UNCHANGED <<torn, flock, mailbox, history, body>>

\* Gmail accepts the message, and its answer arrives or does not.
Accept(p) ==
  /\ pc[p] = "submitting"
  /\ Copy(body[p])
  /\ \E known \in {"smtp_accepted", "delivery_unknown"} : Goto(p, known)
  /\ UNCHANGED <<journal, torn, flock, history, body>>

\* Gmail does not take it: it refuses the recipient (which smtplib raises, too,
\* when there is only one), or the session breaks.
Reject(p) ==
  /\ pc[p] = "submitting"
  /\ \E known \in {"rejected", "delivery_unknown"} : Goto(p, known)
  /\ UNCHANGED <<journal, torn, flock, mailbox, history, body>>

\* The outcome is written, and deliver returns or raises.  After an accepted
\* message closing the session may still raise.
Settle(p) ==
  /\ pc[p] \in Outcome
  /\ Log(body[p], pc[p])
  /\ Unlock(p)
  /\ \/ Goto(p, "reconciling")
     \/ pc[p] = "smtp_accepted" /\ Goto(p, "syncing")
  /\ UNCHANGED <<torn, mailbox, history, body>>

------------------------------------------------------------------------------
(* failures *)

\* track_report raises, before the delivery or after it: no database.
TrackError(p) ==
  /\ pc[p] \in {"preparing", "syncing"}
  /\ End(p, "failed")
  /\ UNCHANGED <<journal, torn, flock, mailbox, history>>

\* The process is killed: its file lock goes with it.
Crash(p) ==
  /\ pc[p] \notin {"idle", "failed"}
  /\ Unlock(p) /\ End(p, "failed")
  /\ UNCHANGED <<journal, torn, mailbox, history>>

\* The message is with Gmail when the process is killed, unseen by it.
CrashSending(p) ==
  /\ pc[p] = "submitting"
  /\ Copy(body[p])
  /\ Unlock(p) /\ End(p, "failed")
  /\ UNCHANGED <<journal, torn, history>>

\* The machine dies, or its disk is full, in the middle of a line.
Tear(p) ==
  /\ Tearing /\ pc[p] \in {"connected"} \union Outcome
  /\ torn' = TRUE
  /\ Unlock(p) /\ End(p, "failed")
  /\ UNCHANGED <<journal, mailbox, history>>

------------------------------------------------------------------------------
Deliver(p) ==
  \/ Lock(p) \/ Refuse(p) \/ Connect(p) \/ Intend(p)
  \/ Accept(p) \/ Reject(p) \/ Settle(p)

Send(p) == Deliver(p) \/ Prepare(p) \/ Reconcile(p) \/ Sync(p)

Fail(p) == TrackError(p) \/ Crash(p) \/ CrashSending(p) \/ Tear(p)

Next ==
  \/ \E p \in Sender, d \in Report : Start(p, d)
  \/ \E p \in Sender : Send(p) \/ Fail(p)

Spec == Init /\ [][Next]_vars

(***************************************************************************)
(* Fairness, for what repeating the command achieves: it is repeated for   *)
(* every report, a command that runs goes on, and the lock is handed on.   *)
(* Commands may be killed, and the database may be out of reach, at any    *)
(* time, but not for ever.                                                 *)
(***************************************************************************)
LiveSpec ==
  /\ Spec
  /\ \A p \in Sender :
       /\ \A d \in Report : SF_vars(Start(p, d))
       /\ WF_vars(Send(p)) /\ SF_vars(Lock(p))
  /\ <>[][\A p \in Sender : ~Fail(p)]_vars

------------------------------------------------------------------------------
TypeOK ==
  /\ journal \in [Report -> Seq(Outcome \union {"sending"})]
  /\ torn \in BOOLEAN
  /\ flock \in Sender \union {None}
  /\ mailbox \in [Report -> 0..MaxCopies]
  /\ history \in [Report -> {"none", "prepared", "emailed"}]
  /\ pc \in [Sender -> Locked \union
               {"idle", "failed", "preparing", "opening", "reconciling", "syncing"}]
  /\ body \in [Sender -> Report \union {None}]
  \* what a process holds is what its place says
  /\ \A p \in Sender : pc[p] \in Locked <=> flock = p
  /\ \A p \in Sender : pc[p] \notin {"idle", "failed"} => body[p] # None

\* Gmail never gets one report twice, whoever repeats the command, wherever it
\* is killed and whatever becomes of the server's answer (deliver,
\* email_report.py:152-186; email-reporting.md: an intent precedes submission).
DeliveredOnce == \A d \in Report : mailbox[d] <= 1

\* A job counts as emailed only once Gmail has accepted a report with it:
\* prepared, failed and unconfirmed sends stay out (send_tracked,
\* email_report.py:288-302; emailed-jobs.md:7).
HistoryHonest == \A d \in Report : history[d] = "emailed" => mailbox[d] > 0

------------------------------------------------------------------------------
(* The inductive invariant behind the safety properties. *)

\* The journal and the mailbox tell the same story, per report: nothing is
\* delivered without an intent, nothing is called accepted that is not there.
JournalSound ==
  \A d \in Report :
    /\ mailbox[d] > 0 => SentBefore(d)
    /\ \A i \in 1..Len(journal[d]) :
         journal[d][i] = "smtp_accepted" => mailbox[d] > 0

\* What a sender concluded from the journal or from Gmail stays true until it
\* acts on it.
SendersSound ==
  \A p \in Sender :
    /\ pc[p] = "connected" => ~SentBefore(body[p])
    /\ pc[p] = "submitting" => mailbox[body[p]] = 0
    /\ pc[p] \in {"submitting"} \union Outcome => SentBefore(body[p])
    /\ pc[p] \in {"smtp_accepted", "syncing"} => mailbox[body[p]] > 0

IInv ==
  /\ TypeOK /\ DeliveredOnce /\ HistoryHonest
  /\ JournalSound /\ SendersSound

------------------------------------------------------------------------------
\* If Gmail accepts a report and its history is not synchronized, repeating the
\* unchanged command does it (emailed-jobs.md:7), as long as the journal parses.
HistoryCatchesUp ==
  \A d \in Report : LastAccepted(d) ~> history[d] = "emailed" \/ torn
==============================================================================
