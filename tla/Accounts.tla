------------------------------ MODULE Accounts ------------------------------
(***************************************************************************)
(* Local accounts and their sessions: sign-in behind two throttles         *)
(* (auth/local.py), the console that creates, resets, disables, enables    *)
(* and revokes accounts (scripts/accounts.py), and the session that each   *)
(* request presents (current_user, logout in api/main.py).                 *)
(*                                                                         *)
(* Each of them is one transaction.  Rows of login_limits and users stay   *)
(* locked until it ends; what it writes counts from its commit on.  A      *)
(* request is checked in one transaction and served in later ones.         *)
(***************************************************************************)
EXTENDS Naturals

CONSTANTS
  Name,        \* names people sign in with; not each has an account
  Password,    \* passwords
  Token,       \* session tokens; the bound on the sign-ins that succeed
  Request,     \* requests and console commands at one time
  Global,      \* the bucket that counts the attempts with all names
  GlobalLimit, \* its attempts in a window, 100 in the code
  NameLimit,   \* attempts with one name in a window, 10 in the code
  Window,      \* length of a window, 15 minutes
  Life,        \* length of a session, session_hours
  MaxClock,    \* bound: time
  None         \* no row, no lock, no request

\* The rows of login_limits: one for all names, one per name.
Bucket == Name \union {Global}

Maximum(b) == IF b = Global THEN GlobalLimit ELSE NameLimit

\* A row of users; a weak hash is of earlier parameters (check_needs_rehash).
Account == [password : Password, weak : BOOLEAN, active : BOOLEAN]

\* A row of sessions, with the password it was made with.
Session == [owner : Name, password : Password, expires : Nat]

\* What the console does to an account that exists.
Change == {"reset", "disable", "enable", "revoke"}

Login == [kind : {"login"}, name : Name, word : Password, begun : Nat]
\* Only a reset asks for a password.
Console == [kind : {"reset"}, name : Name, word : Password] \union
           [kind : Change \ {"reset"}, name : Name, word : {None}]
\* "live" remembers whether the session was good when the request arrived.
Visit == [kind : {"visit"}, token : Token, live : BOOLEAN]

ASSUME AccountsAssumption ==
  /\ Global \notin Name
  /\ None \notin Request \union Account \union Session
  /\ None \notin Password \union Login \union Console \union Visit
  /\ GlobalLimit \in Nat /\ NameLimit \in Nat
  /\ Window \in Nat /\ Life \in Nat /\ MaxClock \in Nat

VARIABLES
  clock,
  limit,    \* login_limits: per bucket the attempts and the start of a window
  account,  \* users
  session,  \* sessions
  issued,   \* the tokens there have been
  lock,     \* per bucket: the request that holds the row
  rowLock,  \* per name: the request that holds the row of users
  pc,       \* where a request is
  call,     \* what it asks for
  read,     \* the row of users it has read
  verdicts  \* history: verdicts on passwords in the window of a bucket

tables == <<limit, account, session>>
locks == <<lock, rowLock>>
vars == <<clock, tables, issued, locks, pc, call, read, verdicts>>

------------------------------------------------------------------------------
Live(t) ==
  /\ session[t] # None
  /\ session[t].expires > clock
  /\ account[session[t].owner] # None
  /\ account[session[t].owner].active

\* A window is over for a transaction by the time it began at.
Over(r, b) ==
  limit[b].attempts = 0 \/ limit[b].start + Window < call[r].begun

\* What the upsert leaves in a row; attempts past the maximum count as one more.
Counted(r, b) ==
  IF Over(r, b)
  THEN [attempts |-> 1, start |-> call[r].begun]
  ELSE [limit[b] EXCEPT !.attempts =
          IF @ > Maximum(b) THEN @ ELSE @ + 1]

Verified(r) ==
  /\ read[r] # None
  /\ read[r].password = call[r].word
  /\ read[r].active

Goto(r, place) == pc' = [pc EXCEPT ![r] = place]

\* The end of a transaction, and of the request.
End(r) ==
  /\ pc' = [pc EXCEPT ![r] = "idle"]
  /\ call' = [call EXCEPT ![r] = None]
  /\ read' = [read EXCEPT ![r] = None]
  /\ lock' = [b \in Bucket |-> IF lock[b] = r THEN None ELSE lock[b]]
  /\ rowLock' = [n \in Name |-> IF rowLock[n] = r THEN None ELSE rowLock[n]]

\* Mutant of CommitCounts: the error that is raised rolls the attempt back.
CountsRolledBack(r) == limit' = limit

CommitCounts(r) ==
  limit' = [b \in Bucket |-> IF lock[b] = r THEN Counted(r, b) ELSE limit[b]]

------------------------------------------------------------------------------
Init ==
  /\ clock = 0
  /\ limit = [b \in Bucket |-> [attempts |-> 0, start |-> 0]]
  /\ account \in [Name -> {None} \union [password : Password, weak : {TRUE},
                                         active : {TRUE}]]
  /\ session = [t \in Token |-> None]
  /\ issued = {}
  /\ lock = [b \in Bucket |-> None]
  /\ rowLock = [n \in Name |-> None]
  /\ pc = [r \in Request |-> "idle"]
  /\ call = [r \in Request |-> None]
  /\ read = [r \in Request |-> None]
  /\ verdicts = [b \in Bucket |-> 0]

Tick ==
  /\ clock < MaxClock
  /\ clock' = clock + 1
  /\ UNCHANGED <<tables, issued, locks, pc, call, read, verdicts>>

Start(r, c, place) ==
  /\ pc[r] = "idle"
  /\ call' = [call EXCEPT ![r] = c]
  /\ Goto(r, place)
  /\ UNCHANGED <<clock, tables, issued, locks, read, verdicts>>

\* The upsert of a bucket: the row stays locked, too many attempts are denied.
CountBucket(r, b, next) ==
  /\ lock[b] = None
  /\ lock' = [lock EXCEPT ![b] = r]
  /\ Goto(r, IF Counted(r, b).attempts > Maximum(b) THEN "denied" ELSE next)
  /\ UNCHANGED <<clock, tables, issued, rowLock, call, read, verdicts>>

CountGlobal(r) == pc[r] = "global" /\ CountBucket(r, Global, "name")
CountName(r) == pc[r] = "name" /\ CountBucket(r, call[r].name, "row")

\* Mutant of ReadRow: the SELECT is not FOR UPDATE.
ReadRowUnlocked(r) ==
  /\ pc[r] = "row"
  /\ read' = [read EXCEPT ![r] = account[call[r].name]]
  /\ Goto(r, "act")
  /\ UNCHANGED <<clock, tables, issued, locks, call, verdicts>>

\* SELECT ... FOR UPDATE: waits for the row of users, reads it and holds it.
ReadRow(r) ==
  LET n == call[r].name IN
  /\ pc[r] = "row"
  /\ rowLock[n] = None
  /\ rowLock' = IF account[n] = None THEN rowLock ELSE [rowLock EXCEPT ![n] = r]
  /\ read' = [read EXCEPT ![r] = account[n]]
  /\ Goto(r, "act")
  /\ UNCHANGED <<clock, tables, issued, lock, call, verdicts>>

\* The verdict leaves with the commit of the attempts that were counted.
Tell(r) ==
  /\ CommitCounts(r)
  /\ verdicts' = [b \in Bucket |->
       IF b \notin {Global, call[r].name} THEN verdicts[b]
       ELSE IF Over(r, b) THEN 1 ELSE verdicts[b] + 1]

Grant(r, t) ==
  LET n == call[r].name IN
  /\ pc[r] = "act" /\ call[r].kind = "login" /\ Verified(r)
  /\ t \notin issued
  /\ issued' = issued \union {t}
  /\ session' = [s \in Token |->
       IF s = t
       THEN [owner |-> n, password |-> call[r].word, expires |-> clock + Life]
       ELSE IF session[s] # None /\ session[s].expires <= call[r].begun
       THEN None ELSE session[s]]
  /\ account' = IF read[r].weak
                THEN [account EXCEPT ![n].password = call[r].word, ![n].weak = FALSE]
                ELSE account
  /\ Tell(r) /\ End(r)
  /\ UNCHANGED clock

Refuse(r) ==
  /\ pc[r] = "act" /\ call[r].kind = "login" /\ ~Verified(r)
  /\ Tell(r) /\ End(r)
  /\ UNCHANGED <<clock, account, session, issued>>

\* A denial commits what it counted; a window of that many begins again.
Throttle(r) ==
  /\ pc[r] = "denied"
  /\ CommitCounts(r)
  /\ verdicts' = [b \in Bucket |->
       IF lock[b] = r /\ Over(r, b) THEN 0 ELSE verdicts[b]]
  /\ End(r)
  /\ UNCHANGED <<clock, account, session, issued>>

\* The connection is lost, or the console finds no account: nothing is kept.
Fail(r) ==
  /\ pc[r] \in {"global", "name", "denied", "row", "act"}
  /\ End(r)
  /\ UNCHANGED <<clock, tables, issued, verdicts>>

Create(n, p) ==
  /\ account[n] = None
  /\ account' = [account EXCEPT ![n] =
                   [password |-> p, weak |-> FALSE, active |-> TRUE]]
  /\ UNCHANGED <<clock, limit, session, issued, locks, pc, call, read, verdicts>>

\* Mutant of Changed: an account is disabled by clearing its hash.
HashCleared(c, row) ==
  CASE c.kind \in {"reset", "disable"} ->
         [row EXCEPT !.password = c.word, !.weak = FALSE]
    [] c.kind = "enable" -> [row EXCEPT !.active = TRUE]
    [] OTHER -> row

\* The row that one kind of console command leaves.
Changed(c, row) ==
  CASE c.kind = "reset" -> [row EXCEPT !.password = c.word, !.weak = FALSE]
    [] c.kind = "disable" -> [row EXCEPT !.active = FALSE]
    [] c.kind = "enable" -> [row EXCEPT !.active = TRUE]
    [] OTHER -> row

\* Mutant of WithoutSessionsOf: the command leaves the sessions to expire.
SessionsLeftToExpire(n) == session

\* Sessions that remain when a command has deleted those of its account.
WithoutSessionsOf(n) ==
  [t \in Token |->
     IF session[t] # None /\ session[t].owner = n THEN None ELSE session[t]]

Administer(r) ==
  LET n == call[r].name IN
  /\ pc[r] = "act" /\ call[r].kind \in Change
  /\ read[r] # None
  /\ account' = [account EXCEPT ![n] = Changed(call[r], @)]
  /\ session' = WithoutSessionsOf(n)
  /\ End(r)
  /\ UNCHANGED <<clock, limit, issued, verdicts>>

\* current_user: a transaction of its own before the request is served.
Admit(r) ==
  /\ pc[r] = "check"
  /\ Live(call[r].token)
  /\ Goto(r, "serving")
  /\ UNCHANGED <<clock, tables, issued, locks, call, read, verdicts>>

Reject(r) ==
  /\ pc[r] = "check"
  /\ ~Live(call[r].token)
  /\ End(r)
  /\ UNCHANGED <<clock, tables, issued, verdicts>>

Served(r) ==
  /\ pc[r] = "serving"
  /\ End(r)
  /\ UNCHANGED <<clock, tables, issued, verdicts>>

\* Mutant of Logout: ends each session of the user.
LogoutEverywhere(r) ==
  /\ pc[r] = "serving"
  /\ session' = [t \in Token |->
       IF session[t] # None /\ session[call[r].token] # None
          /\ session[t].owner = session[call[r].token].owner
       THEN None ELSE session[t]]
  /\ End(r)
  /\ UNCHANGED <<clock, limit, account, issued, verdicts>>

Logout(r) ==
  /\ pc[r] = "serving"
  /\ session' = [session EXCEPT ![call[r].token] = None]
  /\ End(r)
  /\ UNCHANGED <<clock, limit, account, issued, verdicts>>

SignIn(r) == \E n \in Name, p \in Password :
  Start(r, [kind |-> "login", name |-> n, word |-> p, begun |-> clock], "global")

Command(r) == \E k \in Change, n \in Name :
  \E p \in IF k = "reset" THEN Password ELSE {None} :
    Start(r, [kind |-> k, name |-> n, word |-> p], "row")

Arrive(r) == \E t \in issued :
  Start(r, [kind |-> "visit", token |-> t, live |-> Live(t)], "check")

Next ==
  \/ Tick
  \/ \E n \in Name, p \in Password : Create(n, p)
  \/ \E r \in Request :
       \/ SignIn(r) \/ CountGlobal(r) \/ CountName(r)
       \/ ReadRow(r) \/ Refuse(r) \/ Throttle(r) \/ Fail(r)
       \/ \E t \in Token : Grant(r, t)
       \/ Command(r) \/ Administer(r)
       \/ Arrive(r) \/ Admit(r) \/ Reject(r) \/ Served(r) \/ Logout(r)

Spec == Init /\ [][Next]_vars

------------------------------------------------------------------------------
\* The variables have their types.
TypeOK ==
  /\ clock \in Nat
  /\ limit \in [Bucket -> [attempts : Nat, start : Nat]]
  /\ account \in [Name -> Account \union {None}]
  /\ session \in [Token -> Session \union {None}]
  /\ issued \subseteq Token
  /\ lock \in [Bucket -> Request \union {None}]
  /\ rowLock \in [Name -> Request \union {None}]
  /\ pc \in [Request -> {"idle", "global", "name", "denied", "row", "act",
                         "check", "serving"}]
  /\ call \in [Request -> Login \union Console \union Visit \union {None}]
  /\ read \in [Request -> Account \union {None}]
  /\ verdicts \in [Bucket -> Nat]

\* Each session that is left belongs to an account that is active and was made
\* with its present password: a sign-in that races a reset or a disabling either
\* commits before it, and loses its session to it, or sees its result (the row
\* locks of login and of the console, the DELETE of the console).
SessionsCurrent ==
  \A t \in Token : session[t] # None =>
    /\ account[session[t].owner] # None
    /\ account[session[t].owner].active
    /\ account[session[t].owner].password = session[t].password

\* What is served presented a session that was good when the request arrived: a
\* session that was revoked, ended or disabled before does not come back between
\* the arrival and the check, not by enabling the account again either
\* (current_user and the DELETE of the console).
ServedWereLive ==
  \A r \in Request : pc[r] = "serving" => call[r].live

\* No bucket gives more verdicts on passwords in a window than it has attempts,
\* however the sign-ins interleave and whichever of them are lost (the upserts of
\* login, their locks, and the commit before an error is raised).
Throttled ==
  \A b \in Bucket :
    verdicts[b] <= limit[b].attempts /\ verdicts[b] <= Maximum(b)

\* The password of an account changes only to what a reset has chosen: a sign-in
\* that renews a weak hash does not bring back the password of before a reset.
PasswordStands ==
  [][\A n \in Name :
       account[n] # None /\ account'[n].password # account[n].password =>
         \E r \in Request :
           /\ pc[r] = "act" /\ call[r].kind = "reset"
           /\ call[r].name = n /\ call[r].word = account'[n].password]_vars

\* A session that has not expired ends only by its own logout or by a command on
\* its account: other sign-ins, with their DELETE of what has expired, spare it.
SessionKept ==
  [][\A t \in Token :
       session[t] # None /\ session[t].expires > clock /\ session'[t] = None =>
         \E r \in Request :
           \/ pc[r] = "serving" /\ call[r].token = t
           \/ /\ pc[r] = "act" /\ call[r].kind \in Change
              /\ call[r].name = session[t].owner]_vars

------------------------------------------------------------------------------
\* What makes the safety properties inductive.  A request asks for what its place
\* serves, and a sign-in has begun in the past.
Places ==
  \A r \in Request :
    /\ call[r] \in Login => call[r].begun <= clock
    /\ pc[r] = "idle" => call[r] = None
    /\ pc[r] \in {"global", "name", "denied"} => call[r] \in Login
    /\ pc[r] \in {"row", "act"} => call[r] \in Login \union Console
    /\ pc[r] \in {"check", "serving"} => call[r] \in Visit

\* A sign-in holds the buckets it has counted, which allow it to go on.
Counting ==
  /\ \A b \in Bucket, r \in Request : lock[b] = r =>
       /\ call[r] \in Login
       /\ b \in {Global, call[r].name}
  /\ \A r \in Request : call[r] \in Login =>
       /\ pc[r] \in {"name", "row", "act"} =>
            lock[Global] = r /\ Counted(r, Global).attempts <= GlobalLimit
       /\ pc[r] \in {"row", "act"} =>
            /\ lock[call[r].name] = r
            /\ Counted(r, call[r].name).attempts <= NameLimit

\* A row of users stays as a request has read it for as long as the request holds it.
Reading ==
  \A r \in Request : pc[r] = "act" /\ read[r] # None =>
    rowLock[call[r].name] = r /\ account[call[r].name] = read[r]

\* A token in the table has been issued; a visit asks with one, and once its
\* session is no longer good it stays so.
Visits ==
  /\ \A t \in Token : session[t] # None => t \in issued
  /\ \A r \in Request : call[r] \in Visit =>
       /\ call[r].token \in issued
       /\ pc[r] = "check" => call[r].live \/ ~Live(call[r].token)

IInv ==
  /\ TypeOK /\ Places /\ Counting /\ Reading /\ SessionsCurrent /\ Visits
  /\ ServedWereLive /\ Throttled
==============================================================================
