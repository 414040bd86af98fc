--------------------------- MODULE AccountsProofs ---------------------------
(***************************************************************************)
(* Proofs about Accounts for any number of names, requests and tokens, for *)
(* any limits, and for any length of a window and of a session.            *)
(***************************************************************************)
EXTENDS Accounts, TLAPS

Call == Login \union Console \union Visit

\* The kind of a call tells its form.
LEMMA Forms ==
  ASSUME NEW c \in Call
  PROVE  /\ c # None
         /\ c \in Login <=> c.kind = "login"
         /\ c \in Console <=> c.kind \in Change
         /\ c \in Visit <=> c.kind = "visit"
         /\ c \in Login => c.name \in Name /\ c.word \in Password /\ c.begun \in Nat
         /\ c \in Console => c.name \in Name
         /\ c.kind = "reset" => c.word \in Password
         /\ c \in Visit => c.token \in Token /\ c.live \in BOOLEAN
  BY AccountsAssumption DEF Call, Login, Console, Visit, Change

\* What a request begins with.
LEMMA Starting ==
  ASSUME TypeOK, NEW r \in Request, SignIn(r) \/ Command(r) \/ Arrive(r)
  PROVE  \E c \in Call, place \in {"global", "row", "check"} :
           /\ Start(r, c, place)
           /\ c \in Login <=> place = "global"
           /\ c \in Login => c.begun <= clock
           /\ c \in Console <=> place = "row"
           /\ c \in Visit <=> place = "check"
           /\ c \in Visit => c.token \in issued /\ (c.live \/ ~Live(c.token))
  <1>1. CASE SignIn(r)
    <2>1. PICK n \in Name, p \in Password :
            Start(r, [kind |-> "login", name |-> n, word |-> p, begun |-> clock], "global")
      BY <1>1 DEF SignIn
    <2> DEFINE c == [kind |-> "login", name |-> n, word |-> p, begun |-> clock]
    <2>2. c \in Login /\ c.begun <= clock
      BY DEF Login, TypeOK
    <2> QED
      BY <2>1, <2>2, Forms DEF Call, Change
  <1>2. CASE Command(r)
    <2>1. PICK k \in Change, n \in Name, p \in Password \union {None} :
            Start(r, [kind |-> k, name |-> n, word |-> p], "row")
            /\ IF k = "reset" THEN p \in Password ELSE p = None
      BY <1>2 DEF Command
    <2> DEFINE c == [kind |-> k, name |-> n, word |-> p]
    <2>2. c \in Console
      BY <2>1 DEF Console
    <2> QED
      BY <2>1, <2>2, Forms DEF Call, Change
  <1>3. CASE Arrive(r)
    <2>1. PICK t \in issued :
            Start(r, [kind |-> "visit", token |-> t, live |-> Live(t)], "check")
      BY <1>3 DEF Arrive
    <2> DEFINE c == [kind |-> "visit", token |-> t, live |-> Live(t)]
    <2>2. Live(t) \in BOOLEAN
      BY DEF Live
    <2>3. c \in Visit /\ c.token = t /\ c.live = Live(t)
      BY <2>2 DEF Visit, TypeOK
    <2> QED
      BY <2>1, <2>3, Forms DEF Call, Change
  <1> QED
    BY <1>1, <1>2, <1>3

\* A request that is over leaves the others as they were.
LEMMA Ended ==
  ASSUME TypeOK, NEW r \in Request, End(r)
  PROVE  /\ pc'[r] = "idle" /\ call'[r] = None /\ read'[r] = None
         /\ \A q \in Request : q # r =>
              pc'[q] = pc[q] /\ call'[q] = call[q] /\ read'[q] = read[q]
         /\ \A b \in Bucket : lock'[b] # r /\ \A q \in Request : q # r =>
              (lock'[b] = q <=> lock[b] = q)
         /\ \A n \in Name : \A q \in Request : q # r =>
              (rowLock'[n] = q <=> rowLock[n] = q)
         /\ lock' \in [Bucket -> Request \union {None}]
         /\ rowLock' \in [Name -> Request \union {None}]
         /\ pc' \in [Request -> {"idle", "global", "name", "denied", "row", "act",
                                 "check", "serving"}]
         /\ call' \in [Request -> Login \union Console \union Visit \union {None}]
         /\ read' \in [Request -> Account \union {None}]
  BY AccountsAssumption DEF End, TypeOK

\* What an upsert leaves is a row, and what is not counted is not touched.
LEMMA Counts ==
  ASSUME TypeOK, NEW r \in Request, NEW b \in Bucket, call[r] \in Login
  PROVE  /\ Counted(r, b) \in [attempts : Nat, start : Nat]
         /\ Over(r, b) \in BOOLEAN
         /\ Maximum(b) \in Nat
         /\ Over(r, b) => Counted(r, b).attempts = 1
         /\ ~Over(r, b) /\ Counted(r, b).attempts <= Maximum(b) =>
              Counted(r, b).attempts = limit[b].attempts + 1
         /\ limit[b].attempts <= Counted(r, b).attempts \/ Over(r, b)
  <1>1. Maximum(b) \in Nat
    BY AccountsAssumption DEF Maximum
  <1>2. limit[b] \in [attempts : Nat, start : Nat] /\ call[r].begun \in Nat
    BY DEF TypeOK, Login
  <1> QED
    BY <1>1, <1>2 DEF Counted, Over

\* Committing counts writes the rows that the request holds and no other.
LEMMA Committed ==
  ASSUME TypeOK, Counting, NEW r \in Request, CommitCounts(r)
  PROVE  /\ limit' \in [Bucket -> [attempts : Nat, start : Nat]]
         /\ \A b \in Bucket : lock[b] = r => limit'[b] = Counted(r, b)
         /\ \A b \in Bucket : lock[b] # r => limit'[b] = limit[b]
  <1>1. \A b \in Bucket : lock[b] = r => Counted(r, b) \in [attempts : Nat, start : Nat]
    BY Counts DEF Counting
  <1> QED
    BY <1>1 DEF CommitCounts, TypeOK

\* Nothing is locked, asked or counted at first.
LEMMA InitIInv == Init => IInv
  <1> SUFFICES ASSUME Init PROVE IInv
    OBVIOUS
  <1> USE AccountsAssumption DEF Init
  <1>1. TypeOK
    BY DEF TypeOK, Account
  <1>2. Places /\ Reading /\ SessionsCurrent /\ ServedWereLive
    BY DEF Places, Reading, SessionsCurrent, ServedWereLive
  <1>3. Counting
    BY DEF Counting
  <1>4. Visits
    BY DEF Visits
  <1>5. Throttled
    BY DEF Throttled, Maximum
  <1> QED
    BY <1>1, <1>2, <1>3, <1>4, <1>5 DEF IInv

\* Every step keeps the types.
LEMMA TypeStep == IInv /\ [Next]_vars => TypeOK'
  <1> SUFFICES ASSUME IInv, [Next]_vars PROVE TypeOK'
    OBVIOUS
  <1> USE DEF IInv, TypeOK, tables, locks, Goto
  <1>1. CASE Tick
    BY <1>1 DEF Tick
  <1>2. ASSUME NEW n \in Name, NEW p \in Password, Create(n, p) PROVE TypeOK'
    BY <1>2 DEF Create, Account
  <1>3. ASSUME NEW r \in Request, NEW c \in Call,
               NEW place \in {"global", "row", "check"}, Start(r, c, place)
        PROVE  TypeOK'
    BY <1>3 DEF Start, Call
  <1>4. ASSUME NEW r \in Request, NEW b \in Bucket, NEW next \in {"name", "row"},
               CountBucket(r, b, next)
        PROVE  TypeOK'
    BY <1>4 DEF CountBucket
  <1>5. ASSUME NEW r \in Request, ReadRow(r) PROVE TypeOK'
    <2>1. call[r].name \in Name
      BY <1>5 DEF ReadRow, Places, Login, Console
    <2> QED
      BY <1>5, <2>1 DEF ReadRow
  <1>6. ASSUME NEW r \in Request, call[r] \in Login, Tell(r)
        PROVE  /\ limit' \in [Bucket -> [attempts : Nat, start : Nat]]
               /\ verdicts' \in [Bucket -> Nat]
    BY <1>6, Committed DEF Tell
  <1>7. ASSUME NEW r \in Request, NEW t \in Token, Grant(r, t) PROVE TypeOK'
    <2>1. call[r] \in Login /\ read[r] \in Account /\ call[r].name \in Name
          /\ call[r].word \in Password /\ call[r].begun \in Nat
      BY <1>7, Forms DEF Grant, Verified, Places, Call
    <2>2. session' \in [Token -> Session \union {None}]
      BY <1>7, <2>1, AccountsAssumption DEF Grant, Session
    <2>3. account' \in [Name -> Account \union {None}]
      BY <1>7, <2>1 DEF Grant, Account, Reading, Verified
    <2>4. /\ limit' \in [Bucket -> [attempts : Nat, start : Nat]]
          /\ verdicts' \in [Bucket -> Nat]
      BY <1>6, <1>7, <2>1 DEF Grant
    <2>5. End(r) /\ UNCHANGED clock /\ issued' \subseteq Token
      BY <1>7 DEF Grant
    <2> QED
      BY <2>2, <2>3, <2>4, <2>5, Ended
  <1>8. ASSUME NEW r \in Request, Refuse(r) PROVE TypeOK'
    <2>1. call[r] \in Login
      BY <1>8, Forms DEF Refuse, Places, Call
    <2> QED
      BY <1>6, <1>8, <2>1, Ended DEF Refuse
  <1>9. ASSUME NEW r \in Request, Throttle(r) PROVE TypeOK'
    BY <1>9, Ended, Committed DEF Throttle
  <1>10. ASSUME NEW r \in Request, Fail(r) \/ Reject(r) \/ Served(r) PROVE TypeOK'
    BY <1>10, Ended DEF Fail, Reject, Served
  <1>11. ASSUME NEW r \in Request, Administer(r) PROVE TypeOK'
    <2>1. call[r] \in Console /\ call[r].name \in Name /\ account[call[r].name] \in Account
      BY <1>11, Forms DEF Administer, Places, Call, Reading
    <2>2. call[r].kind = "reset" => call[r].word \in Password
      BY <2>1 DEF Console
    <2>3. Changed(call[r], account[call[r].name]) \in Account
      BY <2>1, <2>2 DEF Changed, Account, Console, Change
    <2>4. account' \in [Name -> Account \union {None}]
      BY <1>11, <2>1, <2>3 DEF Administer
    <2>5. session' \in [Token -> Session \union {None}]
      BY <1>11 DEF Administer, WithoutSessionsOf
    <2> QED
      BY <1>11, <2>4, <2>5, Ended DEF Administer
  <1>12. ASSUME NEW r \in Request, Admit(r) PROVE TypeOK'
    BY <1>12 DEF Admit
  <1>13. ASSUME NEW r \in Request, Logout(r) PROVE TypeOK'
    BY <1>13, Ended DEF Logout
  <1>14. CASE UNCHANGED vars
    BY <1>14 DEF vars
  <1> QED
    <2>1. ASSUME NEW r \in Request, SignIn(r) \/ Command(r) \/ Arrive(r) PROVE TypeOK'
      BY <1>3, <2>1, Starting
    <2>2. ASSUME NEW r \in Request, CountGlobal(r) PROVE TypeOK'
      BY <1>4, <2>2 DEF CountGlobal, Bucket
    <2>3. ASSUME NEW r \in Request, CountName(r) PROVE TypeOK'
      BY <1>4, <2>3 DEF CountName, Places, Login, Bucket
    <2> QED
      BY <1>1, <1>2, <1>5, <1>7, <1>8, <1>9, <1>10, <1>11, <1>12, <1>13, <1>14,
         <2>1, <2>2, <2>3 DEF Next

\* A request keeps asking for what its place serves.
LEMMA PlacesStep == IInv /\ [Next]_vars => Places'
  <1> SUFFICES ASSUME IInv, [Next]_vars PROVE Places'
    OBVIOUS
  <1> USE DEF IInv, Places
  <1>1. ASSUME NEW r \in Request, End(r), clock' = clock PROVE Places'
    BY <1>1, Ended, AccountsAssumption
  <1>2. ASSUME NEW r \in Request, SignIn(r) \/ Command(r) \/ Arrive(r) PROVE Places'
    BY <1>2, Starting DEF Start, Goto, TypeOK
  <1>3. ASSUME NEW r \in Request,
               CountGlobal(r) \/ CountName(r) \/ ReadRow(r) \/ Admit(r)
        PROVE  Places'
    BY <1>3 DEF CountGlobal, CountName, CountBucket, ReadRow, Admit, Goto, TypeOK
  <1>4. ASSUME UNCHANGED <<pc, call>>, clock' \in {clock, clock + 1} PROVE Places'
    BY <1>4 DEF TypeOK, Login
  <1> QED
    BY <1>1, <1>2, <1>3, <1>4
       DEF Next, Tick, Create, Refuse, Throttle, Fail, Grant, Administer, Reject,
           Served, Logout, vars

\* The rows of login_limits that a request holds do not change under it.
LEMMA CountingStep == IInv /\ [Next]_vars => Counting'
  <1> SUFFICES ASSUME IInv, [Next]_vars PROVE Counting'
    OBVIOUS
  <1> USE DEF IInv
  <1>1. ASSUME NEW r \in Request, End(r), CommitCounts(r) \/ limit' = limit
        PROVE  Counting'
    <2>1. \A b \in Bucket : lock[b] # r => limit'[b] = limit[b]
      BY <1>1, Committed DEF TypeOK
    <2>2. ASSUME NEW b \in Bucket, NEW q \in Request, lock[b] = q, q # r
          PROVE  Counted(q, b)' = Counted(q, b)
      BY <1>1, <2>1, <2>2, Ended DEF Counted, Over, Maximum
    <2>3. ASSUME NEW b \in Bucket, NEW q \in Request, lock'[b] = q
          PROVE  /\ call'[q] \in Login
                 /\ b \in {Global, call'[q].name}
      BY <1>1, <2>3, Ended DEF Counting
    <2>4. ASSUME NEW q \in Request, call'[q] \in Login
          PROVE  /\ pc'[q] \in {"name", "row", "act"} =>
                      lock'[Global] = q /\ Counted(q, Global)'.attempts <= GlobalLimit
                 /\ pc'[q] \in {"row", "act"} =>
                      /\ lock'[call'[q].name] = q
                      /\ Counted(q, call[q].name)'.attempts <= NameLimit
                      /\ call'[q] = call[q]
      <3>1. q # r /\ call'[q] = call[q] /\ pc'[q] = pc[q]
        BY <1>1, <2>4, Ended, AccountsAssumption
      <3>2. call[q].name \in Bucket /\ Global \in Bucket
        BY <2>4, <3>1 DEF Login, Bucket
      <3> QED
        BY <1>1, <2>2, <2>4, <3>1, <3>2, Ended DEF Counting
    <2> QED
      BY <2>3, <2>4 DEF Counting
  <1>2. ASSUME NEW r \in Request, SignIn(r) \/ Command(r) \/ Arrive(r)
        PROVE  Counting'
    <2>1. PICK c \in Call, place \in {"global", "row", "check"} :
            Start(r, c, place) /\ (c \in Login <=> place = "global")
      BY <1>2, Starting
    <2>2. /\ UNCHANGED <<limit, lock>>
          /\ call' = [call EXCEPT ![r] = c] /\ pc' = [pc EXCEPT ![r] = place]
          /\ pc[r] = "idle"
      BY <2>1 DEF Start, Goto, tables, locks
    <2>3. call[r] = None /\ \A b \in Bucket : lock[b] # r
      BY <2>2, Forms DEF Places, Counting, Call
    <2>4. \A q \in Request, b \in Bucket : q # r => Counted(q, b)' = Counted(q, b)
      BY <2>2 DEF Counted, Over, Maximum, TypeOK
    <2>5. Global \in Bucket /\ \A q \in Request : call[q] \in Login => call[q].name \in Bucket
      BY DEF Bucket, Login
    <2> QED
      BY <2>1, <2>2, <2>3, <2>4, <2>5 DEF Counting, TypeOK
  <1>3. ASSUME NEW r \in Request, CountGlobal(r) PROVE Counting'
    <2>1. /\ call[r] \in Login /\ lock' = [lock EXCEPT ![Global] = r]
          /\ lock[Global] = None /\ UNCHANGED <<limit, call>>
          /\ pc' = [pc EXCEPT ![r] =
                IF Counted(r, Global).attempts > GlobalLimit THEN "denied" ELSE "name"]
      BY <1>3 DEF CountGlobal, CountBucket, Goto, Places, Maximum, tables
    <2>2. Counted(r, Global).attempts \in Nat
      BY <2>1, Counts DEF Bucket
    <2>3. \A q \in Request, b \in Bucket : Counted(q, b)' = Counted(q, b)
      BY <2>1 DEF Counted, Over, Maximum
    <2>4. Global \in Bucket /\ \A q \in Request : call[q] \in Login => call[q].name \in Bucket
      BY DEF Bucket, Login
    <2> QED
      BY <2>1, <2>2, <2>3, <2>4, AccountsAssumption DEF Counting, TypeOK
  <1>4. ASSUME NEW r \in Request, CountName(r) PROVE Counting'
    <2> DEFINE n == call[r].name
    <2>1. /\ call[r] \in Login /\ n \in Name /\ n \in Bucket
      BY <1>4 DEF CountName, Places, Login, Bucket
    <2>2. /\ lock' = [lock EXCEPT ![n] = r]
          /\ lock[n] = None /\ UNCHANGED <<limit, call>>
          /\ pc' = [pc EXCEPT ![r] =
                IF Counted(r, n).attempts > NameLimit THEN "denied" ELSE "row"]
      BY <1>4, <2>1, AccountsAssumption
         DEF CountName, CountBucket, Goto, Maximum, tables
    <2>3. Counted(r, n).attempts \in Nat
      BY <2>1, Counts
    <2>4. \A q \in Request, b \in Bucket : Counted(q, b)' = Counted(q, b)
      BY <2>2 DEF Counted, Over, Maximum
    <2>5. Global \in Bucket /\ \A q \in Request : call[q] \in Login => call[q].name \in Bucket
      BY DEF Bucket, Login
    <2>6. pc[r] = "name"
      BY <1>4 DEF CountName
    <2> QED
      BY <2>1, <2>2, <2>3, <2>4, <2>5, <2>6, AccountsAssumption DEF Counting, TypeOK
  <1>5. ASSUME NEW r \in Request, ReadRow(r) \/ Admit(r) PROVE Counting'
    <2>1. /\ UNCHANGED <<limit, call, lock>>
          /\ \A q \in Request : \/ pc'[q] = pc[q]
                                \/ pc[q] = "row" /\ pc'[q] = "act"
                                \/ pc'[q] = "serving"
      BY <1>5 DEF ReadRow, Admit, Goto, TypeOK, tables, locks
    <2>2. \A q \in Request, b \in Bucket : Counted(q, b)' = Counted(q, b)
      BY <2>1 DEF Counted, Over, Maximum
    <2>3. Global \in Bucket /\ \A q \in Request : call[q] \in Login => call[q].name \in Bucket
      BY DEF Bucket, Login
    <2> QED
      BY <2>1, <2>2, <2>3 DEF Counting
  <1>6. CASE UNCHANGED <<limit, lock, pc, call>>
    BY <1>6 DEF Counting, Counted, Over, Maximum
  <1> QED
    BY <1>1, <1>2, <1>3, <1>4, <1>5, <1>6
       DEF Next, Tick, Create, Refuse, Throttle, Fail, Grant, Tell, Administer, Reject,
           Served, Logout, vars, tables, locks

\* Only a request that holds the row of an account writes it, or its sessions.
LEMMA RowWriters ==
  ASSUME IInv, [Next]_vars
  PROVE  \/ UNCHANGED account /\ \A t \in Token : session'[t] \in {session[t], None}
         \/ \E n \in Name, p \in Password : Create(n, p)
         \/ \E r \in Request, t \in Token : Grant(r, t)
         \/ \E r \in Request : Administer(r)
  BY DEF IInv, TypeOK, Next, Tick, SignIn, Command, Arrive, Start, CountGlobal, CountName,
         CountBucket, ReadRow, Refuse, Throttle, Fail, Admit, Reject, Served, Logout,
         vars, tables

\* What a sign-in and a command write: one row of users, which they hold, and
\* sessions of that row.
LEMMA Granted ==
  ASSUME IInv, NEW r \in Request, NEW t \in Token, Grant(r, t)
  PROVE  LET n == call[r].name IN
         /\ call[r] \in Login /\ n \in Name /\ rowLock[n] = r
         /\ account[n] = read[r] /\ account[n] \in Account
         /\ account[n].active /\ account[n].password = call[r].word
         /\ account'[n] \in Account /\ account'[n].active
         /\ account'[n].password = account[n].password
         /\ \A m \in Name : m # n => account'[m] = account[m]
         /\ t \notin issued /\ issued' = issued \union {t}
         /\ session'[t] # None
         /\ session'[t].owner = n /\ session'[t].password = call[r].word
         /\ \A s \in Token : s # t =>
              \/ session'[s] = session[s]
              \/ /\ session[s] # None /\ session'[s] = None
                 /\ session[s].expires <= call[r].begun
  <1>1. call[r] \in Login /\ call[r].name \in Name /\ read[r] # None
    BY Forms DEF Grant, Verified, IInv, Places, Call
  <1>2. /\ rowLock[call[r].name] = r /\ account[call[r].name] = read[r]
        /\ read[r] \in Account
    BY <1>1 DEF Grant, IInv, Reading, TypeOK
  <1>3. /\ session'[t] = [owner |-> call[r].name, password |-> call[r].word,
                         expires |-> clock + Life]
        /\ session'[t] \in Session
    BY <1>1, AccountsAssumption DEF Grant, IInv, TypeOK, Session, Login
  <1>4. session'[t] # None
    BY <1>3, AccountsAssumption
  <1>5. /\ account'[call[r].name] \in Account /\ account'[call[r].name].active
        /\ account'[call[r].name].password = account[call[r].name].password
        /\ \A m \in Name : m # call[r].name => account'[m] = account[m]
    BY <1>1, <1>2 DEF Grant, Verified, IInv, TypeOK, Account, Login
  <1> QED
    BY <1>1, <1>2, <1>3, <1>4, <1>5 DEF Grant, Verified

LEMMA Administered ==
  ASSUME IInv, NEW r \in Request, Administer(r)
  PROVE  LET n == call[r].name IN
         /\ call[r] \in Console /\ n \in Name /\ rowLock[n] = r
         /\ account[n] \in Account /\ account'[n] = Changed(call[r], account[n])
         /\ account'[n] \in Account
         /\ \A m \in Name : m # n => account'[m] = account[m]
         /\ \A t \in Token :
              session'[t] = IF session[t] # None /\ session[t].owner = n
                            THEN None ELSE session[t]
  <1>1. call[r] \in Console /\ call[r].name \in Name
    BY Forms DEF Administer, IInv, Places, Call
  <1>2. rowLock[call[r].name] = r /\ account[call[r].name] \in Account
    BY DEF Administer, IInv, Reading, TypeOK
  <1>3. Changed(call[r], account[call[r].name]) \in Account
    BY <1>1, <1>2, Forms DEF Changed, Account, Call, Change
  <1> QED
    BY <1>1, <1>2, <1>3 DEF Administer, WithoutSessionsOf, IInv, TypeOK

\* What a request has read FOR UPDATE stays as it is.
LEMMA ReadingStep == IInv /\ [Next]_vars => Reading'
  <1> SUFFICES ASSUME IInv, [Next]_vars, NEW q \in Request, pc'[q] = "act",
                      read'[q] # None
               PROVE  rowLock'[call'[q].name] = q /\ account'[call'[q].name] = read'[q]
    BY DEF Reading
  <1>1. ASSUME ReadRow(q)
        PROVE  rowLock'[call'[q].name] = q /\ account'[call'[q].name] = read'[q]
    <2>1. call[q].name \in Name
      BY <1>1, Forms DEF ReadRow, IInv, Places, Call
    <2> QED
      BY <1>1, <2>1 DEF ReadRow, IInv, TypeOK, tables
  <1>2. CASE ~ReadRow(q)
    <2>1. /\ pc[q] = "act" /\ read'[q] = read[q] /\ call'[q] = call[q]
          /\ \A n \in Name : rowLock[n] = q => rowLock'[n] = q
      <3>1. ASSUME NEW r \in Request, End(r)
            PROVE  /\ pc[q] = "act" /\ read'[q] = read[q] /\ call'[q] = call[q]
                   /\ \A n \in Name : rowLock[n] = q => rowLock'[n] = q
        BY <3>1, Ended DEF IInv
      <3>2. ASSUME NEW r \in Request, ReadRow(r), r # q
            PROVE  /\ pc[q] = "act" /\ read'[q] = read[q] /\ call'[q] = call[q]
                   /\ \A n \in Name : rowLock[n] = q => rowLock'[n] = q
        BY <3>2, AccountsAssumption DEF ReadRow, Goto, IInv, TypeOK
      <3>3. ASSUME NEW r \in Request, SignIn(r) \/ Command(r) \/ Arrive(r)
            PROVE  /\ pc[q] = "act" /\ read'[q] = read[q] /\ call'[q] = call[q]
                   /\ \A n \in Name : rowLock[n] = q => rowLock'[n] = q
        BY <3>3, Starting DEF Start, Goto, locks, IInv, TypeOK
      <3>4. ASSUME NEW r \in Request, CountGlobal(r) \/ CountName(r) \/ Admit(r)
            PROVE  /\ pc[q] = "act" /\ read'[q] = read[q] /\ call'[q] = call[q]
                   /\ \A n \in Name : rowLock[n] = q => rowLock'[n] = q
        BY <3>4 DEF CountGlobal, CountName, CountBucket, Admit, Goto, locks, IInv, TypeOK
      <3>5. CASE UNCHANGED <<pc, read, call, rowLock>>
        BY <3>5
      <3> QED
        BY <1>2, <3>1, <3>2, <3>3, <3>4, <3>5
           DEF Next, Tick, Create, Refuse, Throttle, Fail, Grant, Administer, Reject,
               Served, Logout, vars, locks
    <2>2. /\ rowLock[call[q].name] = q /\ account[call[q].name] = read[q]
          /\ call[q].name \in Name /\ read[q] # None
      BY <2>1, Forms DEF IInv, Reading, Places, Call
    <2>3. account'[call[q].name] = account[call[q].name]
      <3>1. ASSUME NEW n \in Name, NEW p \in Password, Create(n, p)
            PROVE  account'[call[q].name] = account[call[q].name]
        BY <2>2, <3>1 DEF Create, IInv, TypeOK
      <3>2. ASSUME NEW r \in Request, NEW t \in Token, Grant(r, t)
            PROVE  account'[call[q].name] = account[call[q].name]
        <4>1. r # q
          BY <2>1, <3>2, Ended DEF Grant, IInv
        <4> QED
          BY <2>2, <3>2, <4>1, Granted
      <3>3. ASSUME NEW r \in Request, Administer(r)
            PROVE  account'[call[q].name] = account[call[q].name]
        <4>1. r # q
          BY <2>1, <3>3, Ended DEF Administer, IInv
        <4> QED
          BY <2>2, <3>3, <4>1, Administered
      <3> QED
        BY <3>1, <3>2, <3>3, RowWriters
    <2> QED
      BY <2>1, <2>2, <2>3
  <1> QED
    BY <1>1, <1>2

\* A sign-in makes its session with the row it holds, and a command deletes the
\* sessions of the row it changes.
LEMMA SessionsStep == IInv /\ [Next]_vars => SessionsCurrent'
  <1> SUFFICES ASSUME IInv, [Next]_vars, NEW t \in Token, session'[t] # None
               PROVE  /\ account'[session'[t].owner] # None
                      /\ account'[session'[t].owner].active
                      /\ account'[session'[t].owner].password = session'[t].password
    BY DEF SessionsCurrent
  <1> USE AccountsAssumption DEF IInv, SessionsCurrent
  <1>1. session[t] # None => session[t].owner \in Name
    BY DEF TypeOK, Session
  <1>2. CASE UNCHANGED account /\ session'[t] \in {session[t], None}
    BY <1>2
  <1>3. ASSUME NEW n \in Name, NEW p \in Password, Create(n, p)
        PROVE  session'[t] = session[t] /\ account'[session[t].owner] = account[session[t].owner]
    BY <1>1, <1>3 DEF Create, TypeOK
  <1>4. ASSUME NEW r \in Request, NEW s \in Token, Grant(r, s)
        PROVE  /\ account'[session'[t].owner] # None
               /\ account'[session'[t].owner].active
               /\ account'[session'[t].owner].password = session'[t].password
    BY <1>1, <1>4, Granted
  <1>5. ASSUME NEW r \in Request, Administer(r)
        PROVE  session'[t] = session[t] /\ account'[session[t].owner] = account[session[t].owner]
    BY <1>1, <1>5, Administered
  <1> QED
    BY <1>2, <1>3, <1>4, <1>5, RowWriters

\* A session that is not good now is not good after any step: only a sign-in makes
\* one, with a token that nobody has, and an account that becomes active has none.
LEMMA Dead ==
  ASSUME IInv, [Next]_vars, NEW t \in Token, t \in issued, ~Live(t)
  PROVE  ~Live(t)'
  <1> USE AccountsAssumption DEF IInv
  <1>1. clock' \in {clock, clock + 1}
    BY DEF Next, Tick, Create, SignIn, Command, Arrive, Start, CountGlobal, CountName,
       CountBucket, ReadRow, Refuse, Throttle, Fail, Grant, Administer, Admit, Reject,
       Served, Logout, vars
  <1>2. CASE session[t] = None
    <2>1. session'[t] = None
      BY <1>2, RowWriters, Granted, Administered DEF Create
    <2> QED
      BY <2>1 DEF Live
  <1>3. CASE session[t] # None
    <2>1. /\ session[t].expires \in Nat /\ clock \in Nat
          /\ session[t].expires <= clock
      BY <1>3 DEF Live, SessionsCurrent, TypeOK, Session
    <2>2. session'[t] \in {session[t], None}
      BY RowWriters, Granted, Administered DEF Create
    <2> QED
      BY <1>1, <2>1, <2>2 DEF Live
  <1> QED
    BY <1>2, <1>3

\* Tokens stay issued, and a visit whose session was not good meets none.
LEMMA VisitsStep == IInv /\ [Next]_vars => (Visits /\ ServedWereLive)'
  <1> SUFFICES ASSUME IInv, [Next]_vars PROVE (Visits /\ ServedWereLive)'
    OBVIOUS
  <1> USE DEF IInv
  <1>1. issued \subseteq issued'
    BY DEF Next, Tick, Create, SignIn, Command, Arrive, Start, CountGlobal, CountName,
       CountBucket, ReadRow, Refuse, Throttle, Fail, Grant, Administer, Admit, Reject,
       Served, Logout, vars
  <1>2. ASSUME NEW t \in Token, session'[t] # None PROVE t \in issued'
    BY <1>1, <1>2, RowWriters, Granted, Administered DEF Create, Visits
  <1>3. ASSUME NEW q \in Request, call'[q] \in Visit
        PROVE  /\ call'[q].token \in issued'
               /\ pc'[q] = "check" => call'[q].live \/ ~Live(call[q].token)'
               /\ pc'[q] = "serving" => call'[q].live
    <2>1. ASSUME call'[q] = call[q], pc'[q] = pc[q]
          PROVE  /\ call'[q].token \in issued'
                 /\ pc'[q] = "check" => call'[q].live \/ ~Live(call[q].token)'
                 /\ pc'[q] = "serving" => call'[q].live
      <3>1. call[q].token \in issued /\ call[q].token \in Token
        BY <1>3, <2>1, Forms DEF Visits, Call
      <3>2. ~Live(call[q].token) => ~Live(call[q].token)'
        <4>1. PICK t \in Token : t = call[q].token
          BY <3>1
        <4>2. ~Live(t) => ~Live(t)'
          BY <3>1, <4>1, Dead
        <4> QED
          BY <2>1, <4>1, <4>2 DEF Live
      <3> QED
        BY <1>1, <1>3, <2>1, <3>1, <3>2 DEF Visits, ServedWereLive
    <2>2. ASSUME NEW r \in Request, End(r)
          PROVE  call'[q] = call[q] /\ pc'[q] = pc[q]
      BY <1>3, <2>2, Ended, AccountsAssumption
    <2>3. ASSUME NEW r \in Request, SignIn(r) \/ Command(r) \/ Arrive(r)
          PROVE  \/ call'[q] = call[q] /\ pc'[q] = pc[q]
                 \/ /\ call'[q].token \in issued'
                    /\ pc'[q] # "serving"
                    /\ call'[q].live \/ ~Live(call[q].token)'
      <3>1. PICK c \in Call, place \in {"global", "row", "check"} :
              /\ Start(r, c, place)
              /\ c \in Visit => c.token \in issued /\ (c.live \/ ~Live(c.token))
        BY <2>3, Starting
      <3>2. CASE q = r
        <4>1. call'[q] = c /\ pc'[q] = place
          BY <3>1, <3>2 DEF Start, Goto, TypeOK
        <4>2. c.token \in issued /\ c.token \in Token /\ (c.live \/ ~Live(c.token)')
          <5>1. c.token \in issued /\ c.token \in Token /\ (c.live \/ ~Live(c.token))
            BY <1>3, <3>1, <4>1, Forms
          <5>2. ~Live(c.token) => ~Live(c.token)'
            BY <5>1, Dead
          <5> QED
            BY <5>1, <5>2
        <4> QED
          BY <1>1, <4>1, <4>2 DEF Live
      <3>3. CASE q # r
        BY <3>1, <3>3 DEF Start, Goto, TypeOK
      <3> QED
        BY <3>2, <3>3
    <2>4. ASSUME NEW r \in Request, Admit(r)
          PROVE  \/ call'[q] = call[q] /\ pc'[q] = pc[q]
                 \/ call'[q].token \in issued' /\ pc'[q] = "serving" /\ call'[q].live
      <3>1. CASE q = r
        <4>1. call'[q] = call[q] /\ pc[q] = "check" /\ pc'[q] = "serving"
              /\ Live(call[q].token)
          BY <2>4, <3>1 DEF Admit, Goto, TypeOK
        <4> QED
          BY <1>1, <1>3, <4>1 DEF Visits
      <3>2. CASE q # r
        BY <2>4, <3>2 DEF Admit, Goto, TypeOK
      <3> QED
        BY <3>1, <3>2
    <2>5. ASSUME NEW r \in Request, CountGlobal(r) \/ CountName(r) \/ ReadRow(r)
          PROVE  call'[q] = call[q] /\ pc'[q] = pc[q]
      <3>1. q # r
        BY <1>3, <2>5, Forms
           DEF CountGlobal, CountName, CountBucket, ReadRow, Places, Call, Change
      <3> QED
        BY <2>5, <3>1
           DEF CountGlobal, CountName, CountBucket, ReadRow, Goto, TypeOK
    <2>6. CASE UNCHANGED <<pc, call>>
      BY <2>1, <2>6
    <2> QED
      BY <2>1, <2>2, <2>3, <2>4, <2>5, <2>6
         DEF Next, Tick, Create, Refuse, Throttle, Fail, Grant, Administer, Reject,
             Served, Logout, vars
  <1>4. ASSUME NEW q \in Request, pc'[q] = "serving" PROVE call'[q] \in Visit
    BY <1>4, PlacesStep DEF Places
  <1> QED
    BY <1>2, <1>3, <1>4 DEF Visits, ServedWereLive

\* A verdict leaves only with an attempt that its buckets had room for.
LEMMA ThrottledStep == IInv /\ [Next]_vars => Throttled'
  <1> SUFFICES ASSUME IInv, [Next]_vars, NEW b \in Bucket
               PROVE  verdicts'[b] <= limit'[b].attempts /\ verdicts'[b] <= Maximum(b)
    BY DEF Throttled, Maximum
  <1> USE DEF IInv
  <1>1. /\ verdicts[b] \in Nat /\ limit[b].attempts \in Nat /\ Maximum(b) \in Nat
        /\ verdicts[b] <= limit[b].attempts /\ verdicts[b] <= Maximum(b)
    BY AccountsAssumption DEF TypeOK, Throttled, Maximum
  <1>2. ASSUME NEW r \in Request, call[r] \in Login, Tell(r), pc[r] = "act"
        PROVE  verdicts'[b] <= limit'[b].attempts /\ verdicts'[b] <= Maximum(b)
    <2>1. CASE b \in {Global, call[r].name}
      <3>1. lock[b] = r /\ Counted(r, b).attempts <= Maximum(b)
        BY <1>2, <2>1, AccountsAssumption DEF Counting, Maximum, Login
      <3>2. limit'[b] = Counted(r, b)
        BY <1>2, <3>1, Committed DEF Tell
      <3>3. verdicts'[b] = IF Over(r, b) THEN 1 ELSE verdicts[b] + 1
        BY <1>2, <2>1 DEF Tell
      <3>4. CASE Over(r, b)
        BY <1>2, <3>1, <3>2, <3>3, <3>4, Counts
      <3>5. CASE ~Over(r, b)
        <4>1. limit'[b].attempts = limit[b].attempts + 1
          BY <1>2, <3>1, <3>2, <3>5, Counts
        <4> QED
          BY <1>1, <3>1, <3>2, <3>3, <3>5, <4>1
      <3> QED
        BY <3>4, <3>5
    <2>2. CASE b \notin {Global, call[r].name}
      BY <1>1, <1>2, <2>2, Committed DEF Tell, Counting
    <2> QED
      BY <2>1, <2>2
  <1>3. ASSUME NEW r \in Request, Throttle(r)
        PROVE  verdicts'[b] <= limit'[b].attempts /\ verdicts'[b] <= Maximum(b)
    <2>1. CASE lock[b] = r
      <3>1. call[r] \in Login /\ limit'[b] = Counted(r, b)
        BY <1>3, <2>1, Committed DEF Throttle, Counting
      <3>2. verdicts'[b] = IF Over(r, b) THEN 0 ELSE verdicts[b]
        BY <1>3, <2>1 DEF Throttle
      <3> QED
        BY <1>1, <3>1, <3>2, Counts
    <2>2. CASE lock[b] # r
      BY <1>1, <1>3, <2>2, Committed DEF Throttle
    <2> QED
      BY <2>1, <2>2
  <1>4. CASE UNCHANGED <<limit, verdicts>>
    BY <1>1, <1>4
  <1>5. ASSUME NEW r \in Request, Refuse(r) \/ \E t \in Token : Grant(r, t)
        PROVE  call[r] \in Login /\ Tell(r) /\ pc[r] = "act"
    BY <1>5, Forms DEF Refuse, Grant, Places, Call
  <1> QED
    BY <1>2, <1>3, <1>4, <1>5
       DEF Next, Tick, Create, SignIn, Command, Arrive, Start, CountGlobal, CountName,
           CountBucket, ReadRow, Fail, Administer, Admit, Reject, Served, Logout,
           vars, tables

\* The invariant holds in each state.
THEOREM Invariance == Spec => []IInv
  <1>1. IInv /\ [Next]_vars => IInv'
    BY TypeStep, PlacesStep, CountingStep, ReadingStep, SessionsStep, VisitsStep,
       ThrottledStep DEF IInv
  <1> QED
    BY <1>1, InitIInv, PTL DEF Spec

\* The tables, the locks and the requests have their types.
THEOREM TypesCorrect == Spec => []TypeOK
  BY Invariance, PTL DEF IInv

\* No sign-in leaves a session behind that a reset or a disabling should have ended,
\* whichever of them commits first (auth/local.py:41, scripts/accounts.py:25-31).
THEOREM SessionsStayCurrent == Spec => []SessionsCurrent
  BY Invariance, PTL DEF IInv

\* What is served was good when it arrived (api/main.py:64-71).
THEOREM ServedLive == Spec => []ServedWereLive
  BY Invariance, PTL DEF IInv

\* Verdicts on passwords stay within both throttles (auth/local.py:25-37).
THEOREM VerdictsThrottled == Spec => []Throttled
  BY Invariance, PTL DEF IInv

\* Only a reset changes a password (auth/local.py:44-46, scripts/accounts.py:27-28).
THEOREM OnlyResetsChange == Spec => PasswordStands
  <1> DEFINE Chosen == \A n \in Name :
       account[n] # None /\ account'[n].password # account[n].password =>
         \E r \in Request :
           /\ pc[r] = "act" /\ call[r].kind = "reset"
           /\ call[r].name = n /\ call[r].word = account'[n].password
  <1>1. ASSUME IInv, [Next]_vars, NEW n \in Name, account[n] # None,
               account'[n].password # account[n].password
        PROVE  \E r \in Request :
                 /\ pc[r] = "act" /\ call[r].kind = "reset"
                 /\ call[r].name = n /\ call[r].word = account'[n].password
    <2>1. ASSUME NEW m \in Name, NEW p \in Password, Create(m, p)
          PROVE  account'[n] = account[n]
      BY <1>1, <2>1 DEF Create, IInv, TypeOK
    <2>2. PICK r \in Request : Administer(r)
      BY <1>1, <2>1, Granted, RowWriters
    <2>3. /\ call[r].name = n /\ account'[n] = Changed(call[r], account[n])
          /\ account[n] \in Account /\ pc[r] = "act" /\ call[r].kind \in Change
      BY <1>1, <2>2, Administered DEF Administer
    <2> QED
      BY <1>1, <2>3 DEF Changed, Account, Change
  <1>2. IInv /\ [Next]_vars => [Chosen]_vars
    BY <1>1
  <1> QED
    BY <1>2, Invariance, PTL DEF Spec, PasswordStands

\* Signing in elsewhere, and the end of other sessions, spare a session
\* (auth/local.py:48, api/main.py:98, scripts/accounts.py:31).
THEOREM SessionsSpared == Spec => SessionKept
  <1> DEFINE Spared == \A t \in Token :
       session[t] # None /\ session[t].expires > clock /\ session'[t] = None =>
         \E r \in Request :
           \/ pc[r] = "serving" /\ call[r].token = t
           \/ /\ pc[r] = "act" /\ call[r].kind \in Change
              /\ call[r].name = session[t].owner
  <1>1. ASSUME IInv, [Next]_vars, NEW t \in Token, session[t] # None,
               session[t].expires > clock, session'[t] = None
        PROVE  \E r \in Request :
                 \/ pc[r] = "serving" /\ call[r].token = t
                 \/ /\ pc[r] = "act" /\ call[r].kind \in Change
                    /\ call[r].name = session[t].owner
    <2>1. ASSUME NEW r \in Request, NEW s \in Token, Grant(r, s) PROVE FALSE
      <3>1. session[t].expires <= call[r].begun
        BY <1>1, <2>1, Granted
      <3>2. call[r].begun <= clock /\ call[r].begun \in Nat /\ clock \in Nat
        <4>1. call[r] \in Login
          BY <1>1, <2>1, Granted
        <4> QED
          BY <1>1, <4>1, Forms DEF IInv, Places, TypeOK, Call
      <3>3. session[t].expires \in Nat
        BY <1>1, AccountsAssumption DEF IInv, TypeOK, Session
      <3> QED
        BY <1>1, <3>1, <3>2, <3>3
    <2>2. ASSUME NEW r \in Request, Administer(r)
          PROVE  pc[r] = "act" /\ call[r].kind \in Change /\ call[r].name = session[t].owner
      BY <1>1, <2>2, Administered DEF Administer
    <2>3. ASSUME NEW r \in Request, Logout(r)
          PROVE  pc[r] = "serving" /\ call[r].token = t
      BY <1>1, <2>3 DEF Logout, IInv, TypeOK
    <2>4. CASE session' = session
      BY <1>1, <2>4
    <2> QED
      BY <1>1, <2>1, <2>2, <2>3, <2>4
         DEF Next, Tick, Create, SignIn, Command, Arrive, Start, CountGlobal, CountName,
             CountBucket, ReadRow, Refuse, Throttle, Fail, Admit, Reject, Served,
             vars, tables
  <1>2. IInv /\ [Next]_vars => [Spared]_vars
    BY <1>1
  <1> QED
    BY <1>2, Invariance, PTL DEF Spec, SessionKept
==============================================================================
