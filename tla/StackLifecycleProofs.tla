------------------------- MODULE StackLifecycleProofs -------------------------
(***************************************************************************)
(* Proofs about StackLifecycle for any containers, services, replicas and  *)
(* processes.                                                              *)
(***************************************************************************)
EXTENDS StackLifecycle, FiniteSetTheorems, TLAPS

Place == Tried \union {"idle", "failing", "verified", "failed"}

\* What one process does leaves the others where they are; only the one with the
\* lock is anywhere.
LEMMA Alone ==
  ASSUME TypeOK, NEW p \in Process, phase[p] # "idle"
  PROVE  /\ lock = p /\ run[p] = runs /\ runs \in 1..MaxRuns
         /\ \A q \in Process : q # p => phase[q] = "idle"
  BY LifecycleAssumption DEF TypeOK

\* Containers that a run accepts make up the services, each as desired.
LEMMA Accepted ==
  ASSUME IInv, NEW p \in Process, phase[p] = "inspecting",
         \A c \in Container : seen[p][c] # None,
         Errors(seen[p], desired[p]) = {}
  PROVE  AllMet(desired[p])
  <1> DEFINE read == seen[p]
             present == {c \in Container : read[c] # "absent"}
  <1>1. \A c \in Container : read[c] \in Condition
    BY DEF IInv, TypeOK, ReadSound, Condition, Running
  <1>2. \A c \in Container : c \in Meeting(read, desired[p]) => c \in met
    BY DEF IInv, ReadSound
  <1>3. desired[p] \in Desired /\ met \subseteq Container
    BY DEF IInv, TypeOK, ReadSound
  <1>4. CASE desired[p] = "stopped"
    <2>1. \A c \in Container : read[c] \in {"absent", "clean"}
      BY <1>4 DEF Errors
    <2>2. \A c \in Container : c \in Meeting(read, "stopped")
      BY <2>1 DEF Meeting
    <2> QED
      BY <1>2, <1>3, <1>4, <2>2 DEF AllMet
  <1>5. CASE desired[p] = "running"
    <2>1. \A c \in present : c \in Configured /\ read[c] = "healthy"
      BY <1>5 DEF Errors
    <2>2. \A s \in Service : Cardinality({c \in present : ServiceOf[c] = s}) = Replicas[s]
      BY <1>5 DEF Errors
    <2>3. present \subseteq met
      BY <1>2, <1>5, <2>1 DEF Meeting
    <2>4. Container \ Configured \subseteq met
      BY <1>2, <1>5, <2>1 DEF Meeting
    <2>5. ASSUME NEW s \in Service
          PROVE  Cardinality({c \in met : ServiceOf[c] = s}) >= Replicas[s]
      <3> DEFINE read_s == {c \in present : ServiceOf[c] = s}
                 met_s == {c \in met : ServiceOf[c] = s}
      <3>1. IsFiniteSet(met_s) /\ read_s \subseteq met_s
        <4>1. met_s \subseteq Container
          BY <1>3
        <4>2. IsFiniteSet(met_s)
          BY <4>1, LifecycleAssumption, FS_Subset
        <4> QED
          BY <4>2, <2>3
      <3>2. Cardinality(read_s) <= Cardinality(met_s)
        BY <3>1, FS_Subset
      <3>3. Cardinality(read_s) = Replicas[s]
        BY <2>2
      <3>4. Cardinality(read_s) \in Nat /\ Cardinality(met_s) \in Nat
        BY <3>1, FS_Subset, FS_CardinalityType
      <3> HIDE DEF read_s, met_s
      <3>5. Cardinality(met_s) >= Replicas[s]
        BY <3>2, <3>3, <3>4
      <3> QED
        BY <3>5 DEF met_s
    <2> QED
      BY <1>5, <2>4, <2>5 DEF AllMet
  <1> QED
    BY <1>3, <1>4, <1>5 DEF Desired

\* What has met the desire still has when more have.
LEMMA MetGrows ==
  ASSUME NEW want \in Desired, TypeOK, AllMet(want), met \subseteq met', met' \subseteq Container
  PROVE  AllMet(want)'
  <1>1. CASE want = "stopped"
    BY <1>1 DEF AllMet
  <1>2. CASE want = "running"
    <2>1. ASSUME NEW s \in Service
          PROVE  Cardinality({c \in met' : ServiceOf[c] = s}) >= Replicas[s]
      <3> DEFINE before == {c \in met : ServiceOf[c] = s}
                 after == {c \in met' : ServiceOf[c] = s}
      <3>1. IsFiniteSet(after) /\ before \subseteq after
        <4>1. after \subseteq Container
          OBVIOUS
        <4>2. IsFiniteSet(after)
          BY <4>1, LifecycleAssumption, FS_Subset
        <4> QED
          BY <4>2
      <3>2. Cardinality(before) <= Cardinality(after)
        BY <3>1, FS_Subset
      <3>3. Cardinality(before) >= Replicas[s]
        BY <1>2 DEF AllMet
      <3>4. Cardinality(before) \in Nat /\ Cardinality(after) \in Nat /\ Replicas[s] \in Nat
        BY <3>1, FS_Subset, FS_CardinalityType, LifecycleAssumption
      <3> HIDE DEF before, after
      <3>5. Cardinality(after) >= Replicas[s]
        BY <3>2, <3>3, <3>4
      <3> QED
        BY <3>5 DEF after
    <2> QED
      BY <1>2, <2>1 DEF AllMet
  <1> QED
    BY <1>1, <1>2 DEF Desired

\* Nothing runs at first.
LEMMA InitIInv == Init => IInv
  <1> SUFFICES ASSUME Init PROVE IInv
    OBVIOUS
  <1> USE LifecycleAssumption DEF Init
  <1>1. TypeOK
    BY DEF TypeOK, Condition, Running, Unread
  <1>2. WorkSound /\ StatusSound /\ ReadSound
    BY DEF WorkSound, StatusSound, ReadSound, Tried
  <1> QED
    BY <1>1, <1>2 DEF IInv

\* A process that has ended is idle, and the lock is free.
LEMMA Ended ==
  ASSUME IInv, NEW p \in Process, phase[p] # "idle", Exit(p), told' \in Event \union {None}
  PROVE  IInv'
  <1>1. lock = p /\ \A q \in Process : q # p => phase[q] = "idle"
    BY Alone DEF IInv
  <1>2. /\ lock' = None /\ \A q \in Process : phase'[q] = "idle"
        /\ UNCHANGED <<cond, work, runs, status>>
    BY <1>1 DEF Exit, Goto, IInv, TypeOK
  <1>3. TypeOK'
    <2>1. /\ run' \in [Process -> 0..MaxRuns]
          /\ action' \in [Process -> Action \union {None}]
          /\ desired' \in [Process -> Desired \union {None}]
          /\ phase' \in [Process -> Place]
      BY LifecycleAssumption DEF Exit, Goto, IInv, TypeOK, Place
    <2>2. seen' \in [Process -> [Container -> Condition \union {None, "answered"}]]
      BY DEF Exit, IInv, TypeOK, Unread
    <2> QED
      BY <1>2, <2>1, <2>2 DEF Exit, IInv, TypeOK, Place
  <1>4. (WorkSound /\ StatusSound /\ ReadSound)'
    BY <1>2 DEF IInv, WorkSound, StatusSound, ReadSound, Tried
  <1> QED
    BY <1>3, <1>4 DEF IInv

\* A run that gives up has read nothing that counts, and has recorded nothing.
LEMMA GivenUp ==
  ASSUME IInv, NEW p \in Process, phase[p] \in Tried, GiveUp(p), work' \subseteq work
  PROVE  IInv'
  <1>1. phase[p] # "idle"
    BY DEF Tried
  <1>2. \A q \in Process : q # p => phase[q] = "idle"
    BY <1>1, Alone DEF IInv
  <1>3. /\ phase'[p] = "failing" /\ \A q \in Process : q # p => phase'[q] = "idle"
        /\ UNCHANGED <<cond, lock, runs, run, action, desired, status, told>>
    BY <1>2 DEF GiveUp, Goto, IInv, TypeOK
  <1>4. TypeOK'
    BY <1>1, <1>3 DEF GiveUp, Goto, IInv, TypeOK, Unread
  <1>5. (WorkSound /\ StatusSound /\ ReadSound)'
    BY <1>1, <1>3 DEF IInv, WorkSound, StatusSound, ReadSound, Tried
  <1> QED
    BY <1>4, <1>5 DEF IInv

\* Every step of the script keeps the invariant.
LEMMA ScriptStep ==
  ASSUME IInv, NEW p \in Process,
         (\E act \in Action, want \in Desired : Begin(p, act, want)) \/ Go(p)
           \/ Fail(p) \/ TimeOut(p) \/ Die(p)
  PROVE  IInv'
  <1> USE LifecycleAssumption
  <1>t. TypeOK /\ WorkSound /\ StatusSound /\ ReadSound
    BY DEF IInv
  <1>1. CASE \E act \in Action, want \in Desired : Begin(p, act, want)
    <2>1. PICK act \in Action, want \in Desired : Begin(p, act, want)
      BY <1>1
    <2>2. \A q \in Process : phase[q] = "idle"
      BY <2>1, <1>t DEF Begin, TypeOK
    <2>3. /\ phase'[p] = "prechecking" /\ run'[p] = runs' /\ runs' = runs + 1 /\ runs' \in 1..MaxRuns
          /\ action'[p] = act /\ desired'[p] = want
          /\ \A q \in Process : q # p => phase'[q] = "idle"
          /\ UNCHANGED <<cond, work, seen, status, told, met>>
      BY <2>1, <2>2, <1>t DEF Begin, Goto, TypeOK
    <2>4. TypeOK'
      BY <2>1, <2>3, <1>t DEF Begin, Goto, TypeOK, Tried
    <2>5. (\A w \in work : w.run \in Nat /\ w.run <= runs) /\ runs \in Nat
      BY <1>t DEF TypeOK, WorkSound
    <2>6. status # None => status.run \in Nat /\ status.run <= runs
      BY <1>t DEF TypeOK, StatusSound, Status
    <2>7. WorkSound'
      BY <2>3, <2>5 DEF WorkSound, Tried
    <2>8. StatusSound'
      BY <2>3, <2>5, <2>6 DEF StatusSound, Tried
    <2>9. ReadSound'
      BY <2>3 DEF ReadSound
    <2> QED
      BY <2>4, <2>7, <2>8, <2>9 DEF IInv
  <1>2. ASSUME phase[p] # "idle"
        PROVE  /\ lock = p /\ run[p] = runs /\ runs \in 1..MaxRuns
               /\ \A q \in Process : q # p => phase[q] = "idle"
    BY <1>2, <1>t, Alone
  <1>3. CASE Precheck(p)
    <2>1. TypeOK'
      BY <1>3, <1>t DEF Precheck, Goto, TypeOK, Tried
    <2>2. /\ phase[p] = "prechecking" /\ phase'[p] = "ready"
          /\ \A q \in Process : q # p => phase'[q] = "idle"
          /\ UNCHANGED <<work, runs, run, action, desired, status, met>>
      BY <1>3, <1>2, <1>t DEF Precheck, Goto, TypeOK
    <2>3. (WorkSound /\ StatusSound /\ ReadSound)'
      BY <2>2, <1>t DEF WorkSound, StatusSound, ReadSound, Tried
    <2> QED
      BY <2>1, <2>3 DEF IInv
  <1>4. CASE Command(p)
    <2>1. /\ phase[p] = "ready" /\ phase'[p] = "commanding" /\ action[p] \in {"start", "stop"}
          /\ \A q \in Process : q # p => phase'[q] = "idle"
          /\ work' = work \union {[run |-> run[p], does |-> action[p]]}
          /\ UNCHANGED <<cond, lock, runs, run, action, desired, seen, status, told, met>>
      BY <1>4, <1>2, <1>t DEF Command, Goto, TypeOK, ReadSound, Action
    <2>2. run[p] = runs /\ runs \in 1..MaxRuns
      BY <2>1, <1>2
    <2>3. TypeOK'
      BY <1>4, <2>1, <2>2, <1>t DEF Command, Goto, TypeOK, Tried
    <2>4. (WorkSound /\ StatusSound /\ ReadSound)'
      BY <2>1, <2>2, <1>t DEF WorkSound, StatusSound, ReadSound, Tried
    <2> QED
      BY <2>3, <2>4 DEF IInv
  <1>5. CASE Inspect(p)
    <2>1. /\ phase[p] \in {"ready", "commanding"} /\ phase'[p] = "inspecting"
          /\ \A q \in Process : q # p => phase'[q] = "idle"
          /\ work' = {w \in work : w.run # run[p]}
          /\ seen'[p] = Unread
          /\ met' = Meeting(cond, desired[p])
          /\ UNCHANGED <<cond, lock, runs, run, action, desired, status, told>>
      BY <1>5, <1>2, <1>t DEF Inspect, Commanded, Mine, Goto, TypeOK
    <2>2. TypeOK'
      BY <1>5, <2>1, <1>t DEF Inspect, Goto, TypeOK, Tried, Unread, Meeting
    <2>3. \A w \in work' : w.run < run[p]
      <3>1. \A w \in work : w.run \in Nat /\ w.run <= runs
        BY <1>t DEF TypeOK, WorkSound
      <3> QED
        BY <2>1, <3>1, <1>2
    <2>4. WorkSound'
      BY <2>1, <2>3, <1>t DEF WorkSound, Tried
    <2>5. StatusSound'
      BY <2>1, <1>t DEF StatusSound, Tried
    <2>6. desired[p] \in Desired /\ action[p] \in Action
      BY <2>1, <1>t DEF ReadSound
    <2>7. \A c \in Container : seen'[p][c] = None /\ c \notin Meeting(seen'[p], desired[p])
      BY <2>1, <2>6 DEF Unread, Meeting, Desired, Condition, Running
    <2>8. Meeting(seen'[p], desired[p]) = {}
      BY <2>7 DEF Meeting
    <2>9. ReadSound'
      BY <2>1, <2>6, <2>7, <2>8 DEF ReadSound
    <2> QED
      BY <2>2, <2>4, <2>5, <2>9 DEF IInv
  <1>6. ASSUME NEW c \in Container, Read(p, c) PROVE IInv'
    <2>1. /\ phase[p] = "inspecting" /\ phase' = phase
          /\ seen'[p][c] = cond[c] /\ \A d \in Container : d # c => seen'[p][d] = seen[p][d]
          /\ UNCHANGED <<cond, work, lock, runs, run, action, desired, status, told, met>>
      BY <1>6, <1>t DEF Read, TypeOK
    <2>2. TypeOK'
      BY <1>6, <2>1, <1>t DEF Read, TypeOK
    <2>3. \A q \in Process : phase[q] # "idle" => q = p
      BY <2>1, <1>2
    <2>4. Meeting(seen'[p], desired[p]) \subseteq met
      <3>1. desired[p] \in Desired /\ Meeting(cond, desired[p]) \subseteq met
            /\ Meeting(seen[p], desired[p]) \subseteq met
        BY <2>1, <1>t DEF ReadSound
      <3>2. \A d \in Container : d \in Meeting(seen'[p], desired[p]) =>
              d \in Meeting(cond, desired[p]) \/ d \in Meeting(seen[p], desired[p])
        BY <2>1, <3>1 DEF Meeting, Desired
      <3>3. Meeting(seen'[p], desired[p]) \subseteq Container
        BY DEF Meeting
      <3> QED
        BY <3>1, <3>2, <3>3
    <2>7. \A d \in Container : seen'[p][d] # "answered"
      BY <2>1, <1>t DEF ReadSound, TypeOK, Condition, Running
    <2>5. (WorkSound /\ StatusSound)'
      BY <2>1, <1>t DEF WorkSound, StatusSound
    <2>6. ReadSound'
      BY <2>1, <2>3, <2>4, <2>7, <1>t DEF ReadSound
    <2> QED
      BY <2>2, <2>5, <2>6 DEF IInv
  <1>7. CASE Accept(p)
    <2>1. /\ phase[p] = "inspecting" /\ phase'[p] = "probing"
          /\ \A q \in Process : q # p => phase'[q] = "idle"
          /\ UNCHANGED <<cond, work, lock, runs, run, action, desired, seen, status, told, met>>
      BY <1>7, <1>2, <1>t DEF Accept, Goto, TypeOK
    <2>2. AllMet(desired[p])
      BY <1>7, Accepted DEF Accept
    <2>3. TypeOK'
      BY <1>7, <2>1, <1>t DEF Accept, Goto, TypeOK, Tried
    <2>4. (WorkSound /\ StatusSound)'
      BY <2>1, <1>t DEF WorkSound, StatusSound, Tried
    <2>5. ReadSound'
      BY <2>1, <2>2, <1>t DEF ReadSound, AllMet
    <2> QED
      BY <2>3, <2>4, <2>5 DEF IInv
  <1>8. CASE Reject(p) \/ Fail(p) \/ TimeOut(p)
    <2>1. phase[p] \in Tried /\ GiveUp(p) /\ work' \subseteq work
      BY <1>8 DEF Reject, Fail, TimeOut, Tried
    <2> QED
      BY <2>1, GivenUp
  <1>9. ASSUME NEW c \in Probed, Probe(p, c) PROVE IInv'
    <2>1. /\ phase[p] = "probing" /\ phase' = phase
          /\ UNCHANGED <<cond, work, lock, runs, run, action, desired, status, told, met>>
      BY <1>9 DEF Probe
    <2>2. TypeOK'
      BY <1>9, <2>1, <1>t DEF Probe, TypeOK
    <2>3. \A q \in Process : phase[q] # "idle" => q = p
      BY <2>1, <1>2
    <2>4. (WorkSound /\ StatusSound)'
      BY <2>1, <1>t DEF WorkSound, StatusSound
    <2>5. ReadSound'
      BY <2>1, <2>3, <1>t DEF ReadSound, AllMet
    <2> QED
      BY <2>2, <2>4, <2>5 DEF IInv
  <1>10. CASE Save(p) \/ Record(p)
    <2>1. /\ phase[p] \in {"probing", "failing"} /\ phase'[p] \in {"verified", "failed"}
          /\ \A q \in Process : q # p => phase'[q] = "idle"
          /\ UNCHANGED <<cond, work, lock, runs, run, action, desired, seen, told, met>>
      BY <1>10, <1>2, <1>t DEF Save, Record, Goto, TypeOK
    <2>2. /\ status' \in Status /\ status'.run = run[p]
          /\ status'.verified = (phase'[p] = "verified")
      <3>1. run[p] \in 1..MaxRuns /\ desired[p] \in Desired
        BY <2>1, <1>2, <1>t DEF ReadSound
      <3>2. CASE Save(p)
        <4>1. phase'[p] = "verified"
          BY <3>2, <1>t DEF Save, Goto, TypeOK
        <4>2. status' = [run |-> run[p], verified |-> TRUE, expected |-> desired[p]]
          BY <3>2 DEF Save
        <4>3. status' \in Status
          BY <4>2, <3>1 DEF Status
        <4> QED
          BY <4>1, <4>2, <4>3
      <3>3. CASE Record(p)
        <4>1. phase'[p] = "failed"
          BY <3>3, <1>t DEF Record, Goto, TypeOK
        <4>2. status' = [run |-> run[p], verified |-> FALSE, expected |-> None]
          BY <3>3 DEF Record
        <4>3. status' \in Status
          BY <4>2, <3>1 DEF Status
        <4> QED
          BY <4>1, <4>2, <4>3
      <3> QED
        BY <1>10, <3>2, <3>3
    <2>3. phase' \in [Process -> Tried \union {"idle", "failing", "verified", "failed"}]
      BY <1>10, <1>t DEF Save, Record, Goto, TypeOK
    <2>4. run[p] = runs /\ lock = p
      BY <2>1, <1>2
    <2>5. TypeOK'
      BY <2>1, <2>2, <2>3, <1>t DEF TypeOK
    <2>6. status' # None
      BY <2>2
    <2>7. StatusSound'
      BY <2>1, <2>2, <2>4, <2>6, <1>t DEF StatusSound, TypeOK, Tried
    <2>8. (WorkSound /\ ReadSound)'
      BY <2>1, <1>t DEF WorkSound, ReadSound, Tried
    <2> QED
      BY <2>5, <2>7, <2>8 DEF IInv
  <1>11. CASE Announce(p) \/ Die(p)
    <2>1. phase[p] # "idle" /\ Exit(p)
      BY <1>11 DEF Announce, Die
    <2>2. told' \in Event \union {None}
      <3>1. run[p] \in 1..MaxRuns
        BY <2>1, <1>2
      <3>2. CASE Announce(p)
        <4>1. (phase[p] = "verified") \in BOOLEAN
          OBVIOUS
        <4>2. told' = [run |-> run[p], verified |-> phase[p] = "verified"]
          BY <3>2 DEF Announce
        <4> QED
          BY <3>1, <4>1, <4>2 DEF Event
      <3>3. CASE Die(p)
        BY <3>3, <1>t DEF Die, TypeOK
      <3> QED
        BY <1>11, <3>2, <3>3
    <2> QED
      BY <2>1, <2>2, Ended
  <1> QED
    BY <1>1, <1>3, <1>4, <1>5, <1>6, <1>7, <1>8, <1>9, <1>10, <1>11 DEF Go

\* What containers do while a run looks at them only adds to what was as desired.
LEMMA ContainerStep ==
  ASSUME IInv, NEW c \in Container, NEW to \in Condition, Become(c, to)
  PROVE  IInv'
  <1>t. TypeOK /\ WorkSound /\ StatusSound /\ ReadSound
    BY DEF IInv
  <1>1. /\ cond' \in [Container -> Condition] /\ met \subseteq met' /\ met' \subseteq Container
        /\ UNCHANGED <<work, lock, runs, phase, run, action, desired, seen, status, told>>
    BY <1>t DEF Become, TypeOK, Meeting, process
  <1>2. TypeOK'
    BY <1>1, <1>t DEF TypeOK
  <1>3. (WorkSound /\ StatusSound)'
    BY <1>1, <1>t DEF WorkSound, StatusSound
  <1>4. ASSUME NEW p \in Process, phase[p] = "probing" PROVE AllMet(desired[p])'
    <2>1. desired[p] \in Desired /\ AllMet(desired[p]) /\ desired'[p] = desired[p]
      BY <1>1, <1>4, <1>t DEF ReadSound
    <2> DEFINE want == desired[p]
    <2>2. AllMet(want)'
      BY <1>1, <1>t, <2>1, MetGrows
    <2> QED
      BY <2>1, <2>2
  <1>5. ASSUME NEW p \in Process, phase[p] = "inspecting"
        PROVE  Meeting(cond', desired[p]) \subseteq met'
    <2>1. lock = p
      BY <1>5, <1>t, Alone
    <2> QED
      BY <1>5, <2>1 DEF Become
  <1>6. ASSUME NEW p \in Process, phase[p] = "inspecting"
        PROVE  Meeting(seen[p], desired[p]) \subseteq met'
    BY <1>1, <1>6, <1>t DEF ReadSound
  <1>7. ReadSound'
    BY <1>1, <1>4, <1>5, <1>6, <1>t DEF ReadSound
  <1> QED
    BY <1>2, <1>3, <1>7 DEF IInv

\* A command that Docker is done with is not at work.
LEMMA FinishStep ==
  ASSUME IInv, NEW w \in work, Finish(w)
  PROVE  IInv'
  <1>1. /\ work' \subseteq work
        /\ UNCHANGED <<cond, lock, runs, phase, run, action, desired, seen, status, told, met>>
    BY DEF Finish, process
  <1>2. TypeOK'
    BY <1>1 DEF IInv, TypeOK
  <1>3. (WorkSound /\ StatusSound /\ ReadSound)'
    BY <1>1 DEF IInv, WorkSound, StatusSound, ReadSound, AllMet
  <1> QED
    BY <1>2, <1>3 DEF IInv

\* Every step keeps the invariant.
LEMMA StepIInv == IInv /\ [Next]_vars => IInv'
  <1> SUFFICES ASSUME IInv, [Next]_vars PROVE IInv'
    OBVIOUS
  <1>1. ASSUME NEW p \in Process,
               (\E act \in Action, want \in Desired : Begin(p, act, want)) \/ Go(p)
                 \/ Fail(p) \/ TimeOut(p) \/ Die(p)
        PROVE  IInv'
    BY <1>1, ScriptStep
  <1>2. ASSUME NEW c \in Container, NEW to \in Condition, Become(c, to) PROVE IInv'
    BY <1>2, ContainerStep
  <1>3. ASSUME NEW c \in Container,
               Start(c) \/ (\E how \in {"clean", "abnormal"} : Stop(c, how))
                 \/ (\E to \in Running : Change(c, to))
        PROVE  IInv'
    <2>1. \E to \in Condition : Become(c, to)
      BY <1>3 DEF Start, Stop, Change, Condition, Running
    <2> QED
      BY <1>2, <2>1
  <1>4. ASSUME NEW w \in work, Finish(w) PROVE IInv'
    BY <1>4, FinishStep
  <1>5. CASE UNCHANGED vars
    BY <1>5 DEF vars, process, IInv, TypeOK, WorkSound, StatusSound, ReadSound, AllMet
  <1> QED
    BY <1>1, <1>3, <1>4, <1>5 DEF Next

\* The strengthened invariant holds in every state.
THEOREM Invariance == Spec => []IInv
  BY InitIInv, StepIInv, PTL DEF Spec

\* The variables have their types, and who is past the lock has it.
THEOREM TypesCorrect == Spec => []TypeOK
  <1>1. IInv => TypeOK
    BY DEF IInv
  <1> QED
    BY Invariance, <1>1, PTL

\* Who changes the status file, and what it then says.
LEMMA Writers ==
  ASSUME IInv, [Next]_vars, status' # status
  PROVE  \E p \in Process : Save(p) \/ Record(p)
  <1>1. ASSUME NEW p \in Process,
               (\E act \in Action, want \in Desired : Begin(p, act, want)) \/ Go(p)
                 \/ Fail(p) \/ TimeOut(p) \/ Die(p)
        PROVE  Save(p) \/ Record(p)
    BY <1>1 DEF Begin, Go, Precheck, Command, Inspect, Accept, Reject, Read, Probe, Announce,
       Fail, TimeOut, GiveUp, Die, Exit
  <1>2. ~ \E c \in Container : \/ Start(c)
                              \/ \E how \in {"clean", "abnormal"} : Stop(c, how)
                              \/ \E to \in Running : Change(c, to)
    BY DEF Start, Stop, Change, Become
  <1>3. ~ \E w \in work : Finish(w)
    BY DEF Finish
  <1>4. Next
    BY DEF vars
  <1> QED
    BY <1>1, <1>2, <1>3, <1>4 DEF Next

\* A run is recorded as verified only if all containers of each service were as
\* desired since its command had ended.
THEOREM VerifiedMet == Spec => VerifiedWasMet
  <1>1. IInv /\ [Next]_vars =>
          [status' # status /\ status'.verified => AllMet(status'.expected)]_vars
    <2> SUFFICES ASSUME IInv, [Next]_vars, status' # status, status'.verified
                 PROVE  AllMet(status'.expected)
      OBVIOUS
    <2>1. PICK p \in Process : Save(p) \/ Record(p)
      BY Writers
    <2>2. ~Record(p)
      BY DEF Record
    <2>3. phase[p] = "probing" /\ status'.expected = desired[p]
      BY <2>1, <2>2 DEF Save
    <2> QED
      BY <2>3 DEF IInv, ReadSound
  <1> QED
    BY Invariance, <1>1, PTL DEF Spec, VerifiedWasMet

\* The status file moves to later runs only.
LEMMA StatusForward ==
  ASSUME IInv, [Next]_vars, status' # status, status # None
  PROVE  status.run < status'.run
  <1>1. PICK p \in Process : Save(p) \/ Record(p)
    BY Writers
  <1>2. phase[p] \in Tried \union {"failing"} /\ status'.run = run[p]
    BY <1>1 DEF Save, Record, Tried
  <1> QED
    BY <1>2 DEF IInv, StatusSound

\* What the log says last of a run is what the status file then says.
LEMMA EventRecorded ==
  ASSUME IInv, [Next]_vars, told' # told
  PROVE  /\ status # None
         /\ told' = [run |-> status.run, verified |-> status.verified]
  <1>1. ASSUME NEW p \in Process,
               (\E act \in Action, want \in Desired : Begin(p, act, want)) \/ Go(p)
                 \/ Fail(p) \/ TimeOut(p) \/ Die(p)
        PROVE  Announce(p)
    BY <1>1 DEF Begin, Go, Precheck, Command, Inspect, Accept, Reject, Read, Probe, Save,
       Record, Fail, TimeOut, GiveUp, Die, Exit
  <1>2. ~ \E c \in Container : \/ Start(c)
                              \/ \E how \in {"clean", "abnormal"} : Stop(c, how)
                              \/ \E to \in Running : Change(c, to)
    BY DEF Start, Stop, Change, Become
  <1>3. ~ \E w \in work : Finish(w)
    BY DEF Finish
  <1>4. Next
    BY DEF vars
  <1>5. PICK p \in Process : Announce(p)
    BY <1>1, <1>2, <1>3, <1>4 DEF Next
  <1>6. /\ phase[p] \in {"verified", "failed"}
        /\ told' = [run |-> run[p], verified |-> phase[p] = "verified"]
    BY <1>5 DEF Announce
  <1>7. /\ status # None /\ status.run = run[p]
        /\ status.verified = (phase[p] = "verified")
    BY <1>6 DEF IInv, StatusSound
  <1> QED
    BY <1>6, <1>7

\* The status file moves to later runs only, and events say what it says.
THEOREM HonestStatus == Spec => StatusHonest
  <1>1. IInv /\ [Next]_vars =>
          [/\ status' # status => status = None \/ status.run < status'.run
           /\ told' # told =>
                /\ status # None
                /\ told' = [run |-> status.run, verified |-> status.verified]]_vars
    BY StatusForward, EventRecorded
  <1> QED
    BY Invariance, <1>1, PTL DEF Spec, StatusHonest
==============================================================================
