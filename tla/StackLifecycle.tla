---------------------------- MODULE StackLifecycle ----------------------------
(***************************************************************************)
(* Starting, stopping and checking the containers of the project           *)
(* (scripts/lifecycle.py): runs of the script under a file lock, Docker    *)
(* that carries out their commands, containers that change all the while,  *)
(* and the status file.  Every command has a timeout; one that has run out *)
(* may leave Docker at work.  A run that finds the lock taken exits with 2 *)
(* and changes nothing, so it is no step here.                             *)
(***************************************************************************)
EXTENDS Integers, FiniteSets

CONSTANTS
  Container,  \* containers the project may have
  ServiceOf,  \* the service a container belongs to
  Replicas,   \* per configured service: how many containers it has
  Probed,     \* containers of services that are queried: postgres, redis, qdrant
  Process,    \* processes of the script
  MaxRuns,    \* bound: runs that get the lock
  None        \* nobody, nothing read

Service == DOMAIN Replicas
Configured == {c \in Container : ServiceOf[c] \in Service}

\* "unwell": runs, but is starting, unhealthy or has been out of memory; "clean":
\* created, or exited with 0 or 143; "abnormal": exited otherwise or out of memory.
Running   == {"unwell", "healthy"}
Condition == Running \union {"absent", "clean", "abnormal"}

Action  == {"start", "stop", "check"}
Desired == {"running", "stopped"}

\* What is written to the status file, and to the log at last.
Status == [run : 1..MaxRuns, verified : BOOLEAN, expected : Desired \union {None}]
Event  == [run : 1..MaxRuns, verified : BOOLEAN]

ASSUME LifecycleAssumption ==
  /\ IsFiniteSet(Container) /\ DOMAIN ServiceOf = Container
  /\ Replicas \in [Service -> Nat \ {0}] /\ Service # {}
  /\ Probed \subseteq Configured /\ MaxRuns \in Nat
  /\ None \notin Process \union Condition \union {"answered"} \union Action \union Desired
               \union Status \union Event

VARIABLES
  cond,    \* containers as they are
  work,    \* the commands Docker is at work on, by the run that gave them
  lock,    \* the process that has logs/lifecycle.lock
  runs,    \* how many runs have begun
  phase,   \* where a process is
  run,     \* the number of its run
  action,  \* what it does
  desired, \* what it then expects of the containers
  seen,    \* what it has read of them
  status,  \* logs/status.json
  told,    \* the last event lifecycle_verified or lifecycle_failed
  met      \* history: containers that were as desired since the inspection began

process == <<phase, run, action, desired, seen>>
vars == <<cond, work, lock, runs, process, status, told, met>>

------------------------------------------------------------------------------
\* Mutant of Errors: a set of services is expected, of one container at least each.
ErrorsOfServices(read, want) ==
  IF want = "running"
  THEN {s \in Service : \A c \in Container : ServiceOf[c] = s => read[c] = "absent"}
       \union {c \in Container : read[c] \notin {"absent", "healthy"}}
  ELSE {c \in Container : read[c] \in Running \union {"abnormal"}}

\* state_errors: services with another number of containers than configured, and
\* containers that are not as they should be.
Errors(read, want) ==
  LET present == {c \in Container : read[c] # "absent"}
      of(s) == {c \in present : ServiceOf[c] = s}
  IN  IF want = "running"
      THEN {s \in Service : Cardinality(of(s)) # Replicas[s]}
           \union {c \in present : c \notin Configured \/ read[c] # "healthy"}
      ELSE {c \in present : read[c] # "clean"}

\* The containers that are as desired when conditions are these.
Meeting(conditions, want) ==
  {c \in Container : CASE want = "stopped" -> conditions[c] \in {"absent", "clean"}
                       [] want = "running" -> conditions[c] = IF c \in Configured
                                                              THEN "healthy" ELSE "absent"}

Unread == [c \in Container |-> None]

Init ==
  /\ cond \in [Container -> {"absent", "healthy", "clean"}]
  /\ work = {} /\ lock = None /\ runs = 0
  /\ phase = [p \in Process |-> "idle"]
  /\ run = [p \in Process |-> 0]
  /\ action = [p \in Process |-> None]
  /\ desired = [p \in Process |-> None]
  /\ seen = [p \in Process |-> Unread]
  /\ status = None /\ told = None /\ met = {}

------------------------------------------------------------------------------
(* the script *)

Goto(p, to) == phase' = [phase EXCEPT ![p] = to]

\* Mutant of Begin: a run begins whether or not the file is locked.
BeginUnlocked(p, act, want) ==
  /\ phase[p] = "idle" /\ runs < MaxRuns
  /\ lock' = p /\ runs' = runs + 1
  /\ run' = [run EXCEPT ![p] = runs']
  /\ action' = [action EXCEPT ![p] = act]
  /\ desired' = [desired EXCEPT ![p] = want]
  /\ Goto(p, "prechecking")
  /\ UNCHANGED <<cond, work, seen, status, told, met>>

\* main: LOCK_EX | LOCK_NB succeeds.  Only a check is told what to expect.
Begin(p, act, want) ==
  /\ phase[p] = "idle" /\ lock = None /\ runs < MaxRuns
  /\ act # "check" => want = (IF act = "start" THEN "running" ELSE "stopped")
  /\ lock' = p /\ runs' = runs + 1
  /\ run' = [run EXCEPT ![p] = runs']
  /\ action' = [action EXCEPT ![p] = act]
  /\ desired' = [desired EXCEPT ![p] = want]
  /\ Goto(p, "prechecking")
  /\ UNCHANGED <<cond, work, seen, status, told, met>>

\* The first inspection, for the log.
Precheck(p) ==
  /\ phase[p] = "prechecking"
  /\ seen' = [seen EXCEPT ![p] = cond]
  /\ Goto(p, "ready")
  /\ UNCHANGED <<cond, work, lock, runs, run, action, desired, status, told, met>>

\* docker compose up --wait, or stop.
Command(p) ==
  /\ phase[p] = "ready" /\ action[p] # "check"
  /\ work' = work \union {[run |-> run[p], does |-> action[p]]}
  /\ Goto(p, "commanding")
  /\ UNCHANGED <<cond, lock, runs, run, action, desired, seen, status, told, met>>

Mine(p) == {w \in work : w.run = run[p]}

\* There is no command to wait for, or it has ended well.  All that the script gets is
\* the exit code, which says nothing of the containers now: compose waits for each
\* service on its own, and what was healthy or stopped by then may have changed since.
Commanded(p) ==
  \/ phase[p] = "ready" /\ action[p] = "check"
  \/ phase[p] = "commanding"

\* Mutant of Inspect: what the first inspection has read is looked at.
InspectBefore(p) ==
  /\ Commanded(p)
  /\ work' = work \ Mine(p)
  /\ met' = Meeting(cond, desired[p])
  /\ Goto(p, "inspecting")
  /\ UNCHANGED <<cond, lock, runs, run, action, desired, seen, status, told>>

\* The second inspection begins.
Inspect(p) ==
  /\ Commanded(p)
  /\ work' = work \ Mine(p)
  /\ seen' = [seen EXCEPT ![p] = Unread]
  /\ met' = Meeting(cond, desired[p])
  /\ Goto(p, "inspecting")
  /\ UNCHANGED <<cond, lock, runs, run, action, desired, status, told>>

\* docker inspect reads one container after the other.
Read(p, c) ==
  /\ phase[p] = "inspecting" /\ seen[p][c] = None
  /\ seen' = [seen EXCEPT ![p][c] = cond[c]]
  /\ UNCHANGED <<cond, work, lock, runs, phase, run, action, desired, status, told, met>>

\* The containers are as they should be.
Accept(p) ==
  /\ phase[p] = "inspecting" /\ \A c \in Container : seen[p][c] # None
  /\ Errors(seen[p], desired[p]) = {}
  /\ Goto(p, "probing")
  /\ UNCHANGED <<cond, work, lock, runs, run, action, desired, seen, status, told, met>>

\* probes: a server that is there answers its query.
Probe(p, c) ==
  /\ phase[p] = "probing" /\ desired[p] = "running" /\ seen[p][c] # "answered"
  /\ cond[c] \in Running
  /\ seen' = [seen EXCEPT ![p][c] = "answered"]
  /\ UNCHANGED <<cond, work, lock, runs, phase, run, action, desired, status, told, met>>

\* save_status of a verified run.
Save(p) ==
  /\ phase[p] = "probing"
  /\ desired[p] = "running" => \A c \in Probed : seen[p][c] = "answered"
  /\ status' = [run |-> run[p], verified |-> TRUE, expected |-> desired[p]]
  /\ Goto(p, "verified")
  /\ UNCHANGED <<cond, work, lock, runs, run, action, desired, seen, told, met>>

Tried == {"prechecking", "ready", "commanding", "inspecting", "probing"}

\* Mutant of GiveUp: a failure is told, but not recorded.
GiveUpUnrecorded(p) ==
  /\ Goto(p, "failed")
  /\ seen' = [seen EXCEPT ![p] = Unread]
  /\ met' = {}
  /\ UNCHANGED <<cond, lock, runs, run, action, desired, status, told>>

\* The handler of a failure does not look at what was read before.
GiveUp(p) ==
  /\ Goto(p, "failing")
  /\ seen' = [seen EXCEPT ![p] = Unread]
  /\ met' = {}
  /\ UNCHANGED <<cond, lock, runs, run, action, desired, status, told>>

\* The containers are not as they should be.
Reject(p) ==
  /\ phase[p] = "inspecting" /\ \A c \in Container : seen[p][c] # None
  /\ Errors(seen[p], desired[p]) # {}
  /\ GiveUp(p) /\ UNCHANGED work

\* A command exits with an error, or something else raises.
Fail(p) ==
  /\ phase[p] \in Tried
  /\ work' = work \ Mine(p)
  /\ GiveUp(p)

\* Mutant of TimeOut: the command to Docker is given all the time it needs.
TimeOutQueries(p) ==
  /\ phase[p] \in Tried \ {"commanding"}
  /\ GiveUp(p) /\ UNCHANGED work

\* A command is killed when its time has run out; Docker may go on with it.
TimeOut(p) ==
  /\ phase[p] \in Tried
  /\ GiveUp(p) /\ UNCHANGED work

\* save_status of a failed run.
Record(p) ==
  /\ phase[p] = "failing"
  /\ status' = [run |-> run[p], verified |-> FALSE, expected |-> None]
  /\ Goto(p, "failed")
  /\ UNCHANGED <<cond, work, lock, runs, run, action, desired, seen, told, met>>

\* The process ends, and with it its lock.
Exit(p) ==
  /\ lock' = IF lock = p THEN None ELSE lock
  /\ Goto(p, "idle")
  /\ run' = [run EXCEPT ![p] = 0]
  /\ action' = [action EXCEPT ![p] = None]
  /\ desired' = [desired EXCEPT ![p] = None]
  /\ seen' = [seen EXCEPT ![p] = Unread]
  /\ met' = {}
  /\ UNCHANGED <<cond, work, runs, status>>

\* The last event, lifecycle_verified with exit 0 or lifecycle_failed with exit 1.
Announce(p) ==
  /\ phase[p] \in {"verified", "failed"}
  /\ told' = [run |-> run[p], verified |-> phase[p] = "verified"]
  /\ Exit(p)

\* The process is killed (systemd's timeouts, the host), or save_status raises in
\* the handler of the failure.  Docker goes on with its command.
Die(p) == phase[p] # "idle" /\ Exit(p) /\ UNCHANGED told

------------------------------------------------------------------------------
(* Docker and the containers *)

\* What c becomes, and which containers have been as desired by then.
Become(c, to) ==
  /\ cond' = [cond EXCEPT ![c] = to]
  /\ met' = IF \E p \in Process : phase[p] \in {"inspecting", "probing"}
            THEN met \union Meeting(cond', desired[lock]) ELSE met
  /\ UNCHANGED <<work, lock, runs, process, status, told>>

At(does) == \E w \in work : w.does = does

Start(c) == At("start") /\ c \in Configured /\ cond[c] \notin Running /\ Become(c, "unwell")

\* SIGTERM, or SIGKILL after the grace period.
Stop(c, to) == At("stop") /\ c \in Configured /\ cond[c] \in Running /\ Become(c, to)

\* A health check, an exit that the restart policy answers, no memory.
Change(c, to) == cond[c] \in Running \ {to} /\ Become(c, to)

\* Docker is done with a command nobody waits for.
Finish(w) ==
  /\ \A p \in Process : phase[p] = "commanding" => run[p] # w.run
  /\ work' = work \ {w}
  /\ UNCHANGED <<cond, lock, runs, process, status, told, met>>

------------------------------------------------------------------------------
\* What the script does next when its queries are answered.
Go(p) ==
  \/ Precheck(p) \/ Command(p) \/ Inspect(p) \/ Accept(p) \/ Reject(p)
  \/ \E c \in Container : Read(p, c)
  \/ \E c \in Probed : Probe(p, c)
  \/ Save(p) \/ Record(p) \/ Announce(p)

Next ==
  \/ \E p \in Process :
       \/ \E act \in Action, want \in Desired : Begin(p, act, want)
       \/ Go(p) \/ Fail(p) \/ TimeOut(p) \/ Die(p)
  \/ \E c \in Container :
       \/ Start(c)
       \/ \E to \in {"clean", "abnormal"} : Stop(c, to)
       \/ \E to \in Running : Change(c, to)
  \/ \E w \in work : Finish(w)

Spec == Init /\ [][Next]_vars

\* Every command ends or times out, and the script goes on.  Nothing is owed by
\* Docker or the containers.
LiveSpec ==
  /\ Spec
  /\ \A p \in Process : WF_vars(TimeOut(p)) /\ WF_vars(Record(p)) /\ WF_vars(Announce(p))

------------------------------------------------------------------------------
\* The variables have their types, and who is past the lock has it.
TypeOK ==
  /\ cond \in [Container -> Condition]
  /\ work \subseteq [run : 1..MaxRuns, does : {"start", "stop"}]
  /\ lock \in Process \union {None} /\ runs \in 0..MaxRuns
  /\ phase \in [Process -> Tried \union {"idle", "failing", "verified", "failed"}]
  /\ run \in [Process -> 0..MaxRuns]
  /\ action \in [Process -> Action \union {None}]
  /\ desired \in [Process -> Desired \union {None}]
  /\ seen \in [Process -> [Container -> Condition \union {None, "answered"}]]
  /\ status \in Status \union {None} /\ told \in Event \union {None}
  /\ met \subseteq Container
  /\ \A p \in Process : phase[p] # "idle" => lock = p /\ run[p] = runs /\ runs > 0

\* Each service has had all its containers as desired, and nothing was besides them.
AllMet(want) ==
  IF want = "stopped" THEN met = Container
  ELSE /\ \A s \in Service : Cardinality({c \in met : ServiceOf[c] = s}) >= Replicas[s]
       /\ Container \ Configured \subseteq met

\* A run is recorded as verified only if each container was as desired at some
\* moment after the run's own command had ended (execute inspects again,
\* state_errors).
VerifiedWasMet ==
  [][status' # status /\ status'.verified => AllMet(status'.expected)]_vars

\* The status file moves to later runs only, and what the log says last of a run is
\* what the file then says, whatever dies in between and however runs overlap: no
\* event of success for a run that is not recorded as verified, and no run recorded
\* over a later one (wsl-lifecycle.md:19 and 21: the lock prevents concurrent
\* operations, the file records the most recent check).
StatusHonest ==
  [][/\ status' # status => status = None \/ status.run < status'.run
     /\ told' # told => /\ status # None
                        /\ told' = [run |-> status.run, verified |-> status.verified]]_vars

\* Each run ends and gives the lock back, also when Docker never does what it is
\* told (the timeouts of command).
RunsEnd == \A p \in Process : phase[p] # "idle" ~> phase[p] = "idle"

------------------------------------------------------------------------------
\* What makes the safety properties inductive.  Commands at work are of this run
\* or of earlier ones.
WorkSound ==
  /\ \A w \in work : w.run <= runs
  /\ \A p \in Process : phase[p] \in Tried \ {"commanding"} => \A w \in work : w.run < run[p]

\* The status is that of an earlier run until this one records its own.
StatusSound ==
  /\ status # None => status.run <= runs
  /\ \A p \in Process :
       /\ phase[p] \in Tried \union {"failing"} /\ status # None => status.run < run[p]
       /\ phase[p] \in {"verified", "failed"} =>
            /\ status # None /\ status.run = run[p]
            /\ status.verified = (phase[p] = "verified")

\* What a run has read was so, and what it has accepted was as desired.
ReadSound ==
  \A p \in Process :
    /\ phase[p] # "idle" => desired[p] \in Desired /\ action[p] \in Action
    /\ phase[p] = "inspecting" =>
         /\ Meeting(cond, desired[p]) \subseteq met
         /\ Meeting(seen[p], desired[p]) \subseteq met
         /\ \A c \in Container : seen[p][c] # "answered"
    /\ phase[p] = "probing" => AllMet(desired[p])

IInv == TypeOK /\ WorkSound /\ StatusSound /\ ReadSound
==============================================================================
