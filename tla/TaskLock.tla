------------------------------ MODULE TaskLock ------------------------------
(***************************************************************************)
(* TaskScheduler: the periodic tasks of the services (the pollers of the    *)
(* indexers among them) and the lease in the TaskService collection that is *)
(* meant to keep a task from running twice at a time. One module instance   *)
(* is one task, that is one TaskService record.                             *)
(*                                                                          *)
(* A runner is one execution of the task's taskRunner: startTask awaits the *)
(* first (all tasks are started with runNow), then setInterval starts more  *)
(* in the same process whether or not the last has returned, and other      *)
(* processes have runners of their own. Times are kept relative to the      *)
(* clock, so that it may run for ever.                                      *)
(***************************************************************************)
EXTENDS Integers

CONSTANTS
  Runners,    \* executions of the task
  Proc,       \* the process of a runner, [Runners -> processes]
  Host,       \* the host of a process, [processes -> hosts]
  Pid,        \* its process id, [processes -> ids]
  Lease,      \* how long a lock is valid: 5 minutes
  Interval,   \* the task's interval
  MaxAge,     \* bound: how long a runner takes from acquireLock to its end
  TaskFaultKinds, \* the faults that occur
  MaxTaskFaults \* bound: number of faults

TaskProcesses == {Proc[r] : r \in Runners}

ASSUME LockConstants ==
  /\ Lease \in Nat \ {0} /\ Interval \in Nat /\ MaxAge \in Nat
  /\ TaskFaultKinds \subseteq {"crash", "exception", "shutdown", "store"}
  /\ MaxTaskFaults \in Nat

VARIABLES
  up,      \* processes that run and have called startTask
  timer,   \* those of them that have set the task's interval
  locked,  \* the record has lockedUntil and lockedBy
  ttl,     \* lockedUntil, counted from now
  owner,   \* the runner that set lockedBy, hostname and instanceId
  due,     \* nextStartAt, counted from now
  pc,      \* where each runner is
  age,     \* how long ago a runner read the clock in acquireLock
  taskFaults,
  overran  \* history, read by no action: a run has outlived the lease

taskVars == <<up, timer, locked, ttl, owner, due, pc, age, taskFaults, overran>>
lock == <<locked, ttl, owner>>

RunnerPlaces == {"idle", "find", "clear", "claim", "schedule", "run", "release"}
Busy(r) == pc[r] # "idle"

\* The faults: crashes, uncaught errors, shutdowns, and a database operation
\* that fails after its retries.
TaskFault(k) == k \in TaskFaultKinds /\ taskFaults < MaxTaskFaults /\ taskFaults' = taskFaults + 1

TaskInit ==
  /\ up = {} /\ timer = {}
  /\ locked = FALSE /\ ttl = 0 /\ owner \in Runners
  /\ due = Interval
  /\ pc = [r \in Runners |-> "idle"]
  /\ age = [r \in Runners |-> 0]
  /\ taskFaults = 0
  /\ overran = FALSE

Goto(r, place) == pc' = [pc EXCEPT ![r] = place]

\* The runner returns; startTask, which awaits the first one, sets the interval.
Finish(r) == Goto(r, "idle") /\ timer' = timer \union {Proc[r]}

\* Time passes, for the clock of every host alike. A runner that is still busy
\* when the lease is over has outlived it: nothing in the code stops it, and
\* nothing renews its lock.
Tick ==
  /\ \A r \in Runners : Busy(r) => age[r] < MaxAge
  /\ age' = [r \in Runners |-> IF Busy(r) THEN age[r] + 1 ELSE 0]
  /\ ttl' = IF locked /\ ttl > - MaxAge - 1 THEN ttl - 1 ELSE ttl
  /\ due' = IF due > 0 THEN due - 1 ELSE due
  /\ overran' = (overran \/ \E r \in Runners : Busy(r) /\ age[r] >= Lease)
  /\ UNCHANGED <<up, timer, locked, owner, pc, taskFaults>>

\* startTask, of a process that starts or starts again (under the same id, as
\* in a container): it sets nextStartAt and runs the task at once.
StartTask(p) ==
  /\ p \notin up
  /\ up' = up \union {p}
  /\ due' = Interval
  /\ \E r \in Runners :
       /\ Proc[r] = p
       /\ Goto(r, "find")
       /\ age' = [age EXCEPT ![r] = 0]
  /\ UNCHANGED <<timer, lock, taskFaults, overran>>

\* checkAndRunTasks: the interval fires and nextStartAt has passed, or cannot
\* be read.
ShouldRun(r) ==
  /\ Proc[r] \in timer /\ pc[r] = "idle"
  /\ \/ due = 0 /\ UNCHANGED taskFaults
     \/ TaskFault("store")
  /\ Goto(r, "find")
  /\ age' = [age EXCEPT ![r] = 0]
  /\ UNCHANGED <<up, timer, lock, due, overran>>

\* isProcessAlive asks the runner's own host for the id alone.
ProcessAlive(r, pid) == \E p \in up : Host[p] = Host[Proc[r]] /\ Pid[p] = pid

\* lockedUntil is after the time the runner has read.
Valid(r) == locked /\ ttl > - age[r]

\* acquireLock: look for a lock, and for the process that holds it.
FindLock(r) ==
  /\ pc[r] = "find"
  /\ IF Valid(r) /\ ProcessAlive(r, Pid[Proc[owner]])
     THEN Finish(r)
     ELSE Goto(r, IF Valid(r) THEN "clear" ELSE "claim") /\ UNCHANGED timer
  /\ UNCHANGED <<up, lock, due, age, taskFaults, overran>>

\* The stale lock is removed, whoever holds it by now.
ClearStaleLock(r) ==
  /\ pc[r] = "clear"
  /\ locked' = FALSE
  /\ Goto(r, "claim")
  /\ UNCHANGED <<up, timer, ttl, owner, due, age, taskFaults, overran>>

TakeLock(r) ==
  /\ locked' = TRUE /\ ttl' = Lease - age[r] /\ owner' = r
  /\ Goto(r, "schedule")
  /\ UNCHANGED timer

\* Mutant: the update's filter is the name of the task alone.
ClaimLockUnfiltered(r) ==
  /\ pc[r] = "claim"
  /\ TakeLock(r)
  /\ UNCHANGED <<up, due, age, taskFaults, overran>>

\* Mutant: an expired lock is not taken over.
ClaimLockUnexpired(r) ==
  /\ pc[r] = "claim"
  /\ \/ ~locked /\ TakeLock(r)
     \/ locked /\ Finish(r) /\ UNCHANGED lock
  /\ UNCHANGED <<up, due, age, taskFaults, overran>>

\* findOneAndUpdate of an absent or expired lock.
ClaimLock(r) ==
  /\ pc[r] = "claim"
  /\ \/ (~locked \/ ttl < - age[r]) /\ TakeLock(r)
     \/ locked /\ ttl >= - age[r] /\ Finish(r) /\ UNCHANGED lock
  /\ UNCHANGED <<up, due, age, taskFaults, overran>>

\* An error in acquireLock counts as a lock that is taken.
AcquireFails(r) ==
  /\ pc[r] \in {"find", "clear", "claim"} /\ TaskFault("store")
  /\ Finish(r)
  /\ UNCHANGED <<up, lock, due, age, overran>>

\* safeUpdate: the task runs even if nextStartAt cannot be written.
UpdateNextStartAt(r) ==
  /\ pc[r] = "schedule"
  /\ \/ due' = Interval /\ UNCHANGED taskFaults
     \/ TaskFault("store") /\ UNCHANGED due
  /\ Goto(r, "run")
  /\ UNCHANGED <<up, timer, lock, age, overran>>

\* The groups of tasks are done, or one of them threw.
TasksEnd(r) ==
  /\ pc[r] = "run"
  /\ Goto(r, "release")
  /\ UNCHANGED <<up, timer, lock, due, age, taskFaults, overran>>

\* The finally block: the lock is removed by the name of the task alone; an
\* error is logged and the lock stays.
ReleaseLock(r) ==
  /\ pc[r] = "release"
  /\ \/ locked' = FALSE /\ UNCHANGED taskFaults
     \/ TaskFault("store") /\ UNCHANGED locked
  /\ Finish(r)
  /\ UNCHANGED <<up, ttl, owner, due, age, overran>>

\* All runners of a process are gone with it.
Gone(p) ==
  /\ up' = up \ {p} /\ timer' = timer \ {p}
  /\ pc' = [r \in Runners |-> IF Proc[r] = p THEN "idle" ELSE pc[r]]

ProcessCrash(p) ==
  /\ p \in up /\ TaskFault("crash") /\ Gone(p)
  /\ UNCHANGED <<lock, due, age, overran>>

\* releaseAllLocks removes the locks that hold the process's id.
ReleaseAllLocks(p) == locked' = (locked /\ Pid[Proc[owner]] # Pid[p])

\* SIGTERM, SIGINT, beforeExit
GracefulShutdown(p) ==
  /\ p \in up /\ TaskFault("shutdown") /\ Gone(p)
  /\ ReleaseAllLocks(p)
  /\ UNCHANGED <<ttl, owner, due, age, overran>>

\* uncaughtException, unhandledRejection: the process goes on.
UnhandledError(p) ==
  /\ p \in up /\ TaskFault("exception")
  /\ ReleaseAllLocks(p)
  /\ UNCHANGED <<up, timer, ttl, owner, due, pc, age, overran>>

Step(r) ==
  \/ ShouldRun(r) \/ FindLock(r) \/ ClearStaleLock(r) \/ ClaimLock(r)
  \/ AcquireFails(r) \/ UpdateNextStartAt(r) \/ TasksEnd(r) \/ ReleaseLock(r)

TaskNext ==
  \/ Tick
  \/ \E r \in Runners : Step(r)
  \/ \E p \in TaskProcesses :
       StartTask(p) \/ ProcessCrash(p) \/ GracefulShutdown(p) \/ UnhandledError(p)

TaskSpec == TaskInit /\ [][TaskNext]_taskVars

\* The clock ticks and the event loop runs every runner on.
TaskFairSpec == TaskSpec /\ WF_taskVars(Tick) /\ \A r \in Runners : WF_taskVars(Step(r))

-----------------------------------------------------------------------------

\* The shape of the record and of the runners; a process has an interval only
\* while it is up, and the time left is never negative.
TaskTypeOK ==
  /\ up \subseteq TaskProcesses /\ timer \subseteq up
  /\ locked \in BOOLEAN /\ ttl \in Int /\ owner \in Runners
  /\ due \in Nat
  /\ pc \in [Runners -> RunnerPlaces]
  /\ age \in [Runners -> Nat]
  /\ taskFaults \in Nat /\ overran \in BOOLEAN

Holds(r) == pc[r] \in {"schedule", "run", "release"}

\* The task never runs twice at a time: as long as no run has outlived its
\* lease, no two runners, of one process or of two, are between a successful
\* acquireLock and the end of releaseLock.
MutualExclusion == ~overran => \A r, s \in Runners : Holds(r) /\ Holds(s) => r = s

\* Until then a runner that works holds the lock, for as long as the lease has
\* left from the moment the runner read the clock: the reason why
\* MutualExclusion holds.
HolderOwnsLock ==
  ~overran => \A r \in Runners : Holds(r) => locked /\ owner = r /\ ttl = Lease - age[r]

\* No lock is left behind for good: as long as some process stays up the task
\* is run again and again, whatever became of the process that held the lock.
RunsAgain ==
  (\E p \in TaskProcesses : <>[](p \in up)) => []<>(\E r \in Runners : pc[r] = "run")
=============================================================================
