------------------------ MODULE InfrastructureProofs ------------------------
(***************************************************************************)
(* Proofs about the two parts that all services share.                      *)
(*                                                                          *)
(* TaskLock: its type invariant for any faults, and mutual exclusion under  *)
(* the conditions that make the lease a lock.                               *)
(*                                                                          *)
(* MessageQueue: its type invariant, that a process never works on two      *)
(* messages of one id at a time, and that no message leaves the queue       *)
(* unless it is handled or its process works on its id.                     *)
(***************************************************************************)
EXTENDS TaskLock, MessageQueue, TLAPS

-----------------------------------------------------------------------------
(* The lease of a task *)

\* A runner at work belongs to a process that is up.
Alive == \A r \in Runners : Busy(r) => Proc[r] \in up

TaskTypeInv == TaskTypeOK /\ Alive

LEMMA TaskInitTypeInv == TaskInit => TaskTypeInv
<1> SUFFICES ASSUME TaskInit PROVE TaskTypeOK /\ Alive
  BY DEF TaskTypeInv
<1>1. TaskTypeOK
  <2>1. locked \in BOOLEAN
    BY DEF TaskInit
  <2>2. ttl \in Int /\ due \in Nat /\ taskFaults \in Nat /\ age \in [Runners -> Nat]
    BY LockConstants DEF TaskInit
  <2>3. pc \in [Runners -> RunnerPlaces] /\ owner \in Runners
    BY DEF TaskInit, RunnerPlaces
  <2> QED
    BY <2>1, <2>2, <2>3 DEF TaskInit, TaskTypeOK
<1>2. Alive
  BY DEF TaskInit, Alive, Busy
<1> QED
  BY <1>1, <1>2

LEMMA StepTypeInv ==
  ASSUME TaskTypeInv, NEW r \in Runners, Step(r)
  PROVE  TaskTypeInv'
<1> USE LockConstants DEF TaskTypeInv, TaskTypeOK, Alive, Busy, RunnerPlaces, Goto, Finish, lock, TaskFault
<1>1. Proc[r] \in TaskProcesses
  BY DEF TaskProcesses
<1>2. CASE ShouldRun(r)
  BY <1>2 DEF ShouldRun
<1>3. CASE FindLock(r)
  <2>1. CASE Finish(r)
    BY <1>3, <2>1 DEF FindLock
  <2>2. CASE Goto(r, "clear") /\ UNCHANGED timer
    BY <1>3, <2>2 DEF FindLock
  <2>3. CASE Goto(r, "claim") /\ UNCHANGED timer
    BY <1>3, <2>3 DEF FindLock
  <2> QED
    BY <1>3, <2>1, <2>2, <2>3 DEF FindLock
<1>4. CASE ClearStaleLock(r)
  BY <1>4 DEF ClearStaleLock
<1>5. CASE ClaimLock(r)
  <2>1. CASE TakeLock(r)
    <3>1. locked' \in BOOLEAN
      BY <2>1 DEF TakeLock
    <3>2. ttl' \in Int
      BY <2>1 DEF TakeLock
    <3> QED
      BY <1>1, <1>5, <2>1, <3>1, <3>2 DEF ClaimLock, TakeLock
  <2>2. CASE Finish(r) /\ UNCHANGED lock
    BY <1>5, <2>2 DEF ClaimLock
  <2> QED
    BY <1>5, <2>1, <2>2 DEF ClaimLock
<1>6. CASE AcquireFails(r)
  BY <1>6 DEF AcquireFails
<1>7. CASE UpdateNextStartAt(r)
  BY <1>7 DEF UpdateNextStartAt
<1>8. CASE TasksEnd(r)
  BY <1>8 DEF TasksEnd
<1>9. CASE ReleaseLock(r)
  <2>1. locked' \in BOOLEAN
    BY <1>9 DEF ReleaseLock
  <2>2. taskFaults' \in Nat
    BY <1>9 DEF ReleaseLock
  <2> QED
    BY <1>1, <1>9, <2>1, <2>2 DEF ReleaseLock
<1> QED
  BY <1>2, <1>3, <1>4, <1>5, <1>6, <1>7, <1>8, <1>9 DEF Step

LEMMA ProcessTypeInv ==
  ASSUME TaskTypeInv, NEW p \in TaskProcesses,
         StartTask(p) \/ ProcessCrash(p) \/ GracefulShutdown(p) \/ UnhandledError(p)
  PROVE  TaskTypeInv'
<1> USE LockConstants DEF TaskTypeInv, TaskTypeOK, Alive, Busy, RunnerPlaces, Goto, lock, TaskFault
<1>1. CASE StartTask(p)
  BY <1>1 DEF StartTask
<1>2. CASE ProcessCrash(p)
  BY <1>2 DEF ProcessCrash, Gone
<1>3. CASE GracefulShutdown(p)
  BY <1>3 DEF GracefulShutdown, Gone, ReleaseAllLocks
<1>4. CASE UnhandledError(p)
  BY <1>4 DEF UnhandledError, ReleaseAllLocks
<1> QED
  BY <1>1, <1>2, <1>3, <1>4

LEMMA TaskNextTypeInv == TaskTypeInv /\ [TaskNext]_taskVars => TaskTypeInv'
<1> SUFFICES ASSUME TaskTypeInv, [TaskNext]_taskVars PROVE TaskTypeInv'
  OBVIOUS
<1>1. CASE Tick
  BY <1>1, LockConstants DEF TaskTypeInv, TaskTypeOK, Alive, Busy, RunnerPlaces, Tick
<1>2. CASE \E r \in Runners : Step(r)
  BY <1>2, StepTypeInv
<1>3. CASE \E p \in TaskProcesses :
             StartTask(p) \/ ProcessCrash(p) \/ GracefulShutdown(p) \/ UnhandledError(p)
  BY <1>3, ProcessTypeInv
<1>4. CASE UNCHANGED taskVars
  BY <1>4 DEF TaskTypeInv, TaskTypeOK, Alive, Busy, taskVars
<1> QED
  BY <1>1, <1>2, <1>3, <1>4 DEF TaskNext

\* The record and the runners keep their shape, whatever faults occur: every
\* handler of the scheduler leaves a legal lock, and only processes that are up
\* have an interval.
THEOREM LockTypeCorrect == TaskSpec => []TaskTypeOK
<1>1. TaskTypeInv => TaskTypeOK
  BY DEF TaskTypeInv
<1> QED
  BY <1>1, TaskInitTypeInv, TaskNextTypeInv, PTL DEF TaskSpec

-----------------------------------------------------------------------------

\* What makes the lease a lock: all processes see each other's ids, each has its
\* own, and none crashes or releases its locks in an error handler while its
\* runners go on. Database errors and shutdowns may occur.
SafeLease ==
  /\ \A p, q \in TaskProcesses : Host[p] = Host[q]
  /\ \A p, q \in TaskProcesses : Pid[p] = Pid[q] => p = q
  /\ TaskFaultKinds \subseteq {"store", "shutdown"}

\* Until a run outlives its lease, no runner is older than the lease.
AgeBound == ~overran => \A r \in Runners : Busy(r) => age[r] <= Lease

\* No lock is stale: the process that owns it is up, so no runner clears it.
NoneStale ==
  /\ locked => Proc[owner] \in up
  /\ \A r \in Runners : pc[r] # "clear"

LockInv == TaskTypeInv /\ HolderOwnsLock /\ AgeBound /\ NoneStale

LEMMA InitLockInv == TaskInit => LockInv
BY TaskInitTypeInv, LockConstants
   DEF TaskInit, LockInv, HolderOwnsLock, Holds, AgeBound, Busy, NoneStale

\* With every owner up on the same host, acquireLock never finds a stale lock.
LEMMA OwnerAlive ==
  ASSUME SafeLease, LockInv, NEW r \in Runners, Valid(r)
  PROVE  ProcessAlive(r, Pid[Proc[owner]])
<1>1. Proc[owner] \in up /\ up \subseteq TaskProcesses
  BY DEF LockInv, NoneStale, TaskTypeInv, TaskTypeOK, Valid
<1>2. Proc[r] \in TaskProcesses
  BY DEF TaskProcesses
<1> QED
  BY <1>1, <1>2 DEF ProcessAlive, SafeLease

\* A runner at work keeps the others from claiming the lock.
LEMMA ClaimRefused ==
  ASSUME LockInv, ~overran, NEW r \in Runners, pc[r] = "claim",
         ~locked \/ ttl < - age[r]
  PROVE  \A s \in Runners : ~Holds(s)
<1> SUFFICES ASSUME NEW s \in Runners, Holds(s) PROVE FALSE
  OBVIOUS
<1>1. locked /\ ttl = Lease - age[s]
  BY DEF LockInv, HolderOwnsLock
<1>2. age[s] <= Lease /\ age[s] \in Nat /\ age[r] \in Nat
  BY DEF LockInv, AgeBound, Busy, Holds, TaskTypeInv, TaskTypeOK
<1> QED
  BY <1>1, <1>2, LockConstants

LEMMA StepLockInv ==
  ASSUME SafeLease, LockInv, NEW r \in Runners, Step(r)
  PROVE  LockInv'
<1>1. TaskTypeInv'
  BY StepTypeInv DEF LockInv
<1>2. Proc[r] \in up \/ pc[r] = "idle"
  BY DEF LockInv, TaskTypeInv, Alive, Busy
<1> SUFFICES HolderOwnsLock' /\ AgeBound' /\ NoneStale'
  BY <1>1 DEF LockInv
<1> USE LockConstants DEF LockInv, TaskTypeInv, TaskTypeOK, HolderOwnsLock, Holds, AgeBound, Busy,
        NoneStale, Goto, Finish, lock, TaskFault
<1>3. CASE ShouldRun(r)
  BY <1>3 DEF ShouldRun
<1>4. CASE FindLock(r)
  <2>1. CASE Valid(r)
    BY <1>4, <2>1, OwnerAlive DEF FindLock
  <2>2. CASE ~Valid(r)
    BY <1>4, <2>2 DEF FindLock
  <2> QED
    BY <2>1, <2>2
<1>5. CASE ClearStaleLock(r)
  BY <1>5 DEF ClearStaleLock
<1>6. CASE ClaimLock(r)
  <2>1. CASE (~locked \/ ttl < - age[r]) /\ TakeLock(r)
    <3>1. ~overran => \A s \in Runners : ~Holds(s)
      BY <1>6, <2>1, ClaimRefused DEF ClaimLock
    <3> QED
      BY <1>2, <1>6, <2>1, <3>1 DEF ClaimLock, TakeLock
  <2>2. CASE Finish(r) /\ UNCHANGED lock
    BY <1>6, <2>2 DEF ClaimLock
  <2> QED
    BY <1>6, <2>1, <2>2 DEF ClaimLock
<1>7. CASE AcquireFails(r)
  BY <1>7 DEF AcquireFails
<1>8. CASE UpdateNextStartAt(r)
  BY <1>8 DEF UpdateNextStartAt
<1>9. CASE TasksEnd(r)
  BY <1>9 DEF TasksEnd
<1>10. CASE ReleaseLock(r)
  BY <1>10 DEF ReleaseLock
<1> QED
  BY <1>3, <1>4, <1>5, <1>6, <1>7, <1>8, <1>9, <1>10 DEF Step

LEMMA NextLockInv ==
  ASSUME SafeLease, LockInv, [TaskNext]_taskVars
  PROVE  LockInv'
<1>1. TaskTypeInv'
  BY TaskNextTypeInv DEF LockInv
<1>2. CASE Tick
  <2>1. CASE overran'
    BY <1>1, <1>2, <2>1 DEF Tick, LockInv, HolderOwnsLock, AgeBound, NoneStale
  <2>2. CASE ~overran'
    <3>0. ~overran /\ \A r \in Runners : Busy(r) => ~(age[r] >= Lease) /\ age[r] < MaxAge
      BY <1>2, <2>2 DEF Tick
    <3>1. ~overran /\ \A r \in Runners : Busy(r) => age[r] < Lease /\ age[r] < MaxAge
      BY <3>0, LockConstants DEF LockInv, TaskTypeInv, TaskTypeOK
    <3>2. \A r \in Runners : Holds(r) => ttl > - MaxAge - 1 /\ locked
      BY <3>1, LockConstants
         DEF LockInv, HolderOwnsLock, Holds, Busy, TaskTypeInv, TaskTypeOK
    <3> QED
      BY <1>1, <1>2, <3>1, <3>2, LockConstants
         DEF Tick, LockInv, HolderOwnsLock, AgeBound, NoneStale, Holds, Busy, TaskTypeInv, TaskTypeOK
  <2> QED
    BY <2>1, <2>2
<1>3. CASE \E r \in Runners : Step(r)
  BY <1>3, StepLockInv
<1>4. ASSUME NEW p \in TaskProcesses, StartTask(p)
      PROVE  LockInv'
  BY <1>1, <1>4, LockConstants
     DEF StartTask, Goto, lock, LockInv, HolderOwnsLock, AgeBound, NoneStale, Holds, Busy,
         TaskTypeInv, TaskTypeOK, Alive
<1>5. ASSUME NEW p \in TaskProcesses, ProcessCrash(p) \/ UnhandledError(p)
      PROVE  FALSE
  BY <1>5 DEF ProcessCrash, UnhandledError, TaskFault, SafeLease
<1>6. ASSUME NEW p \in TaskProcesses, GracefulShutdown(p)
      PROVE  LockInv'
  <2>1. \A r \in Runners : Holds(r)' => Holds(r) /\ Proc[r] # p
    BY <1>6 DEF GracefulShutdown, Gone, Holds, LockInv, TaskTypeInv, TaskTypeOK
  <2>2. locked' => Proc[owner] # p
    BY <1>6 DEF GracefulShutdown, ReleaseAllLocks
  <2>3. ASSUME locked, Proc[owner] # p PROVE locked'
    <3>1. Proc[owner] \in TaskProcesses
      BY DEF TaskProcesses, LockInv, TaskTypeInv, TaskTypeOK
    <3> QED
      BY <1>6, <2>3, <3>1 DEF GracefulShutdown, ReleaseAllLocks, SafeLease
  <2>4. HolderOwnsLock'
    BY <1>6, <2>1, <2>3 DEF GracefulShutdown, LockInv, HolderOwnsLock
  <2>5. AgeBound'
    BY <1>6 DEF GracefulShutdown, Gone, LockInv, AgeBound, Busy
  <2>6. NoneStale'
    BY <1>6, <2>2 DEF GracefulShutdown, Gone, ReleaseAllLocks, LockInv, NoneStale
  <2> QED
    BY <1>1, <2>4, <2>5, <2>6 DEF LockInv
<1>7. CASE UNCHANGED taskVars
  BY <1>1, <1>7
     DEF taskVars, LockInv, HolderOwnsLock, AgeBound, NoneStale, Holds, Busy
<1> QED
  BY <1>2, <1>3, <1>4, <1>5, <1>6, <1>7 DEF TaskNext

\* A runner between acquireLock and releaseLock owns the lock, on one host and
\* without crashes, for as long as no run has outlived its lease.
THEOREM LockHeld == ASSUME SafeLease PROVE TaskSpec => []HolderOwnsLock
<1>1. LockInv /\ [TaskNext]_taskVars => LockInv'
  BY NextLockInv
<1>2. LockInv => HolderOwnsLock
  BY DEF LockInv
<1> QED
  BY <1>1, <1>2, InitLockInv, PTL DEF TaskSpec

\* Under the same conditions the task never runs twice at a time: the holder
\* owns the lock, and a lock has one owner.
THEOREM Exclusion == ASSUME SafeLease PROVE TaskSpec => []MutualExclusion
<1>1. HolderOwnsLock => MutualExclusion
  BY DEF HolderOwnsLock, MutualExclusion
<1> QED
  BY <1>1, LockHeld, PTL

-----------------------------------------------------------------------------
(* The queue *)

\* A message is with one channel at a time.
OneDelivery == \A j, k \in jobs : j.live /\ k.live /\ j.msg = k.msg => j = k

TypeInv == TypeOK /\ OneDelivery

LEMMA SenderProcess ==
  ASSUME NEW m \in Messages PROVE Sender(m) \in Processes /\ Id[m] \in Ids
BY DEF Sender, Processes, Callers, Ids

LEMMA InitTypeInv == Init => TypeInv
BY DEF Init, TypeInv, TypeOK, OneDelivery, Places, Jobs

LEMMA SendTypeInv ==
  ASSUME TypeInv, NEW m \in Messages, Send(m)
  PROVE  TypeInv'
<1> USE SenderProcess DEF TypeInv, TypeOK, OneDelivery, Move, Places, Fault
<1>1. CASE GetQueueMessageCount(m)
  BY <1>1 DEF GetQueueMessageCount
<1>2. CASE SendMessage(m)
  BY <1>2 DEF SendMessage
<1>3. CASE SendToQueue(m)
  BY <1>3 DEF SendToQueue
<1>4. CASE SendMessageEnd(m)
  BY <1>4 DEF SendMessageEnd
<1> QED
  BY <1>1, <1>2, <1>3, <1>4 DEF Send

LEMMA DeliverTypeInv ==
  ASSUME TypeInv, NEW m \in Messages, NEW p \in Consumers, Deliver(m, p)
  PROVE  TypeInv'
<1> DEFINE new == [msg |-> m, proc |-> p, st |-> "received", live |-> TRUE]
<1>1. new \in Jobs /\ new.msg = m /\ new.live
  BY DEF Jobs
<1>2. \A j \in jobs : j.live => j.msg # m
  BY DEF Deliver, TypeInv, TypeOK
<1>3. jobs' = jobs \union {new}
  BY DEF Deliver
<1> HIDE DEF new
<1> QED
  BY <1>1, <1>2, <1>3 DEF Deliver, TypeInv, TypeOK, OneDelivery, Move, Places

\* Settling a delivery keeps messages and deliveries together.
LEMMA AckKeeps ==
  ASSUME TypeInv, NEW j \in jobs, Ack(j)
  PROVE  /\ place' \in [Messages -> Places] /\ jobs' \subseteq Jobs /\ OneDelivery'
         /\ \A m \in Messages : place'[m] = "unacked" <=> \E k \in jobs' : k.msg = m /\ k.live
<1>1. j.msg \in Messages
  BY DEF TypeInv, TypeOK, Jobs
<1>2. CASE j.live
  BY <1>1, <1>2 DEF Ack, Move, TypeInv, TypeOK, OneDelivery, Places
<1>3. CASE ~j.live
  BY <1>1, <1>3 DEF Ack, TypeInv, TypeOK, OneDelivery
<1> QED
  BY <1>2, <1>3

\* So does the progress of a job.
LEMMA BecomeKeeps ==
  ASSUME TypeInv, NEW j \in jobs, NEW st \in {"received", "running", "handled", "failed"},
         Become(j, st), UNCHANGED place
  PROVE  /\ place' \in [Messages -> Places] /\ jobs' \subseteq Jobs /\ OneDelivery'
         /\ \A m \in Messages : place'[m] = "unacked" <=> \E k \in jobs' : k.msg = m /\ k.live
<1> DEFINE new == [j EXCEPT !.st = st]
<1>1. /\ new \in Jobs /\ new.msg = j.msg /\ new.live = j.live
      /\ j \in Jobs
  BY DEF TypeInv, TypeOK, Jobs
<1>2. jobs' = (jobs \ {j}) \union {new}
  BY DEF Become
<1> HIDE DEF new
<1> QED
  BY <1>1, <1>2 DEF TypeInv, TypeOK, OneDelivery

LEMMA ForgetType ==
  ASSUME NEW P, NEW S, NEW ids \in [P -> SUBSET S], NEW p, NEW i
  PROVE  Forget(ids, p, i) \in [P -> SUBSET S]
BY DEF Forget

LEMMA WorkTypeInv ==
  ASSUME TypeInv, NEW j \in jobs,
         StartJob(j) \/ HandlerReturns(j) \/ EndJob(j) \/ HandlerThrows(j)
  PROVE  TypeInv'
<1>0. j.msg \in Messages /\ j.proc \in Consumers /\ Id[j.msg] \in Ids
  BY SenderProcess DEF TypeInv, TypeOK, Jobs
<1>1. CASE StartJob(j)
  <2>1. CASE Ack(j) /\ UNCHANGED activeJobs
    BY <1>1, <2>1, AckKeeps DEF StartJob, TypeInv, TypeOK
  <2>2. CASE /\ Become(j, "running") /\ UNCHANGED place
             /\ activeJobs' = [activeJobs EXCEPT ![j.proc] = @ \union {Id[j.msg]}]
    <3>1. activeJobs' \in [Consumers -> SUBSET Ids]
      BY <1>0, <2>2 DEF TypeInv, TypeOK
    <3> QED
      BY <1>1, <2>2, <3>1, BecomeKeeps DEF StartJob, TypeInv, TypeOK
  <2> QED
    BY <1>1, <2>1, <2>2 DEF StartJob
<1>2. CASE HandlerReturns(j)
  BY <1>0, <1>2, BecomeKeeps DEF HandlerReturns, TypeInv, TypeOK
<1>3. CASE EndJob(j)
  <2>1. activeJobs' \in [Consumers -> SUBSET Ids] /\ queuedMessages' \in [Processes -> SUBSET Ids]
    BY <1>3, ForgetType DEF EndJob, TypeInv, TypeOK
  <2> QED
    BY <1>3, <2>1, AckKeeps DEF EndJob, TypeInv, TypeOK
<1>4. CASE HandlerThrows(j)
  BY <1>4, BecomeKeeps DEF HandlerThrows, Fault, TypeInv, TypeOK
<1> QED
  BY <1>1, <1>2, <1>3, <1>4

LEMMA RequeuedType ==
  ASSUME TypeInv, NEW p \in Processes
  PROVE  /\ Requeued(p) \in [Messages -> Places]
         /\ \A m \in Messages :
              Requeued(p)[m] = "unacked" <=> \E j \in jobs : j.msg = m /\ j.live /\ j.proc # p
<1>1. \A m \in Messages : Requeued(p)[m] = IF \E j \in Unacked(p) : j.msg = m
                                           THEN "ready" ELSE place[m]
  BY DEF Requeued
<1>2. ASSUME NEW m \in Messages
      PROVE  Requeued(p)[m] = "unacked" <=> \E j \in jobs : j.msg = m /\ j.live /\ j.proc # p
  <2>1. CASE \E j \in Unacked(p) : j.msg = m
    BY <1>1, <2>1 DEF Unacked, TypeInv, OneDelivery
  <2>2. CASE ~\E j \in Unacked(p) : j.msg = m
    BY <1>1, <2>2 DEF Unacked, TypeInv, TypeOK
  <2> QED
    BY <2>1, <2>2
<1> QED
  BY <1>1, <1>2 DEF Requeued, TypeInv, TypeOK, Places

\* The deliveries of p after its connection is lost.
Stale(p, j) == IF j.proc = p THEN [j EXCEPT !.live = FALSE] ELSE j

LEMMA StaleFields ==
  ASSUME NEW j \in Jobs, NEW p
  PROVE  /\ Stale(p, j) \in Jobs /\ Stale(p, j).msg = j.msg /\ Stale(p, j).proc = j.proc
         /\ Stale(p, j).st = j.st /\ (Stale(p, j).live <=> j.live /\ j.proc # p)
BY DEF Stale, Jobs

LEMMA DisconnectTypeInv ==
  ASSUME TypeInv, NEW p \in Consumers, Disconnect(p)
  PROVE  TypeInv'
<1>0. p \in Processes
  BY DEF Processes
<1>1. jobs \subseteq Jobs
  BY DEF TypeInv, TypeOK
<1>2. jobs' = {Stale(p, j) : j \in jobs}
  BY DEF Disconnect, Stale
<1>3. OneDelivery'
  <2> SUFFICES ASSUME NEW j \in jobs, NEW k \in jobs, Stale(p, j).live, Stale(p, k).live,
                      Stale(p, j).msg = Stale(p, k).msg
               PROVE  Stale(p, j) = Stale(p, k)
    BY <1>2 DEF OneDelivery
  <2> QED
    BY <1>1, StaleFields DEF TypeInv, OneDelivery
<1>4. \A m \in Messages : place'[m] = "unacked" <=> \E j \in jobs' : j.msg = m /\ j.live
  BY <1>0, <1>1, <1>2, StaleFields, RequeuedType DEF Disconnect
<1>5. jobs' \subseteq Jobs
  BY <1>1, <1>2, StaleFields
<1> QED
  BY <1>0, <1>3, <1>4, <1>5, RequeuedType DEF Disconnect, Fault, TypeInv, TypeOK

LEMMA CrashTypeInv ==
  ASSUME TypeInv, NEW p \in Processes, Crash(p)
  PROVE  TypeInv'
<1>1. OneDelivery' /\ jobs' \subseteq Jobs
  BY DEF Crash, TypeInv, TypeOK, OneDelivery
<1>2. ASSUME NEW m \in Messages
      PROVE  /\ place'[m] \in Places
             /\ place'[m] = "unacked" <=> \E j \in jobs' : j.msg = m /\ j.live
  <2>1. place'[m] = IF Sender(m) = p /\ place[m] \in {"admitted", "sending"}
                    THEN "lost" ELSE Requeued(p)[m]
    BY DEF Crash
  <2>2. place[m] \in {"admitted", "sending"} => ~\E j \in jobs' : j.msg = m /\ j.live
    BY DEF Crash, TypeInv, TypeOK
  <2>3. jobs' = {j \in jobs : j.proc # p}
    BY DEF Crash
  <2> QED
    BY <2>1, <2>2, <2>3, RequeuedType DEF Places
<1>3. activeJobs' \in [Consumers -> SUBSET Ids] /\ faults' \in Nat
  BY DEF Crash, Fault, TypeInv, TypeOK
<1>4. place' \in [Messages -> Places]
  BY <1>2 DEF Crash
<1>5. returning' \subseteq Messages /\ queuedMessages' \in [Processes -> SUBSET Ids]
  BY DEF Crash, TypeInv, TypeOK
<1> QED
  BY <1>1, <1>2, <1>3, <1>4, <1>5 DEF Crash, TypeInv, TypeOK

LEMMA NextTypeInv == TypeInv /\ [Next]_vars => TypeInv'
<1> SUFFICES ASSUME TypeInv, [Next]_vars PROVE TypeInv'
  OBVIOUS
<1>1. CASE UNCHANGED vars
  BY <1>1 DEF vars, TypeInv, TypeOK, OneDelivery
<1> QED
  BY <1>1, SendTypeInv, DeliverTypeInv, WorkTypeInv, DisconnectTypeInv, CrashTypeInv
     DEF Next, Deliveries, Work

\* The queue and the tables keep their shape under all faults, and a message is
\* unacknowledged exactly while one open channel has a delivery of it.
THEOREM QueueTypeCorrect == Spec => []TypeOK
<1>1. TypeInv => TypeOK
  BY DEF TypeInv
<1> QED
  BY <1>1, InitTypeInv, NextTypeInv, PTL DEF Spec

-----------------------------------------------------------------------------

JobInv == TypeInv /\ ActiveJobs /\ OneJobPerId

LEMMA InitJobInv == Init => JobInv
BY InitTypeInv DEF Init, JobInv, ActiveJobs, OneJobPerId

LEMMA WorkJobInv ==
  ASSUME JobInv, NEW j \in jobs,
         StartJob(j) \/ HandlerReturns(j) \/ EndJob(j) \/ HandlerThrows(j)
  PROVE  ActiveJobs' /\ OneJobPerId'
<1>0. /\ j \in Jobs /\ jobs \subseteq Jobs /\ j.proc \in Consumers
      /\ activeJobs \in [Consumers -> SUBSET Ids]
  BY DEF JobInv, TypeInv, TypeOK, Jobs
<1>1. CASE StartJob(j)
  <2>1. CASE Ack(j) /\ UNCHANGED activeJobs
    BY <2>1 DEF Ack, JobInv, ActiveJobs, OneJobPerId
  <2>2. CASE /\ Id[j.msg] \notin activeJobs[j.proc] /\ Become(j, "running")
             /\ activeJobs' = [activeJobs EXCEPT ![j.proc] = @ \union {Id[j.msg]}]
    <3> DEFINE new == [j EXCEPT !.st = "running"]
    <3>1. new.msg = j.msg /\ new.proc = j.proc /\ jobs' = (jobs \ {j}) \union {new}
      BY <1>0, <2>2 DEF Become, Jobs
    <3>2. \A k \in jobs : Working(k) /\ k.proc = j.proc => Id[k.msg] # Id[j.msg]
      BY <2>2 DEF JobInv, ActiveJobs
    <3> HIDE DEF new
    <3>3. ActiveJobs'
      BY <1>0, <2>2, <3>1 DEF JobInv, ActiveJobs, Working
    <3>4. OneJobPerId'
      BY <3>1, <3>2 DEF JobInv, OneJobPerId, Working
    <3> QED
      BY <3>3, <3>4
  <2> QED
    BY <1>1, <2>1, <2>2 DEF StartJob
<1>2. CASE HandlerReturns(j) \/ HandlerThrows(j)
  <2> PICK st \in {"handled", "failed"} : Become(j, st)
    BY <1>2 DEF HandlerReturns, HandlerThrows
  <2> DEFINE new == [j EXCEPT !.st = st]
  <2>1. /\ new.msg = j.msg /\ new.proc = j.proc /\ Working(j)
        /\ jobs' = (jobs \ {j}) \union {new} /\ activeJobs' = activeJobs
    BY <1>0, <1>2 DEF Become, Jobs, HandlerReturns, HandlerThrows, Working
  <2> HIDE DEF new
  <2> QED
    BY <2>1 DEF JobInv, ActiveJobs, OneJobPerId, Working
<1>3. CASE EndJob(j)
  <2>1. \A k \in jobs' : k \in jobs /\ k # j
    BY <1>3 DEF EndJob, Ack
  <2>2. Working(j)
    BY <1>3 DEF EndJob, Working
  <2>3. activeJobs' = [activeJobs EXCEPT ![j.proc] = @ \ {Id[j.msg]}]
    BY <1>0, <1>3 DEF EndJob, Forget
  <2>4. \A k \in jobs' : Working(k) /\ k.proc = j.proc => Id[k.msg] # Id[j.msg]
    BY <2>1, <2>2 DEF JobInv, OneJobPerId
  <2> QED
    BY <1>0, <2>1, <2>3, <2>4 DEF JobInv, ActiveJobs, OneJobPerId, Working
<1> QED
  BY <1>1, <1>2, <1>3

LEMMA NextJobInv == JobInv /\ [Next]_vars => JobInv'
<1> SUFFICES ASSUME JobInv, [Next]_vars PROVE JobInv'
  OBVIOUS
<1>1. TypeInv'
  BY NextTypeInv DEF JobInv
<1>2. jobs \subseteq Jobs /\ activeJobs \in [Consumers -> SUBSET Ids]
  BY DEF JobInv, TypeInv, TypeOK
<1> SUFFICES ActiveJobs' /\ OneJobPerId'
  BY <1>1 DEF JobInv
<1> USE DEF JobInv, ActiveJobs, OneJobPerId, Working
<1>3. ASSUME NEW m \in Messages, Send(m)
      PROVE  ActiveJobs' /\ OneJobPerId'
  BY <1>3 DEF Send, GetQueueMessageCount, SendMessage, SendToQueue, SendMessageEnd
<1>4. ASSUME NEW m \in Messages, NEW p \in Consumers, Deliver(m, p)
      PROVE  ActiveJobs' /\ OneJobPerId'
  BY <1>4 DEF Deliver
<1>5. ASSUME NEW j \in jobs,
             StartJob(j) \/ HandlerReturns(j) \/ EndJob(j) \/ HandlerThrows(j)
      PROVE  ActiveJobs' /\ OneJobPerId'
  BY <1>5, WorkJobInv
<1>6. ASSUME NEW p \in Consumers, Disconnect(p)
      PROVE  ActiveJobs' /\ OneJobPerId'
  <2>1. jobs' = {Stale(p, j) : j \in jobs} /\ activeJobs' = activeJobs
    BY <1>6 DEF Disconnect, Stale
  <2> QED
    BY <1>2, <2>1, StaleFields
<1>7. ASSUME NEW p \in Processes, Crash(p)
      PROVE  ActiveJobs' /\ OneJobPerId'
  BY <1>2, <1>7 DEF Crash, Jobs
<1>8. CASE UNCHANGED vars
  BY <1>8 DEF vars
<1> QED
  BY <1>3, <1>4, <1>5, <1>6, <1>7, <1>8 DEF Next, Deliveries, Work

\* A process never works on two messages of one id at a time, whatever is
\* redelivered, lost or fails: the mutex of process makes the check and the
\* entry in activeJobs one step.
THEOREM OneJob == Spec => []OneJobPerId
<1>1. JobInv => OneJobPerId
  BY DEF JobInv
<1> QED
  BY <1>1, InitJobInv, NextJobInv, PTL DEF Spec

\* The id of every job at work is in activeJobs.
THEOREM JobsAreActive == Spec => []ActiveJobs
<1>1. JobInv => ActiveJobs
  BY DEF JobInv
<1> QED
  BY <1>1, InitJobInv, NextJobInv, PTL DEF Spec

-----------------------------------------------------------------------------
(* What leaves the queue *)

\* An id in activeJobs is that of a job at work: nothing is left behind that
\* would make the process drop messages for no reason.
ActiveOwned ==
  \A p \in Consumers : \A i \in activeJobs[p] :
    \E j \in jobs : Working(j) /\ j.proc = p /\ Id[j.msg] = i

\* A job whose handler returned is of a message that is handled.
HandledJobs == \A j \in jobs : j.st = "handled" => j.msg \in handled

OwnedInv == TypeInv /\ ActiveOwned /\ HandledJobs

LEMMA InitOwnedInv == Init => OwnedInv
BY InitTypeInv DEF Init, OwnedInv, ActiveOwned, HandledJobs

LEMMA WorkOwned ==
  ASSUME OwnedInv, NEW j \in jobs,
         StartJob(j) \/ HandlerReturns(j) \/ EndJob(j) \/ HandlerThrows(j)
  PROVE  ActiveOwned' /\ HandledJobs'
<1>0. /\ j \in Jobs /\ jobs \subseteq Jobs /\ j.proc \in Consumers
      /\ activeJobs \in [Consumers -> SUBSET Ids] /\ handled \subseteq Messages
  BY DEF OwnedInv, TypeInv, TypeOK, Jobs
<1>1. CASE StartJob(j)
  <2>1. CASE Ack(j) /\ UNCHANGED activeJobs
    <3>1. jobs' = jobs \ {j} /\ ~Working(j) /\ handled' = handled
      BY <1>1, <2>1 DEF StartJob, Ack, Working
    <3> QED
      BY <2>1, <3>1 DEF OwnedInv, ActiveOwned, HandledJobs
  <2>2. CASE /\ Become(j, "running")
             /\ activeJobs' = [activeJobs EXCEPT ![j.proc] = @ \union {Id[j.msg]}]
    <3> DEFINE new == [j EXCEPT !.st = "running"]
    <3>1. /\ new.msg = j.msg /\ new.proc = j.proc /\ new.st = "running"
          /\ jobs' = (jobs \ {j}) \union {new} /\ ~Working(j) /\ handled' = handled
      BY <1>0, <1>1, <2>2 DEF Become, Jobs, StartJob, Working
    <3> HIDE DEF new
    <3>2. Working(new)
      BY <3>1 DEF Working
    <3>3. ASSUME NEW p \in Consumers, NEW i \in activeJobs'[p]
          PROVE  \E k \in jobs' : Working(k) /\ k.proc = p /\ Id[k.msg] = i
      <4>1. CASE i \in activeJobs[p]
        BY <3>1, <4>1 DEF OwnedInv, ActiveOwned
      <4>2. CASE i \notin activeJobs[p]
        <5>1. p = j.proc /\ i = Id[j.msg]
          BY <1>0, <2>2, <3>3, <4>2
        <5> QED
          BY <3>1, <3>2, <5>1
      <4> QED
        BY <4>1, <4>2
    <3>4. HandledJobs'
      BY <3>1 DEF OwnedInv, HandledJobs
    <3> QED
      BY <3>3, <3>4 DEF ActiveOwned, Working
  <2> QED
    BY <1>1, <2>1, <2>2 DEF StartJob
<1>2. CASE HandlerReturns(j) \/ HandlerThrows(j)
  <2> PICK st \in {"handled", "failed"} : Become(j, st) /\ (st = "handled" => j.msg \in handled')
    BY <1>2 DEF HandlerReturns, HandlerThrows
  <2> DEFINE new == [j EXCEPT !.st = st]
  <2>1. /\ new.msg = j.msg /\ new.proc = j.proc /\ new.st = st
        /\ jobs' = (jobs \ {j}) \union {new}
    BY <1>0 DEF Become, Jobs
  <2>2. activeJobs' = activeJobs /\ handled \subseteq handled'
    BY <1>2 DEF HandlerReturns, HandlerThrows
  <2> HIDE DEF new
  <2>3. Working(new)
    BY <2>1 DEF Working
  <2>4. HandledJobs'
    BY <2>1, <2>2 DEF OwnedInv, HandledJobs
  <2>5. ASSUME NEW p \in Consumers, NEW i \in activeJobs'[p]
        PROVE  \E k \in jobs' : Working(k) /\ k.proc = p /\ Id[k.msg] = i
    <3>1. PICK k \in jobs : Working(k) /\ k.proc = p /\ Id[k.msg] = i
      BY <2>2, <2>5 DEF OwnedInv, ActiveOwned
    <3> QED
      BY <2>1, <2>3, <3>1
  <2> QED
    BY <2>4, <2>5 DEF ActiveOwned, Working
<1>3. CASE EndJob(j)
  <2>1. jobs' = jobs \ {j} /\ handled' = handled
    BY <1>3 DEF EndJob, Ack
  <2>2. activeJobs' = [activeJobs EXCEPT ![j.proc] = @ \ {Id[j.msg]}]
    BY <1>0, <1>3 DEF EndJob, Forget
  <2>3. HandledJobs'
    BY <2>1 DEF OwnedInv, HandledJobs
  <2>4. ASSUME NEW p \in Consumers, NEW i \in activeJobs'[p]
        PROVE  \E k \in jobs' : Working(k) /\ k.proc = p /\ Id[k.msg] = i
    <3>1. i \in activeJobs[p] /\ (p = j.proc => i # Id[j.msg])
      BY <1>0, <2>2, <2>4
    <3>2. PICK k \in jobs : Working(k) /\ k.proc = p /\ Id[k.msg] = i
      BY <3>1 DEF OwnedInv, ActiveOwned
    <3> QED
      BY <2>1, <3>1, <3>2
  <2> QED
    BY <2>3, <2>4 DEF ActiveOwned, Working
<1> QED
  BY <1>1, <1>2, <1>3

LEMMA NextOwnedInv == OwnedInv /\ [Next]_vars => OwnedInv'
<1> SUFFICES ASSUME OwnedInv, [Next]_vars PROVE OwnedInv'
  OBVIOUS
<1>1. TypeInv'
  BY NextTypeInv DEF OwnedInv
<1>2. jobs \subseteq Jobs /\ activeJobs \in [Consumers -> SUBSET Ids]
  BY DEF OwnedInv, TypeInv, TypeOK
<1> SUFFICES ActiveOwned' /\ HandledJobs'
  BY <1>1 DEF OwnedInv
<1> USE DEF OwnedInv, ActiveOwned, HandledJobs, Working
<1>3. ASSUME NEW m \in Messages, Send(m)
      PROVE  ActiveOwned' /\ HandledJobs'
  BY <1>3 DEF Send, GetQueueMessageCount, SendMessage, SendToQueue, SendMessageEnd
<1>4. ASSUME NEW m \in Messages, NEW p \in Consumers, Deliver(m, p)
      PROVE  ActiveOwned' /\ HandledJobs'
  BY <1>4 DEF Deliver
<1>5. ASSUME NEW j \in jobs,
             StartJob(j) \/ HandlerReturns(j) \/ EndJob(j) \/ HandlerThrows(j)
      PROVE  ActiveOwned' /\ HandledJobs'
  BY <1>5, WorkOwned
<1>6. ASSUME NEW p \in Consumers, Disconnect(p)
      PROVE  ActiveOwned' /\ HandledJobs'
  <2>1. jobs' = {Stale(p, j) : j \in jobs} /\ activeJobs' = activeJobs /\ handled' = handled
    BY <1>6 DEF Disconnect, Stale
  <2>2. HandledJobs'
    BY <1>2, <2>1, StaleFields
  <2>3. ASSUME NEW q \in Consumers, NEW i \in activeJobs'[q]
        PROVE  \E k \in jobs' : Working(k) /\ k.proc = q /\ Id[k.msg] = i
    <3>1. PICK k \in jobs : Working(k) /\ k.proc = q /\ Id[k.msg] = i
      BY <2>1, <2>3
    <3>2. Stale(p, k) \in jobs' /\ k \in Jobs
      BY <1>2, <2>1, <3>1
    <3> QED
      BY <3>1, <3>2, StaleFields
  <2> QED
    BY <2>2, <2>3
<1>7. ASSUME NEW p \in Processes, Crash(p)
      PROVE  ActiveOwned' /\ HandledJobs'
  <2>1. /\ jobs' = {j \in jobs : j.proc # p} /\ handled' = handled
        /\ \A q \in Consumers : activeJobs'[q] = IF q = p THEN {} ELSE activeJobs[q]
    BY <1>7 DEF Crash
  <2> QED
    BY <2>1
<1>8. CASE UNCHANGED vars
  BY <1>8 DEF vars
<1> QED
  BY <1>3, <1>4, <1>5, <1>6, <1>7, <1>8 DEF Next, Deliveries, Work

\* A message that leaves the queue in a step is settled by the job of its one
\* live delivery, at its end or because its id was found in activeJobs.
LEMMA RemovalJustified ==
  ASSUME OwnedInv, Next, NEW m \in Messages, place[m] = "unacked", place'[m] = "acked"
  PROVE  m \in handled \/ IdAtWork(m)
<1> DEFINE Justified == m \in handled \/ IdAtWork(m)
<1>0. /\ jobs \subseteq Jobs /\ place \in [Messages -> Places]
      /\ activeJobs \in [Consumers -> SUBSET Ids]
  BY DEF OwnedInv, TypeInv, TypeOK
<1>1. ASSUME NEW n \in Messages, Send(n) PROVE Justified
  BY <1>0, <1>1 DEF Send, GetQueueMessageCount, SendMessage, SendToQueue, SendMessageEnd, Move
<1>2. ASSUME NEW n \in Messages, NEW p \in Consumers, Deliver(n, p) PROVE Justified
  BY <1>0, <1>2 DEF Deliver, Move
<1>3. ASSUME NEW j \in jobs, StartJob(j) PROVE Justified
  <2>1. Id[j.msg] \in activeJobs[j.proc] /\ Ack(j) /\ j.st = "received"
    BY <1>3 DEF StartJob
  <2>2. j.msg = m /\ j.live
    BY <1>0, <2>1 DEF Ack, Move
  <2>3. PICK k \in jobs : Working(k) /\ k.proc = j.proc /\ Id[k.msg] = Id[j.msg]
    BY <1>0, <2>1 DEF OwnedInv, ActiveOwned, Jobs
  <2>4. k # j
    BY <2>1, <2>3 DEF Working
  <2> QED
    BY <2>2, <2>3, <2>4 DEF IdAtWork
<1>4. ASSUME NEW j \in jobs, HandlerReturns(j) \/ HandlerThrows(j) PROVE Justified
  BY <1>4 DEF HandlerReturns, HandlerThrows
<1>5. ASSUME NEW j \in jobs, EndJob(j) PROVE Justified
  <2>1. Ack(j) /\ j.st = "handled"
    BY <1>5 DEF EndJob
  <2>2. j.msg = m
    BY <1>0, <2>1 DEF Ack, Move
  <2> QED
    BY <2>1, <2>2 DEF OwnedInv, HandledJobs
<1>6. ASSUME NEW p \in Processes, Disconnect(p) \/ Crash(p) PROVE Justified
  BY <1>6 DEF Disconnect, Crash, Requeued
<1> QED
  BY <1>1, <1>2, <1>3, <1>4, <1>5, <1>6 DEF Next, Deliveries, Work, Processes

\* A message leaves the queue only after its own handler succeeded, or because
\* its process had begun to work on its id: no crash, reconnect or failed
\* handler makes another message disappear.
THEOREM NoneDisappears == Spec => RemovedWhenDone
<1>1. OwnedInv /\ [Next]_vars
        => [\A m \in Messages : place[m] = "unacked" /\ place'[m] = "acked" =>
              m \in handled \/ IdAtWork(m)]_vars
  BY RemovalJustified
<1> QED
  BY <1>1, InitOwnedInv, NextOwnedInv, PTL DEF Spec, RemovedWhenDone
=============================================================================
