---------------------------- MODULE MessageQueue ----------------------------
(***************************************************************************)
(* RabbitMQHelper: how the services pass jobs to each other. One instance   *)
(* is one queue: sendMessage and sendMessageWithThrottle at its senders,    *)
(* process at its consumers, and the two in-memory tables of a process,     *)
(* queuedMessages and activeJobs, that are meant to keep a job from being   *)
(* queued or worked on twice. Requests that wait for a response share the   *)
(* consumer's side.                                                         *)
(*                                                                          *)
(* The broker delivers at least once: what a channel has not acknowledged   *)
(* when it goes is delivered again.                                         *)
(***************************************************************************)
EXTENDS Integers, FiniteSets

CONSTANTS
  Messages,     \* the messages sent, one call of sendMessage each
  Id,           \* payload.id, [Messages -> ids]
  Caller,       \* who sends it, one call after the other, [Messages -> callers]
  Home,         \* the process of a caller, [callers -> processes]
  Throttled,    \* the messages sent by sendMessageWithThrottle
  Consumers,    \* the processes that consume the queue
  Prefetch,     \* DEFAULT_CONCURRENCY
  MaxQueueSize, \* MAX_QUEUE_SIZE
  FaultKinds,   \* the faults that occur
  MaxFaults     \* bound: number of faults

Callers == {Caller[m] : m \in Messages}
Processes == {Home[c] : c \in Callers} \union Consumers
Ids == {Id[m] : m \in Messages}

ASSUME QueueConstants ==
  /\ Throttled \subseteq Messages
  /\ Prefetch \in Nat \ {0} /\ MaxQueueSize \in Nat \ {0}
  /\ FaultKinds \subseteq {"handler", "send", "disconnect", "crash"}
  /\ MaxFaults \in Nat

VARIABLES
  place,          \* where each message is
  returning,      \* messages whose sendMessage has yet to clean up
  queuedMessages, \* ids that a process is about to queue
  activeJobs,     \* ids that a process works on
  jobs,           \* deliveries a process has not settled
  handled,        \* messages whose handler succeeded
  faults

vars == <<place, returning, queuedMessages, activeJobs, jobs, handled, faults>>

Places == {"new", "admitted", "skipped", "sending", "ready", "unacked", "acked", "lost"}

\* A delivery: live as long as the channel it came by is open.
Jobs == [msg : Messages, proc : Consumers,
         st : {"received", "running", "handled", "failed"}, live : BOOLEAN]

Fault(k) == k \in FaultKinds /\ faults < MaxFaults /\ faults' = faults + 1

Init ==
  /\ place = [m \in Messages |-> "new"]
  /\ returning = {}
  /\ queuedMessages = [p \in Processes |-> {}]
  /\ activeJobs = [p \in Consumers |-> {}]
  /\ jobs = {} /\ handled = {} /\ faults = 0

Sender(m) == Home[Caller[m]]
Ready == {m \in Messages : place[m] = "ready"}
Move(m, where) == place' = [place EXCEPT ![m] = where]

-----------------------------------------------------------------------------
(* Senders *)

\* The caller awaits one call before it makes the next.
Calling(m) == place[m] \in {"admitted", "sending"} \/ m \in returning
Free(m) == \A n \in Messages : Caller[n] = Caller[m] => ~Calling(n)

\* sendMessageWithThrottle asks for the number of messages that are ready, and
\* again after a while if there are too many or the question failed.
GetQueueMessageCount(m) ==
  /\ place[m] = "new" /\ m \in Throttled /\ Free(m)
  /\ Cardinality(Ready) < MaxQueueSize
  /\ Move(m, "admitted")
  /\ UNCHANGED <<returning, queuedMessages, activeJobs, jobs, handled, faults>>

\* sendMessage: a message whose id this process is about to queue is skipped.
SendMessage(m) ==
  /\ \/ place[m] = "new" /\ m \notin Throttled /\ Free(m)
     \/ place[m] = "admitted"
  /\ IF Id[m] \in queuedMessages[Sender(m)]
     THEN Move(m, "skipped") /\ UNCHANGED queuedMessages
     ELSE /\ Move(m, "sending")
          /\ queuedMessages' = [queuedMessages EXCEPT ![Sender(m)] = @ \union {Id[m]}]
  /\ UNCHANGED <<returning, activeJobs, jobs, handled, faults>>

\* sendToQueue; its error is logged and the message is gone.
SendToQueue(m) ==
  /\ place[m] = "sending"
  /\ \/ Move(m, "ready") /\ UNCHANGED faults
     \/ Move(m, "lost") /\ Fault("send")
  /\ returning' = returning \union {m}
  /\ UNCHANGED <<queuedMessages, activeJobs, jobs, handled>>

SendMessageEnd(m) ==
  /\ m \in returning
  /\ returning' = returning \ {m}
  /\ queuedMessages' = [queuedMessages EXCEPT ![Sender(m)] = @ \ {Id[m]}]
  /\ UNCHANGED <<place, activeJobs, jobs, handled, faults>>

-----------------------------------------------------------------------------
(* Consumers: process *)

Unacked(p) == {j \in jobs : j.proc = p /\ j.live}

\* The broker hands out as many messages as the channel may leave unsettled.
Deliver(m, p) ==
  /\ place[m] = "ready" /\ Cardinality(Unacked(p)) < Prefetch
  /\ Move(m, "unacked")
  /\ jobs' = jobs \union {[msg |-> m, proc |-> p, st |-> "received", live |-> TRUE]}
  /\ UNCHANGED <<returning, queuedMessages, activeJobs, handled, faults>>

\* The delivery is settled; on a channel that is gone the call fails.
Ack(j) ==
  /\ jobs' = jobs \ {j}
  /\ IF j.live THEN Move(j.msg, "acked") ELSE UNCHANGED place

Become(j, st) == jobs' = (jobs \ {j}) \union {[j EXCEPT !.st = st]}

\* Mutant: the table is read but not written under the mutex.
StartJobUnmarked(j) ==
  /\ j.st = "received"
  /\ IF Id[j.msg] \in activeJobs[j.proc]
     THEN Ack(j) /\ UNCHANGED activeJobs
     ELSE Become(j, "running") /\ UNCHANGED <<activeJobs, place>>
  /\ UNCHANGED <<returning, queuedMessages, handled, faults>>

\* Under the mutex: a message whose id this process works on is acknowledged
\* and forgotten.
StartJob(j) ==
  /\ j.st = "received"
  /\ IF Id[j.msg] \in activeJobs[j.proc]
     THEN Ack(j) /\ UNCHANGED activeJobs
     ELSE /\ Become(j, "running")
          /\ activeJobs' = [activeJobs EXCEPT ![j.proc] = @ \union {Id[j.msg]}]
          /\ UNCHANGED place
  /\ UNCHANGED <<returning, queuedMessages, handled, faults>>

\* The handler returns, and its response is sent to a caller that waits.
HandlerReturns(j) ==
  /\ j.st = "running"
  /\ Become(j, "handled")
  /\ handled' = handled \union {j.msg}
  /\ UNCHANGED <<place, returning, queuedMessages, activeJobs, faults>>

Forget(ids, p, i) ==
  IF p \in DOMAIN ids THEN [ids EXCEPT ![p] = @ \ {i}] ELSE ids

\* Mutant: the message is not acknowledged.
EndJobUnacked(j) ==
  /\ j.st = "handled"
  /\ activeJobs' = Forget(activeJobs, j.proc, Id[j.msg])
  /\ queuedMessages' = Forget(queuedMessages, j.proc, Id[j.msg])
  /\ UNCHANGED <<jobs, place, returning, handled, faults>>

EndJob(j) ==
  /\ j.st = "handled"
  /\ activeJobs' = Forget(activeJobs, j.proc, Id[j.msg])
  /\ queuedMessages' = Forget(queuedMessages, j.proc, Id[j.msg])
  /\ Ack(j)
  /\ UNCHANGED <<returning, handled, faults>>

\* Mutant: the message of a failed handler is acknowledged.
HandlerThrowsAcked(j) ==
  /\ j.st = "running" /\ Fault("handler")
  /\ Ack(j)
  /\ activeJobs' = Forget(activeJobs, j.proc, Id[j.msg])
  /\ UNCHANGED <<returning, queuedMessages, handled>>

\* The handler's error is logged: the message stays unacknowledged and its id
\* active.
HandlerThrows(j) ==
  /\ j.st = "running" /\ Fault("handler")
  /\ Become(j, "failed")
  /\ UNCHANGED <<place, returning, queuedMessages, activeJobs, handled>>

\* What p's channel had not acknowledged is ready again.
Requeued(p) ==
  [m \in Messages |->
     IF \E j \in Unacked(p) : j.msg = m THEN "ready" ELSE place[m]]

\* Mutant: the deliveries of the old channel are taken for its own by the new.
DisconnectKept(p) ==
  /\ Unacked(p) # {} /\ Fault("disconnect")
  /\ place' = Requeued(p)
  /\ UNCHANGED <<jobs, returning, queuedMessages, activeJobs, handled>>

\* The connection is lost and made again; the handlers of p go on.
Disconnect(p) ==
  /\ Unacked(p) # {} /\ Fault("disconnect")
  /\ place' = Requeued(p)
  /\ jobs' = {IF j.proc = p THEN [j EXCEPT !.live = FALSE] ELSE j : j \in jobs}
  /\ UNCHANGED <<returning, queuedMessages, activeJobs, handled>>

\* p dies and is started again, with empty tables: the calls it was making end
\* with it, and what they had not yet sent is gone.
Crash(p) ==
  /\ Fault("crash")
  /\ place' = [m \in Messages |->
                 IF Sender(m) = p /\ place[m] \in {"admitted", "sending"}
                 THEN "lost" ELSE Requeued(p)[m]]
  /\ returning' = {m \in returning : Sender(m) # p}
  /\ queuedMessages' = [queuedMessages EXCEPT ![p] = {}]
  /\ activeJobs' = [q \in Consumers |-> IF q = p THEN {} ELSE activeJobs[q]]
  /\ jobs' = {j \in jobs : j.proc # p}
  /\ UNCHANGED handled

-----------------------------------------------------------------------------

Send(m) ==
  GetQueueMessageCount(m) \/ SendMessage(m) \/ SendToQueue(m) \/ SendMessageEnd(m)
Work(m) ==
  \E j \in jobs : j.msg = m /\ (StartJob(j) \/ HandlerReturns(j) \/ EndJob(j))
Deliveries(m) == \E p \in Consumers : Deliver(m, p)

Next ==
  \/ \E m \in Messages : Send(m) \/ Deliveries(m) \/ Work(m)
  \/ \E j \in jobs : HandlerThrows(j)
  \/ \E p \in Consumers : Disconnect(p)
  \/ \E p \in Processes : Crash(p)

Spec == Init /\ [][Next]_vars

\* Every call and every handler that does not fail goes on, and the broker
\* hands out what is ready.
FairSpec ==
  /\ Spec
  /\ \A m \in Messages : WF_vars(Send(m)) /\ WF_vars(Deliveries(m)) /\ WF_vars(Work(m))

-----------------------------------------------------------------------------

\* The shape of the queue and of the tables; a message is unacknowledged exactly
\* while an open channel has a delivery of it.
TypeOK ==
  /\ place \in [Messages -> Places]
  /\ returning \subseteq Messages
  /\ queuedMessages \in [Processes -> SUBSET Ids]
  /\ activeJobs \in [Consumers -> SUBSET Ids]
  /\ jobs \subseteq Jobs /\ handled \subseteq Messages /\ faults \in Nat
  /\ \A m \in Messages : place[m] = "unacked" <=> \E j \in jobs : j.msg = m /\ j.live

Working(j) == j.st \in {"running", "handled", "failed"}

\* A process never works on two messages of one id at a time, redelivered ones
\* and those of a lost connection included: a handler that failed keeps its id.
OneJobPerId ==
  \A j, k \in jobs :
    Working(j) /\ Working(k) /\ j.proc = k.proc /\ Id[j.msg] = Id[k.msg] => j = k

\* The reason for OneJobPerId: the id of every job at work is in activeJobs.
ActiveJobs == \A j \in jobs : Working(j) => Id[j.msg] \in activeJobs[j.proc]

\* The process that has m works on its id already.
IdAtWork(m) ==
  \E d, j \in jobs : /\ d.msg = m /\ d.live
                    /\ Working(j) /\ j # d /\ j.proc = d.proc /\ Id[j.msg] = Id[m]

\* A message leaves the queue only after its own handler succeeded, or because
\* the same process had begun to work on its id: no crash, reconnect or failed
\* handler makes another message disappear.
RemovedWhenDone ==
  [][\A m \in Messages : place[m] = "unacked" /\ place'[m] = "acked" =>
       m \in handled \/ IdAtWork(m)]_vars

\* Failed handlers bring the queue to a halt only together, when they hold as
\* many messages as a channel may leave unacknowledged; until then a failure
\* blocks no other message: every call returns, every other message is settled.
FailureIsolated ==
  <>[](\/ \E p \in Consumers : Cardinality({j \in Unacked(p) : j.st = "failed"}) >= Prefetch
       \/ \A m \in Messages : \/ place[m] \in {"acked", "skipped", "lost"}
                              \/ \E j \in jobs : j.st = "failed" /\ j.msg = m)
=============================================================================
