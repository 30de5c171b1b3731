----------------------------- MODULE LogCrawler -----------------------------
(***************************************************************************)
(* The log crawler: BlockchainLogCrawler.crawl() with the strategies it     *)
(* fetches by, the LogProcessingEngine that calls the event handlers, the   *)
(* CrawlerErrorHandler and the ProgressTracker that persists the cursor in  *)
(* the ConfigIndexer collection.                                            *)
(*                                                                          *)
(* Several crawler processes may share one cursor: a poller and a           *)
(* historical job of the same service, or two instances of a service whose  *)
(* scheduler lock expired. The chain is append-only here: reorganisations    *)
(* are left out. A log is a pair <<block, index>>.                          *)
(***************************************************************************)
EXTENDS ChainLogs, FiniteSets

CONSTANTS
  Crawlers,      \* the crawler processes that share the cursor
  Jobs,          \* those that run one-shot sync jobs: crawl() then end()
  Kind,          \* the event type of a log, [Logs -> kinds]
  StopOnError,   \* the crawler's stopOnError
  UseBatch,      \* parallel.enable /\ parallel.useBatch: processLogsParallelBatch
  BatchSizes,    \* what AdaptiveBatchSizeManager may return
  SmallRange,    \* min(timeBasedThreshold, batchSize / 2)
  MaxLag,        \* how far behind the head the RPC node asked may be
  MaxHead,       \* bound: length of the chain
  FaultKinds,    \* which faults the environment injects
  MaxFaults      \* bound: number of faults

ASSUME CrawlerConstants ==
  /\ Jobs \subseteq Crawlers
  /\ StopOnError \in BOOLEAN
  /\ UseBatch \in BOOLEAN
  /\ BatchSizes \subseteq Nat \ {0}
  /\ SmallRange \in Nat
  /\ MaxLag \in Nat
  /\ MaxHead \in Nat
  /\ FaultKinds \subseteq {"start", "fetch", "handler", "save", "crash"}
  /\ MaxFaults \in Nat

VARIABLES
  head,      \* the chain's last block
  exists,    \* the ConfigIndexer record exists
  lastSync,  \* its lastSync
  ended,     \* its end flag
  handled,   \* logs whose handler succeeded: their effect is in the database
  dropped,   \* logs whose handler failed and were passed over
  pc,        \* where each crawler is
  crawling,  \* the crawlers whose instance has crawlSetting.crawling set
  shutdown,  \* the crawlers whose instance has crawlSetting.shutdown set
  run,       \* crawlSetting.runCount of its instance, capped at 2
  strategy,  \* crawlParams.strategy
  cur,       \* currentBlock
  latest,    \* latestBlock
  to,        \* toBlock of the fetched range
  todo,      \* logs of the fetched range not yet given to a handler
  retried,   \* the crawlers with retryCount >= 1
  faults     \* faults injected so far

store    == <<exists, lastSync, ended>>
effects  == <<handled, dropped>>
instance == <<crawling, shutdown, run>>
window   == <<strategy, cur, latest, to, retried>>
vars == <<head, store, effects, pc, instance, window, todo, faults>>

Strategies == {"receipts", "withoutTopics", "batch"}
Places == {"idle", "start", "head", "loop", "process", "update", "create", "end", "done"}

Min2(a, b) == IF a <= b THEN a ELSE b
Max2(a, b) == IF a >= b THEN a ELSE b

Settled == handled \union dropped

Fault(k) == k \in FaultKinds /\ faults < MaxFaults /\ faults' = faults + 1

Init ==
  /\ head \in InitialBlock .. MaxHead
  /\ exists = FALSE /\ lastSync = 0 /\ ended = FALSE
  /\ handled = {} /\ dropped = {}
  /\ pc = [c \in Crawlers |-> "idle"]
  /\ crawling = {}
  /\ shutdown = {}
  /\ run = [c \in Crawlers |-> 0]
  /\ strategy = [c \in Crawlers |-> "batch"]
  /\ cur = [c \in Crawlers |-> InitialBlock]
  /\ latest = [c \in Crawlers |-> 0]
  /\ to = [c \in Crawlers |-> 0]
  /\ todo = [c \in Crawlers |-> {}]
  /\ retried = {}
  /\ faults = 0

-----------------------------------------------------------------------------
(* The chain. *)

Mine ==
  /\ head < MaxHead
  /\ head' = head + 1
  /\ UNCHANGED <<store, effects, pc, instance, window, todo, faults>>

-----------------------------------------------------------------------------
(* crawl() *)

\* crawl() returns: the poller is idle again, a job goes on to end().
Return(c) ==
  /\ crawling' = crawling \ {c}
  /\ pc' = [pc EXCEPT ![c] = IF c \in Jobs THEN "end" ELSE "idle"]
  /\ todo' = [todo EXCEPT ![c] = {}]

\* crawl() on an instance that is still marked as crawling throws
\* 'Already crawling' and changes nothing.
Crawl(c) ==
  /\ pc[c] = "idle" /\ c \notin crawling
  /\ crawling' = crawling \union {c}
  /\ pc' = [pc EXCEPT ![c] = "start"]
  /\ UNCHANGED <<head, store, effects, shutdown, run, window, todo, faults>>

\* getServiceStartBlock: ProgressTracker.getStartingBlock.
GetStartingBlock(c) ==
  /\ pc[c] = "start"
  /\ cur' = [cur EXCEPT ![c] = IF exists THEN lastSync ELSE InitialBlock]
  /\ pc' = [pc EXCEPT ![c] = "head"]
  /\ UNCHANGED <<head, store, effects, instance, strategy, latest, to, retried, todo, faults>>

\* The database or the RPC node fails before the loop's try block: the error
\* leaves crawl() with crawling still set.
StartFails(c) ==
  /\ pc[c] \in {"start", "head"}
  /\ Fault("start")
  /\ pc' = [pc EXCEPT ![c] = IF c \in Jobs THEN "done" ELSE "idle"]
  /\ UNCHANGED <<head, store, effects, instance, window, todo>>

GetStrategyBySituation(a, b) ==
  IF b - a = 1 THEN "receipts"
  ELSE IF b - a + 1 <= SmallRange THEN "withoutTopics"
  ELSE "batch"

\* getBlockNumber('latest'), from a node that may lag; nothing to do when the
\* cursor is at the head.
GetLatestBlock(c) ==
  /\ pc[c] = "head"
  /\ \E b \in Max2(head - MaxLag, 0) .. head :
       /\ latest' = [latest EXCEPT ![c] = b]
       /\ \/ /\ b = cur[c]
             /\ Return(c)
             /\ UNCHANGED <<strategy, retried>>
          \/ /\ b # cur[c]
             /\ strategy' = [strategy EXCEPT ![c] = GetStrategyBySituation(cur[c], b)]
             /\ retried' = retried \ {c}
             /\ pc' = [pc EXCEPT ![c] = "loop"]
             /\ UNCHANGED <<crawling, todo>>
  /\ UNCHANGED <<head, store, effects, shutdown, run, cur, to, faults>>

\* updateAndCheckConditions
LoopCondition(c) == c \in crawling /\ latest[c] > 0 /\ cur[c] <= latest[c]

LoopEnds(c) ==
  /\ pc[c] = "loop" /\ ~LoopCondition(c)
  /\ Return(c)
  /\ UNCHANGED <<head, store, effects, shutdown, run, window, faults>>

\* A retry abandons getLogsWithoutTopics for getLogsByBatch.
CurrentStrategy(c) ==
  IF c \in retried /\ strategy[c] = "withoutTopics" THEN "batch" ELSE strategy[c]

\* The last block of the range a strategy asks for, in the n-th round.
ToBlock(c, s, n, size) ==
  IF s = "receipts" THEN latest[c]
  ELSE IF s = "batch" /\ n > 1 THEN Min2(cur[c] + size - 1, latest[c])
  ELSE Min2(cur[c] + size, latest[c])

\* Mutant: getLogsByBatch does not clear shutdown.
FetchLogsShutdownKept(c) ==
  /\ pc[c] = "loop" /\ LoopCondition(c)
  /\ run' = [run EXCEPT ![c] = Min2(run[c] + 1, 2)]
  /\ strategy' = [strategy EXCEPT ![c] = CurrentStrategy(c)]
  /\ \E size \in BatchSizes :
       to' = [to EXCEPT ![c] = ToBlock(c, CurrentStrategy(c), run'[c], size)]
  /\ UNCHANGED shutdown
  /\ \/ /\ c \in shutdown
        /\ Return(c)
     \/ /\ c \notin shutdown
        /\ todo' = [todo EXCEPT ![c] = LogsIn(cur[c], to'[c])]
        /\ pc' = [pc EXCEPT ![c] = "process"]
        /\ UNCHANGED crawling
  /\ UNCHANGED <<head, store, effects, cur, latest, retried, faults>>

\* One round's fetch succeeds. Only getLogsByBatch clears shutdown; with
\* shutdown still set by an earlier round the loop is left.
FetchLogs(c) ==
  /\ pc[c] = "loop" /\ LoopCondition(c)
  /\ run' = [run EXCEPT ![c] = Min2(run[c] + 1, 2)]
  /\ strategy' = [strategy EXCEPT ![c] = CurrentStrategy(c)]
  /\ \E size \in BatchSizes :
       to' = [to EXCEPT ![c] = ToBlock(c, CurrentStrategy(c), run'[c], size)]
  /\ shutdown' = IF CurrentStrategy(c) = "batch" THEN shutdown \ {c} ELSE shutdown
  /\ \/ /\ c \in shutdown'
        /\ Return(c)
     \/ /\ c \notin shutdown'
        /\ todo' = [todo EXCEPT ![c] = LogsIn(cur[c], to'[c])]
        /\ pc' = [pc EXCEPT ![c] = "process"]
        /\ UNCHANGED crawling
  /\ UNCHANGED <<head, store, effects, cur, latest, retried, faults>>

\* The catch block of the loop: an error is retried (after a backoff) only by
\* a crawler that does not stop on errors and only if it is a network or
\* rate-limit error; any other error sets shutdown.
CatchError(c, retryable) ==
  /\ retried' = retried \union {c}
  /\ shutdown' = IF retryable /\ ~StopOnError THEN shutdown ELSE shutdown \union {c}
  /\ IF StopOnError
     THEN Return(c)
     ELSE /\ pc' = [pc EXCEPT ![c] = "loop"]
          /\ todo' = [todo EXCEPT ![c] = {}]
          /\ UNCHANGED crawling

\* Mutant: the caller takes the empty answer of a failed fetch for the range.
FetchFailsTakenForEmpty(c) ==
  /\ pc[c] = "loop" /\ LoopCondition(c)
  /\ Fault("fetch")
  /\ run' = [run EXCEPT ![c] = Min2(run[c] + 1, 2)]
  /\ \E size \in BatchSizes :
       to' = [to EXCEPT ![c] = ToBlock(c, CurrentStrategy(c), run'[c], size)]
  /\ pc' = [pc EXCEPT ![c] = "process"]
  /\ UNCHANGED <<head, store, effects, crawling, shutdown, strategy, cur, latest, retried, todo>>

\* The fetch fails. getLogsByBatch and getLogsByBlockReceipts set shutdown and
\* return; getLogsWithoutTopics throws into the catch block.
FetchFails(c) ==
  /\ pc[c] = "loop" /\ LoopCondition(c)
  /\ Fault("fetch")
  /\ run' = [run EXCEPT ![c] = Min2(run[c] + 1, 2)]
  /\ strategy' = [strategy EXCEPT ![c] = CurrentStrategy(c)]
  /\ \/ /\ CurrentStrategy(c) = "withoutTopics"
        /\ \E retryable \in BOOLEAN : CatchError(c, retryable)
     \/ /\ CurrentStrategy(c) # "withoutTopics"
        /\ shutdown' = shutdown \union {c}
        /\ Return(c)
        /\ UNCHANGED retried
  /\ UNCHANGED <<head, store, effects, cur, latest, to>>

\* A rate-limited getLogsByBatch asks again; handleErrors sets shutdown on a
\* crawler that stops on errors, until the request succeeds.
RateLimited(c) ==
  /\ pc[c] = "loop" /\ LoopCondition(c) /\ CurrentStrategy(c) = "batch"
  /\ Fault("fetch")
  /\ shutdown' = IF StopOnError THEN shutdown \union {c} ELSE shutdown
  /\ UNCHANGED <<head, store, effects, pc, crawling, run, window, todo>>

-----------------------------------------------------------------------------
(* LogProcessingEngine *)

FirstOf(S) == {l \in S : \A m \in S \ {l} : Before(l, m)}

\* processLogsParallelBatch groups the range by event type, the groups in the
\* order of their first log, and works on one group at a time, in any order.
CurrentGroup(c) ==
  LET fetched == LogsIn(cur[c], to[c])
      open == {l \in fetched : \E m \in todo[c] : Kind[m] = Kind[l]}
  IN {l \in todo[c] : \E f \in FirstOf(open) : Kind[f] = Kind[l]}

\* Mutant: the logs of a range are not sorted.
EligibleUnsorted(c) == todo[c]

\* The logs the next handler call may be for.
Eligible(c) == IF UseBatch THEN CurrentGroup(c) ELSE FirstOf(todo[c])

HandleLog(c) ==
  /\ pc[c] = "process"
  /\ \E l \in Eligible(c) :
       /\ handled' = handled \union {l}
       /\ todo' = [todo EXCEPT ![c] = @ \ {l}]
  /\ UNCHANGED <<head, store, dropped, pc, instance, window, faults>>

\* A handler throws. With stopOnError the error is rethrown into crawl()'s
\* catch block (the other chunks of async.eachLimit may still complete);
\* otherwise it is counted and passed over: the log, or in batches the logs of
\* its chunk that are not handled by then.
HandlerFails(c) ==
  /\ pc[c] = "process"
  /\ Fault("handler")
  /\ \E l \in Eligible(c) :
       \/ /\ StopOnError
          /\ CatchError(c, FALSE)
          /\ \E running \in SUBSET (Eligible(c) \ {l}) : handled' = handled \union running
          /\ UNCHANGED dropped
       \/ /\ ~StopOnError
          /\ \E chunk \in SUBSET Eligible(c) :
               /\ l \in chunk
               /\ dropped' = dropped \union chunk
               /\ todo' = [todo EXCEPT ![c] = @ \ chunk]
          /\ UNCHANGED <<handled, pc, crawling, shutdown, retried>>
  /\ UNCHANGED <<head, store, run, strategy, cur, latest, to>>

-----------------------------------------------------------------------------
(* ProgressTracker.saveProgress *)

\* Mutant: progress is saved without waiting for the handlers.
SaveProgressFindEarly(c) ==
  /\ pc[c] = "process"
  /\ pc' = [pc EXCEPT ![c] = IF exists THEN "update" ELSE "create"]
  /\ UNCHANGED <<head, store, effects, instance, window, todo, faults>>

\* Its first call: is there a record?
SaveProgressFind(c) ==
  /\ pc[c] = "process" /\ todo[c] = {}
  /\ pc' = [pc EXCEPT ![c] = IF exists THEN "update" ELSE "create"]
  /\ UNCHANGED <<head, store, effects, instance, window, todo, faults>>

\* The range is saved: go on behind it, or leave the loop at the head.
NextRange(c) ==
  /\ cur' = [cur EXCEPT ![c] = to[c] + 1]
  /\ IF c \in shutdown \/ to[c] + 1 >= latest[c]
     THEN Return(c)
     ELSE pc' = [pc EXCEPT ![c] = "loop"] /\ UNCHANGED <<crawling, todo>>

\* findOneAndUpdate with $max
SaveProgressUpdate(c) ==
  /\ pc[c] = "update"
  /\ lastSync' = Max2(lastSync, to[c])
  /\ NextRange(c)
  /\ UNCHANGED <<head, exists, ended, effects, shutdown, run, strategy, latest, to, retried, faults>>

\* create; a record created since the find is a duplicate key.
SaveProgressCreate(c) ==
  /\ pc[c] = "create"
  /\ \/ /\ ~exists
        /\ exists' = TRUE /\ lastSync' = to[c]
        /\ NextRange(c)
        /\ UNCHANGED <<shutdown, retried>>
     \/ /\ exists
        /\ CatchError(c, FALSE)
        /\ UNCHANGED <<exists, lastSync, cur>>
  /\ UNCHANGED <<head, ended, effects, run, strategy, latest, to, faults>>

SaveFails(c) ==
  /\ pc[c] \in {"update", "create"}
  /\ Fault("save")
  /\ \E retryable \in BOOLEAN : CatchError(c, retryable)
  /\ UNCHANGED <<head, store, effects, run, strategy, cur, latest, to>>

-----------------------------------------------------------------------------
(* The callers of crawl() *)

NewInstance(c) ==
  /\ crawling' = crawling \ {c}
  /\ shutdown' = shutdown \ {c}
  /\ run' = [run EXCEPT ![c] = 0]

\* A job marks its cursor as ended, whether or not crawl() got to the head.
MarkAsEnded(c) ==
  /\ pc[c] = "end"
  /\ ended' = (ended \/ exists)
  /\ pc' = [pc EXCEPT ![c] = "done"]
  /\ UNCHANGED <<head, exists, lastSync, effects, instance, window, todo, faults>>

\* AragonReQueueService asks for the sync jobs whose record is not ended.
Requeue(c) ==
  /\ pc[c] = "done" /\ exists /\ ~ended
  /\ NewInstance(c)
  /\ pc' = [pc EXCEPT ![c] = "idle"]
  /\ UNCHANGED <<head, store, effects, window, todo, faults>>

\* The process dies and is started again.
Crash(c) ==
  /\ pc[c] # "idle" /\ pc[c] # "done"
  /\ Fault("crash")
  /\ NewInstance(c)
  /\ pc' = [pc EXCEPT ![c] = "idle"]
  /\ todo' = [todo EXCEPT ![c] = {}]
  /\ UNCHANGED <<head, store, effects, window>>

-----------------------------------------------------------------------------

\* The crawler's own steps, as opposed to what the environment does to it.
Step(c) ==
  \/ Crawl(c) \/ GetStartingBlock(c) \/ GetLatestBlock(c) \/ LoopEnds(c)
  \/ FetchLogs(c) \/ HandleLog(c)
  \/ SaveProgressFind(c) \/ SaveProgressUpdate(c) \/ SaveProgressCreate(c)
  \/ MarkAsEnded(c)

\* What is done to it: faults, and an operator starting the requeue service.
Environment(c) ==
  \/ Requeue(c)
  \/ StartFails(c) \/ FetchFails(c) \/ RateLimited(c)
  \/ HandlerFails(c) \/ SaveFails(c) \/ Crash(c)

Next == Mine \/ \E c \in Crawlers : Step(c) \/ Environment(c)

Spec == Init /\ [][Next]_vars

\* Node's event loop keeps running every crawler that is not down, the
\* scheduler polls again, and the chain grows.
FairSpec == Spec /\ WF_vars(Mine) /\ \A c \in Crawlers : WF_vars(Step(c))

-----------------------------------------------------------------------------
(* Properties *)

TypeOK ==
  /\ head \in Nat
  /\ exists \in BOOLEAN /\ lastSync \in Nat /\ ended \in BOOLEAN
  /\ handled \subseteq Logs /\ dropped \subseteq Logs
  /\ pc \in [Crawlers -> Places]
  /\ crawling \subseteq Crawlers
  /\ shutdown \subseteq Crawlers
  /\ run \in [Crawlers -> 0 .. 2]
  /\ strategy \in [Crawlers -> Strategies]
  /\ cur \in [Crawlers -> Nat]
  /\ latest \in [Crawlers -> Nat]
  /\ to \in [Crawlers -> Nat]
  /\ todo \in [Crawlers -> SUBSET Logs]
  /\ retried \subseteq Crawlers
  /\ faults \in Nat

\* The persisted cursor never passes a log that was not given to its handler:
\* every log up to lastSync is in the database or, on a crawler that does not
\* stop on errors, was passed over; a crash, an aborted range or a second
\* crawler on the same record opens no gap (crawl, saveProgress).
CursorCovers ==
  /\ exists => LogsIn(InitialBlock, lastSync) \subseteq Settled
  /\ StopOnError => dropped = {}

\* Handlers run in chain order over the whole history, although ranges are
\* repeated and several crawlers work on them: when a log has been handled,
\* so has every earlier one (sortLogs, processLogs). Only for the sequential
\* mode; processLogsParallelBatch reorders.
ChainOrder ==
  ~UseBatch => \A l \in Settled : Predecessors(l) \subseteq Settled

\* A crawler's window hangs together with the history: what lies before
\* currentBlock is settled, and of the fetched range everything is settled or
\* still to be given to a handler.
Covers(c) ==
  /\ pc[c] \in {"head", "loop", "process", "update", "create"} =>
       InitialBlock <= cur[c] /\ LogsIn(InitialBlock, cur[c] - 1) \subseteq Settled
  /\ pc[c] \in {"process", "update", "create"} =>
       /\ cur[c] <= to[c]
       /\ todo[c] \subseteq LogsIn(cur[c], to[c])
       /\ LogsIn(cur[c], to[c]) \subseteq Settled \union todo[c]
  /\ pc[c] \in {"update", "create"} => todo[c] = {}
  /\ pc[c] = "update" => exists

\* The inductive invariant behind CursorCovers and ChainOrder: they hold
\* because every crawler's window covers the history, whatever the others do.
CrawlInv ==
  /\ CursorCovers
  /\ ChainOrder
  /\ exists => InitialBlock <= lastSync
  /\ \A c \in Crawlers : Covers(c)

\* saveProgress keeps the highest block among concurrent crawlers.
CursorMonotone == [][exists => exists' /\ lastSync' >= lastSync]_vars

\* The cursor comes within one short range of the head and stays there: faults
\* of fetches, handlers, saves and crashes do not stall a poller for good.
CursorCatchesUp == <>[](exists /\ lastSync >= MaxHead - SmallRange)

\* The crawlers implement the delivery promise: the cursor of a record that
\* does not exist yet is the block before the first.
Delivery == INSTANCE LogDelivery WITH
  Ordered <- ~UseBatch,
  delivered <- Settled,
  cursor <- IF exists THEN lastSync ELSE InitialBlock - 1

ImplementsDelivery == Delivery!Spec
=============================================================================
