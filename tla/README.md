# A verification of the Aragon/Axodus indexing backend

This directory holds TLA+ specifications of the backend in `src/`, the TLC
configurations that check them on small instances and proofs, checked by TLAPS,
that hold for every value of the constants. `PROJECT.json` is its index: which
component is modelled by which module, which lines a definition stands for, what
each run checks, and the hazards the properties are aimed at.

1. [The system](#1-the-system): components, their state, how they interact, what is hard
2. [The modules](#2-the-modules): how state and actions correspond to the code
3. [The runs](#3-the-runs): what each shows, bounds, fairness
4. [Where the code does not do what is said of it](#4-where-the-code-does-not-do-what-is-said-of-it)
5. [The proofs](#5-the-proofs): assumptions, inductive invariants, what is left to TLC
6. [What is not modelled](#6-what-is-not-modelled)
7. [The plan](#7-the-plan)
8. [Running it](#8-running-it)

---

## 1. The system

The backend indexes DAOs of several chains into MongoDB and serves them over
HTTP. It consists of Node.js processes (one per service, see `runners/`) that
share a MongoDB database and a RabbitMQ broker.

```
            chain (RPC nodes)
                 | getLogs, getBlockNumber
                 v
  TaskScheduler ---> log crawler ---> event handlers ---> MongoDB collections
   (lease in         (cursor in        (Vote, Proposal,        |
   TaskService)      ConfigIndexer)    Plugin, ...)            |
        |                 ^                 |                  |
        |                 | crawl(), end()  | sendMessage      |
        |           plugin sync jobs <--- RabbitMQ ---> metrics workers
        |                 ^                 ^                  |
        +---- requeue ----+-----------------+             HTTP APIs
```

### Components

| Component | State it keeps | Operations | What makes it correct |
|---|---|---|---|
| **Log crawler** (`modules/crawlers/`) | in memory: `crawlSetting` (crawling, shutdown, runCount), `currentBlock`, `latestBlock`; persistent: the `ConfigIndexer` record (`lastSync`, `end`) | `crawl`, `end`, three fetching strategies, sequential or batch processing, `saveProgress` | the cursor never passes a log that was not given to its handler; handlers run in chain order; the cursor never goes back and reaches the head |
| **Task scheduler** (`modules/taskScheduler.ts`) | `TaskService` record: `lockedUntil`, `lockedBy`, `nextStartAt`; the intervals of a process | `startTask`, `acquireLock`, `releaseLock`, shutdown handlers | a task does not run twice at a time; no lock stops it for good |
| **Message queue** (`helpers/rabbitMQ.ts`) | `queuedMessages`, `activeJobs` of a process; the broker's queue | `sendMessage`, `sendMessageWithThrottle`, `process`, requests with a response | one job per id; no message disappears unhandled; one failure does not block the others |
| **Vote handlers** (`handlers/proposalHandler.ts`) | `Vote` collection | `approved`, `voteCast`, `harmonyVoteCast`, `voteCleared` | the votes that count are those of the chain, one per member, after any redelivery |
| **Proposal handlers** (same file) | `Proposal` collection, incremental ids | created, edited, executed, canceled, advanced, reported, Harmony's created and closed | incremental ids are unique and ordered; stage, sub-proposals, results and execution follow the chain |
| **Plugin lifecycle** (`pluginSetupProcessorHandler.ts`, `pluginHandler.ts`, `permissionHandler.ts`, `pluginSlug.ts`) | `LogPluginSetupProcessor`, `DaoPermission`, `Plugin`, `PluginSlug` | prepare and apply of install, update, uninstall; grant and revoke | a plugin has one installed document and one slug while it is installed on the chain |
| **Token, escrow, lock manager and multisig handlers** (`handlers/`, `governance/`) | `TokenMember`, `LockToVoteMember`, `Lock`, `PluginMember` | one handler per event; batches of delegations with a fallback | power, locks and lists follow the chain; each change is announced |
| **Harmony voting finalizer** (`harmonyVotingFinalizer.ts`) | blocked proposals in memory; roots, power and closed proposals on the chain | one run over all proposals, repeated | nobody who may vote is left out of an early close; a proposal with a root is closed |
| Reorganisations, backfill (`reorgDetector.ts`, `backfillReplay.ts`) | `lastBlockHash(Number)` of `ConfigIndexer` | `detectReorg`, `rollbackFromBlock`, `backfill`, `replay` | after a rollback every removed log is delivered again |
| **Indexer, plugin sync, requeue services** (`services/aragon-indexer/`, `aragon-plugins/`, `aragon-requeue/`, `poolingCrawler.ts`) | the addresses read at the start, the pool of crawler instances; `isHistoricalSynced` of the plugins, the `ConfigIndexer` records of plugins and tokens | start (historical crawl, backfill, poller, SyncAll), sync jobs, requeue of records not ended | a plugin marked as synchronised has its backlog; every installed plugin is marked; no log of it is missed |
| Metrics workers, gateway | counters of DAOs, plugins, proposals | handlers of queue messages | numbers follow the collections |
| RPC layer (`rpcPool.ts`, providers) | health of endpoints | failover, rate limits, retries | a healthy endpoint is used if there is one |
| Database layer, migrations | `Migration` records | transactions, `syncIndexes`, migrations in order | every migration completes once |
| HTTP APIs; governance, persistence and read-model contracts; chains registry; artifacts; logging | none of their own | queries, validation, formatting | |

The parts in bold are modelled.

### How they interact, and what is hard

* **Delivery is at least once.** The crawler saves its cursor after the handlers
  of a range; a crash in between repeats the range, and every poll starts *at*
  `lastSync`, not behind it, so the last block is delivered again even without
  a fault. Handlers must be idempotent, one event at a time, which each does
  in its own way: by an id (`findExistingLog`), an upsert or a query.
* **Two crawlers may share one cursor**: the poller of a service and a sync job
  of it, or two processes whose scheduler lease overlapped. `saveProgress` is a
  find followed by an update or a create, without a transaction.
* **A poller crawls all plugins, a sync job one address**: only the first gives the events of a staged plugin and of its
  bodies' plugins in one order.
* **The crawler object is pooled** (`poolingCrawler.ts:38`): flags of one crawl
  survive into the next.
* **Handlers swallow their errors** (`try`/`catch` around the whole body): the
  crawler takes a failed event for a handled one, so it is lost.
* **The lease is advisory**: it is read, then judged stale by the process id, then
  removed and claimed in separate database calls, and it is never renewed.
* **The queue's tables are per process** and the broker redelivers what a lost
  channel had not acknowledged, while the first handler is still at work.
* **Handlers ask the chain for what holds now** (results of bodies, stages, locked balances,
  head and time), while the events they handle may be old: what is stored mixes the two.
* **A service that stores a log and then acts on it** recognises a repeated event by
  the log, whether or not it had acted (`pluginSetupProcessorHandler.ts:166`).
* **The finalizer writes to the chain**: a transaction outlives the run that sent it.
* **Who fetches a log changes over a plugin's life**: the poller drops what the database does not know yet and asks
  by addresses it read at its start; jobs, backfill and requeue make up for it, each on the strength of a mark that
  another of them set.
* **Unique indexes depend on `syncIndexes`**, whose failure (existing duplicates)
  is tolerated: the collection behaves differently with and without them.

The hazards these give rise to are listed in `PROJECT.json` with the line where
each bites and the properties that would catch it.

---

## 2. The modules

| Module | Models | EXTENDS / INSTANCE |
|---|---|---|
| `ChainLogs` | the logs of a chain and their order (`sortLogs`, `eth_getLogs`) | |
| `LogDelivery` | abstract: what the indexer promises of a service's logs | `ChainLogs` |
| `LogCrawler` | `BlockchainLogCrawler`, `LogProcessingEngine`, `CrawlerErrorHandler`, `ProgressTracker`, several crawlers on one record | `ChainLogs`; `LogDelivery` as refinement target |
| `TaskLock` | `TaskScheduler`: the lease of one task | |
| `MessageQueue` | `RabbitMQHelper`: one queue, its senders and consumers | |
| `Votes` | the vote handlers, the `Vote` collection and the crawler's redeliveries | |
| `Proposals` | the proposal handlers and the `Proposal` collection | |
| `PluginLifecycle` | the handlers of setup events and permissions, `Plugin` and `PluginSlug` | |
| `Members` | the handlers of voting power, locks and multisig lists, with the poller's and the job's way of calling them | |
| `PluginSync` | the indexer service of one network, its queues and the jobs that synchronise one plugin: who fetches which log, from where, and when | |
| `HarmonyFinalizer` | the task that ends Harmony proposals, and what it relies on of the contract | |
| `MC...` | small instances for TLC, one per module | the module of the name |
| `...Proofs` | theorems and proofs | the module of the name, TLAPS |
| `InfrastructureProofs` | theorems and proofs about the lease and the queue | `TaskLock`, `MessageQueue`, TLAPS |

The crawler, the queue and the lease appear in the handlers' modules as what their own
modules show of them: events in chain order, given again from an earlier one on
(`LogDelivery`), by two crawlers where a lease expired (`TaskLock`), and messages that are
sent or not.

Operators named "Mutant" in the comments are plausible bugs of the definition
that follows them (a dropped filter, an off-by-one, a missing reset). No action
uses them; each is the evidence that some property would notice that bug.

### LogCrawler

A log is a pair `<<block, index>>`; `Kind` is its event type. One process
(`Crawlers`) is one crawler object with its caller: a poller, which calls
`crawl()` again and again on one pooled object, or a job (`Jobs`), which calls
`crawl()` and then `end()` once per object.

* `pc`: `idle`, `start` (reading the cursor), `head` (reading the chain's head), `loop`
  (at the loop's condition), `process` (handlers), `update` / `create` (the second call
  of `saveProgress`), `end` and `done` for jobs.
* `crawling`, `shutdown`, `run`, `retried`: the flags of the object;
  `strategy`, `cur`, `latest`, `to`: the window of the crawl; `exists`, `lastSync`, `ended`: the record.
* `handled`, `dropped`: the logs whose handler succeeded, and those passed over
  after a failure by a crawler with `stopOnError: false`. They are the effect of
  the handlers on the database.
* One action per step between two awaits that others can observe:
  `GetStartingBlock`, `GetLatestBlock` (from a node that may lag by `MaxLag`),
  `FetchLogs`, `FetchFails`, `RateLimited`, `HandleLog` (one handler call),
  `HandlerFails`, `SaveProgressFind`, then `SaveProgressUpdate` (`$max`) or
  `SaveProgressCreate` (duplicate key if another crawler was faster), `SaveFails`,
  `MarkAsEnded`, `Requeue`, `Crash`. `CatchError` is the loop's catch block with
  the error handler's three cases.
* The size of a range is any member of `BatchSizes`: whatever the adaptive batch
  manager chooses. The off-by-one differences between the strategies
  (`calculateToBlock`, `resizeToBlock`) are kept in `ToBlock`.
* The batch mode (`processLogsParallelBatch`) groups a range by event type and works
  on a group in any order; `CurrentGroup` is the group it is at. A batch handler that fails takes the whole
  chunk of its group with it (`HandlerFails`).

`LogDelivery` is the promise: logs are delivered, in chain order if the service is
ordered, and a cursor moves forward over delivered blocks only. `LogCrawler`
implements it with `delivered <- handled \union dropped` and the cursor of a
record that does not exist yet taken as the block before the first.

### TaskLock

A runner is one execution of a task's `taskRunner`; `setInterval` starts another
in the same process whether or not the last has returned, so a process may have
several. Times (`ttl`, `due`, `age`) are relative to the clock, which makes the
state space finite although time goes on for ever. `acquireLock` is three steps,
`FindLock` (read, and ask for the owner's process on this host), `ClearStaleLock`
(remove by name) and `ClaimLock` (conditional update); the time a runner
compares with is the one it read when it began, `age` ticks ago. `ReleaseLock` removes
by name. `GracefulShutdown` and `UnhandledError` release the locks that carry the
process's id; after the second the process goes on. `overran` is a history variable, read by no action: a run has
been at work for as long as the lease.

### MessageQueue

`place` is where each message is (`new`, `admitted` by the throttle, `sending`,
`ready`, `unacked`, `acked`; `skipped` because its id is being queued, `lost` because
`sendToQueue` failed, which is logged and forgotten). `jobs` are the deliveries a process
has not settled; a job is `live` while the channel it came by is open, since a
reconnect does not stop the handler but makes its acknowledgement void.
`queuedMessages` and `activeJobs` are the two tables of each process. `Crash` takes both from a process, its deliveries,
which go back to the queue, and its messages that were not sent yet; `Disconnect` closes the channel and leaves the tables. A handler that throws leaves its
message unacknowledged and its id active, as the code does.

### Votes

An event stands for `(network, transactionHash, logIndex)` and so does the document
stored for it, so a `Vote` document is named by its event's place in the history. The
handlers' queries are operators over that set: `ExistingLog` finds only documents that
have an id, and the upserts of `voteCast` and `harmonyVoteCast` store none;
`VotesOnPlugin` is `findVoteOnPlugin`, the member's newest vote by block (any of them, if
two are of one block); `DuplicateKey` is what the unique indexes refuse. `indexed`,
chosen at the start, says whether they exist. A handler is two steps: what it
writes, and the rest of it (`Notify`: member, metrics, message); `HandlerFails` is an error at
any point of either, which is logged and swallowed. The crawler is abstracted to what
`LogCrawler` shows of it: events in order, a cursor over handled blocks, and
`Redeliver`, a new crawl from the cursor's block. `Legal` is what the contracts emit:
one approval per member and proposal, a clear only of a vote that stands.

### Proposals

The proposals of a staged plugin (SPP), of the bodies of its stages and of a Harmony plugin. An
event is named by its place in the history, and what a document takes from an event is that
place. `docs` are the documents, `mem` what a handler keeps between two awaits: the incremental
id it has computed (`FindIncrementalId`: the last saved proposal of an earlier block, and the logs
since), the document it read, and what the chain answered. The chain grows meanwhile
(`Mine`), and `StageNow`, `SubNow` and `ResultNow` are what it answers at the moment.
`first` is open: whether `getProposal().currentStage` counts from 0 or 1 the code cannot tell, and the
properties hold for both. A handler that returns without its effect (no proposal, a swallowed error)
leaves its event in `failed` and its proposals in `spoiled`; `raced` says that two creations
have been computing an id at once, `givenUp` which proposals were ever given up because their number was taken.
`Legal` is what the contracts emit: a proposal is created once and before all else about it, its stages advance by
one from 1 on, and a sub-proposal of a stage is made before that stage begins, one of the stage the proposal starts in before
the proposal's own event. `address` says which proposals' plugins each crawler is started for, all (a poller) or those of one
plugin (a job): a crawler goes past the events of others (`Skip`), and `Covered` is that a plugin is crawled whole, by
somebody. `Together(p, q)` says that whoever crawls `p` crawls `q`. `Create`, `AskTaken`, `Save`, `Pair`, `Paired` are the steps of
`proposalCreated`; `Edit`, `Execute`, `Cancel`, `Close` are transactions of one step; `Report` and
`PushResult`, and `Advance`, `FindSubs`, `ExecuteSubs`, `AdvanceStage` are those of the two
handlers that ask the chain between reading and writing. `HarmonyCreate` joins `proposalCreated` at `Save`, since it pairs too. An execution
that is stored between `FindSubs` and `ExecuteSubs` of another crawler (`BeingExecuted`) has met that
handler, and spoils its proposal.

### PluginLifecycle

A `Plugin` document is named by plugin and transaction, as its id is. `Receive` asks for the event's log
(`installationPrepared` alone does not); `StoreLog`, `QueryUpdate`, `CreatePlugin`, `InstallPlugin`, `FindPlugin`,
`WritePlugin`, `KeepSlug`, `ReserveSlug`, `Settings`, `LogPermission` are the awaits of the six setup
handlers and the two of permissions. `Pairs` is the aggregation `_queryGetPlugin`: any of the
prepared/applied pairs may come first. `ByAddress` prefers supported documents. `ReserveSlug` tries the next
suffix when the unique index refuses one. Whether an error is thrown to the crawler (`Throws`), caught in
the plugin's part (`Caught`) or at the handler's end is kept event by event. `Legal` is what the setup
processor and the DAO emit. A plugin is `spoiled` when a handler of it was cut short, met another, or found no suffix free;
`Plain` says which histories of a plugin the handlers are meant for (section 4 has the others).

### Members

`power` is the record of an account (value and block of the last change), whichever of `TokenMember` and
`LockToVoteMember` it is; `locks` the marks and the receiver of an escrow token; `list` a multisig. A crawler in
`Jobs` takes the `DelegateVotesChanged` of a range of blocks at once: `Latest` is the member's event
that the filter and the batch keep (the *first* of the last block), `BulkWrite` writes it whatever the record holds, may
fail after part of it without anybody noticing, and `BulkMetrics` leads to the message or to `Fallback`.
`Stamped` is the comparison of blocks in `update`. `ReadBalance` asks the lock manager for the balance as of the
chain's head; `GuessBalance` is what happens when it does not answer. `dirty` is raised by every change
and lowered by the message for the DAO's metrics. `Legal` says that a history is that of one contract (token, lock manager, escrow or
multisig: `Families`), and that nothing happens to an escrow token before its deposit.

### PluginSync

`setting` is what one behaviour is about: a history of the network (`chain`), what a job of each plugin crawls
(its contract, its token, or neither), the block each one's token was `created` in (0 where the code does not find it out), and the configuration (contracts file, `SYNC_ALL`, `OFFSET_TO_BLOCK`, a
node that lags). `IsHistory` is what the chain promises: a plugin's address is made by its preparation, which comes before its one
installation; the plugin has no logs before that block and its token none before its own. `pc` is where the indexer's start is: the historical crawl of a network without a record, the
`Backfill`, the poller. `addresses` is what `getIndexerCoreAddresses` read when the service started; `FetchRange` says which logs
a range brings (by address, by receipts, filtered by `Kept`, or setup events only), `Handle...` what their
handlers do to the plugin and which messages they owe, `SendMessage` sends them one by one. Workers take messages
(`Take`, `DropActive`) and crawl the plugin's services from their record's `lastSync` or, without a record, from `FromBlock`:
the token's own block where it is known, else `BlockNumber`, that of the preparation
(`BeginPluginCrawl`, `CrawlRange`), then set the end flags (`EndCrawls`) and the mark (`FinishJob`). A job handles a range and
saves it in one step, and equal messages that wait are one, as what lies between is shown by `LogCrawler` and
`MessageQueue`. Updates and repeated installations of a plugin are in `PluginLifecycle`, not here; the poller's failure before
its `try` block is in `LogCrawler`.

### HarmonyFinalizer

One target in validators mode. A run reads the head, then the time (`Start`, `ReadTimestamp`), then goes through the
proposals: `Examine` decides to wait, to close one whose window is over, or to compute the root
(`ComputeEntries`), collect the voters (`GetVoters`), submit their power one by one (`SubmitVotingPower`)
and close (`OracleClose`). A Merkle root is the set it is made of. A transaction is `sent`, in the order of its nonce, and
mined later (`TransactionMined`), when the contract accepts it or not; the run waits, unless its wait fails
(`WaitFails`) or it dies (`Crash`). `FirstBlock` is the search for a block by its time,
with the loop (`Search`) as a recursive function of `lo` and `hi`. Settings (`delay`, `revalidate`), registry and ballots are chosen at the start.

---

## 3. The runs

| Run | Instance | Checks | Shows |
|---|---|---|---|
| `LogCrawlerShared` | a poller and a job, sequential, stop on error, two faults of any kind but at the start, lagging node, fair | `CursorCovers`, `ChainOrder`, `ImplementsDelivery`, `CursorCatchesUp` | no log is lost and none overtakes another, whatever the two do to the record, and the cursor catches up |
| `LogCrawlerSkipping` | two pollers in batch mode that go on after errors, with the failure at the start | `ImplementsDelivery` | every log up to the cursor was given to its handler |
| `TaskLockOneHost` | three runners, two processes, one host, runs longer than the lease, two database errors or shutdowns | `MutualExclusion` | until a run outlives it, the lease is a lock |
| `TaskLockFaults` | two hosts, runs longer than the lease, two faults of any kind, fair | `RunsAgain` | no lock is left behind for good |
| `MessageQueue` | three messages, two of one id, one throttled; two faults of any kind, prefetch 2, fair | `TypeOK`, `OneJobPerId`, `RemovedWhenDone`, `FailureIsolated` | one job per id; only handled messages, or those whose id was at work, leave; one failure blocks its own message and no other |
| `VotesRedelivered` | two members, three proposals, every legal history of up to four events, two redeliveries or failures, with and without indexes | `OneVotePerMember`, `FirstDelivery`, `ApprovalsStand`, `StaleIsRepaired` | one vote per member, the right ones at the first delivery, approvals stay, metrics are repaired |
| `VotesReplayed` | histories of two events, one redelivery | `ReplayHarmless` **violated** | finding 1 |
| `Proposals` | five histories, two pollers, a poller and a job of the bodies, or a job of the staged plugin and one of the bodies, two crashes, failures or redeliveries, while the chain grows | `TypeOK`, `IncrementalUnique`, `IncrementalOrder`, `ContentFollows`, `StageFollows`, `SubsFollow`, `ResultsFollow`, `ExecutionStays` | what is delivered again, in whatever company, leaves the documents as the chain has them |
| `PluginLifecycle` | every legal history of up to four transactions over two plugins, two crawlers, one fault | `StatusFollows`, `SlugFollows`, `PreparedHasPlugin` | documents, slugs and the request for synchronisation follow the chain; a preparation leaves its plugin, whatever crashes |
| `Members` | every history of three events of voting power or of a multisig, of four of an escrow token; a poller and a job, two faults | `PowerFollows`, `LocksFollow`, `MembershipFollows`, `MetricsAsked`, `NeverBack` | power, locks and lists follow the chain, and a change is announced even where a crash came in between |
| `HarmonyFinalizer` | two proposals, two voters, eight blocks, both settings, one fault, fair | `CountedWhenClosed`, `RootRecomputed`, `SearchFinds`, `RootLeadsToClosed` | an early close counts everybody; the root is found again; the binary search is right; no proposal with a root stays open |
| `PluginSync` | one plugin in four settings (all faults; `SYNC_ALL` and a lagging node; a token; an uninstallation), a worker of each queue and a second where a message is dropped, at most one fault, fair | `TypeOK`, `SyncedUnlessFailed`, `InstalledSynced`, `EveryLogHandled` | the mark of the historical synchronisation means what it says unless a crawl failed; every installed plugin gets it; with `SYNC_ALL` no log is missed |

The type invariants of `LogCrawler`, `TaskLock`, `Votes`, `PluginLifecycle`, `Members` and `HarmonyFinalizer` are proved (section 5) and
need no run.

Where a property of the handlers leaves something out (a proposal one of whose handlers failed, a plugin updated
twice), its comment says so, and the ghost variable it asks (`failed`, `spoiled`, `guessed`,
`silent`, `refused`, `raced`, `givenUp`) is set by exactly that step: what it leaves out does go wrong in the
code, and the hazard in `PROJECT.json` says where.

### Bounds, and why they are enough

* *LogCrawler.* Four logs in blocks 1, 2, 2 and 4 of a chain of up to four to six blocks:
  an empty block (3), a block with two logs of different types, and enough blocks
  for two ranges of size one or two to meet, which is where ranges could
  overlap or leave a gap. `SmallRange` is chosen so that all three strategies
  occur. Two crawlers are the least number that interleave on the record; one
  fault of each kind at any point, followed by a complete further crawl, is what a gap needs.
* *TaskLock.* Lease 3, interval 1: a run can be shorter or longer (`MaxAge` 4) than the lease, and overlap with
  several intervals. Two
  runners of one process and one of another are the cases of the owner's identity.
* *MessageQueue.* Two messages of one id and one or two of others; two senders, one in
  the consumer's own process so that the two tables meet; prefetch 2, so that one
  failed handler halves the channel but does not stop it.
* *Votes.* Four events are vote, clear, vote, and one of another member or proposal
  in between; the first two share a block, because `findVoteOnPlugin` orders by block.
  Two disturbances are a failure and a redelivery, or two redeliveries.
* *Proposals.* The histories are one for each thing that is hard: proposals of a plugin that share a block or not
  (the id is computed from the last block), a body that reports twice, a staged proposal created after
  its sub-proposal, edited and advanced, one that advances twice, and Harmony's. Two crawlers and two faults are a
  lost event that is delivered again, or one delivered again while the other crawler is at it. `MCAddresses` are the ways to share
  the plugins of a proposal and its bodies between two crawlers that matter: both crawl all, one of them the bodies only, or each
  a part, in which case nothing orders the events of a proposal and of its bodies.
* *PluginLifecycle.* Four transactions are install, uninstall with its revocation, and a second plugin that takes the slug
  in between; or install, update and its aftermath. `MaxSuffix` 2 leaves one suffix more than two plugins
  need. One fault in a history of up to twelve events falls on each of its steps. Two of the transactions mix plugins or
  steps: the revocation of one plugin with the preparation of the other, and a grant with the installation it precedes.
* *Members.* Three events of two accounts, in shared or own blocks, are the least in which one event is the last of
  its block and another is not while a third is later; an escrow token needs four for deposit, delegation, exit and withdrawal.
* *HarmonyFinalizer.* Blocks share timestamps (2 and 5), one snapshot lies behind its end date, both windows end within the chain, and a
  voter leaves or joins the registry between the two snapshots. One run at a time: two would square the states, and
  what a second could do to the first, its transactions, is what a dead run leaves behind.
* *PluginSync.* Four blocks are one before the installation, its preparation, its application and one after it. The settings are an installation
  in one transaction, one spread over two blocks, a token minted before the plugin, from a block before the preparation on, and one that is gone again; a fault of
  each kind falls on every step of the first. Ranges of three blocks, cut off at the head (`Reach`), end before, in and behind the installation. In the setting with the
  uninstallation the requeue queue has a second worker, so that a message whose id is at work is dropped.

`CHECK_DEADLOCK FALSE` is set where the instance really ends: a job without
work, a queue that is empty, a history that is handled. Symmetry (`Proposals`, `PluginLifecycle`) is that of the
two crawlers, and only where no liveness is checked.

### Fairness

`LogCrawler!FairSpec` assumes that the chain grows (up to the bound) and that
each crawler's own steps go on: the event loop runs, calls that do not fail
return, and the scheduler polls again (`POOLING_INTERVAL`). Faults and crashes
have no fairness and are bounded in number. `TaskLock!TaskFairSpec` assumes
that the clock ticks and runners go on, not that a process stays up or
restarts: `RunsAgain` is promised for the processes that do stay up.
`MessageQueue!FairSpec` assumes that calls return, that the broker hands out what is ready
and that handlers that do not throw end, one by one and not as a group.
`HarmonyFinalizer!FairSpec` assumes that the chain grows to its bound, that transactions are mined, and that the task's next
step is taken, which is what `TaskLock!RunsAgain` promises of it. `PluginSync!FairSpec` assumes that the chain grows, that the indexer is started again and its calls
return, that each worker goes on, be it with its job or with the next message of its queue, and that SyncAll
comes to every plugin; no requeue, no crash and no fault need ever happen. Strong fairness is used nowhere.

---

## 4. Where the code does not do what is said of it

1. **A vote delivered twice is deleted** (`VotesReplayed`, `proposalHandler.ts:702`). The stored vote
   has no id, so the second delivery does not recognise it, takes it for the vote to
   replace, updates it and deletes it. No fault is needed: a poll that finds the
   head unchanged returns early, but the next one starts at `lastSync` and
   delivers that block again. The same holds for `harmonyVoteCast`.

Facts that the models contain, that limit what the properties promise, and that no run is dedicated to:

* *Crawler.* A failure before the `try` block (`blockchainLogCrawler.ts:127`) leaves the pooled object marked as
  crawling, and every later `crawl()` of the poller throws: `CursorCatchesUp` is promised without this
  fault. A job calls `end()` after a crawl that gave up (`:267`): the record is ended short of the head.
* *Scheduler.* After a crash two runners may both see the dead owner; the second removes, by name, the lock the first has
  taken since (`taskScheduler.ts:63`). A lock of a live process on another host is taken for stale (`:207`). An uncaught error releases
  the lock of a run that goes on (`:262`). A
  run longer than five minutes loses its lease, and its `releaseLock` removes the successor's, whose own then removes the
  next one's: after one such run two may be at work at a time again and again, hence `MutualExclusion` is
  promised only as long as none has been.
* *Votes.* With the unique indexes in place, votes without an id collide on `{id: null}` and all but one are refused
  silently (`vote.ts:57`, variable `indexed`); `voteCleared` never finds its own earlier mark
  (`proposalHandler.ts:1488`), so replaying `clear` after a new vote marks the new vote.
* *Proposals.* An advance that failed and is delivered again after a later one sets the stage back; two crawlers that compute an
  incremental id at once may choose the same; the last advance of a proposal lists the sub-proposals of its stage only if
  the chain has them by then. A sub-proposal given up because its number was taken (which needs another creation of its plugin
  to have failed or raced) stays listed by its proposal without being stored: `SubsFollow` leaves it out.
* *Proposals crawled apart.* A sync job crawls one plugin's address (`logSPP.ts:18`, `logMultisig.ts:18`), so the job of a staged plugin
  may handle a proposal's creation and its advances before a job of a body's plugin has stored the
  sub-proposal. Pairing then finds none to point to the proposal (`proposalHandler.ts:1323`), nor does the advance (`:1136`), the next
  advance finds none to execute (`:1061`), and nothing sets either later: a sub-proposal that is paired itself gets its stage and
  returns (`:1282`). TLC finds this without a fault when `SubsFollow` is stated without `Together`; it is therefore
  promised of the sub-proposals that whoever crawls their proposal crawls too, for which the poller's one order of all logs
  suffices. The other properties of `Proposals` need no such condition.
* *Executions that meet.* `proposalAdvanced` executes a sub-proposal that it has found open (`:1071`) without asking again. If another
  crawler stores the sub-proposal's own execution in between, that is replaced: `ExecutionStays` leaves such a meeting out.
* *Harmony proposals.* A closed one is never marked as closed: the document that was found is updated by a query for
  `_id: proposal.id` (`proposalHandler.ts:767`), an id of another form, which fails to cast; the error is caught and logged. `Proposals!Close` has
  no effect for this reason.
* *Synchronisation.* "Ensure newly installed plugins receive a one-time historical sync" (`aragon-indexer/index.ts:175`): a historical job marks its
  plugin (`aragon-plugins/index.ts:128`) even if its crawl stopped on an error, or did nothing because the node it asked was not
  ahead of its start (`blockchainLogCrawler.ts:139`); nothing repeats it then, and what the poller dropped stays unhandled until some
  other job crawls the plugin. Without `SYNC_ALL` the logs of a plugin installed after the start may be missed even later on,
  because the poller asks by the addresses it was given then (`aragon-indexer/index.ts:83`, 197).
* *Plugins.* Of two updates the pair of either may be taken (`pluginHandler.ts:323`); of an applied event whose handler died
  behind its log nothing is done when it comes again; two handlers of one plugin that meet may leave it two slugs. A revocation in
  a transaction that prepares any installation or applies any uninstallation, be it another plugin's, is passed over (`pluginHandler.ts:682`),
  and so is a grant in the transaction of an installation applied behind it (`:760`); the document then stays as it was.
* *Members.* The last of several delegations in one block is not the one that is kept; a bulk write that fails half-way is
  swallowed (`erc20Governance.ts:349`), so that the fallback "to ensure no data loss" (`governanceErc20Handler.ts:229`)
  is not reached, and the fallback sends no message; a delegation delivered again leaves a withdrawn lock
  delegated.
* *Finalizer.* Without a delay a vote in the last block before the end date may be missed, because the head is
  read before the time; where nobody opted in, the root changes with the election and the proposal is blocked; a
  voter whose transaction failed is not counted.

---

## 5. The proofs

The theorems hold for every chain, any number of crawlers, runners,
processes, messages, members and proposals, any batch sizes and any number of
faults. Their assumptions are the named `ASSUME`s of the modules, which TLC
evaluates on every run.

* **LogCrawler** (`TypeCorrect`, `InvCorrect`, `NoGap`, `InOrder`, `Monotone`, `Refinement`). `CursorCovers` is not
  inductive: a crawler is about to write a cursor that it computed long before. `CrawlInv` adds what each crawler
  knows while it works (`Covers`): everything before `cur` is settled, everything from `cur` to `to` is settled or
  still in `todo`, `todo` is empty at the save, and in `update` the record exists. It is preserved because `handled`
  and `dropped` only grow, so one crawler's steps never falsify another's window (`QuietStep`, `SettleStep`), and
  ranges meet because the next starts at `to + 1` (`NextRangeKeeps`). `ChainOrder` follows because the first
  unsettled log of a window has all its predecessors behind it (`FirstIsReady`). The refinement maps each step to
  `Deliver`, `DeliverMany`, `Advance` or a stutter (`EffectStep`, `RecordStep`).
* **TaskLock**, in `InfrastructureProofs` (`LockTypeCorrect`; `LockHeld`, `Exclusion` under `SafeLease`). `SafeLease` is what
  makes the lease a lock until a run outlives it: one host, process ids that differ, and no faults but failing database calls
  and shutdowns. The facts above show that none of it can be dropped. `LockInv` says that until then whoever works owns a lock
  whose remaining time is the lease less its age, and that no runner is about to remove a lock (`NoneStale`). The type invariant needs that
  busy runners belong to processes that are up.
* **MessageQueue**, likewise (`QueueTypeCorrect`, `OneJob`, `JobsAreActive`, `NoneDisappears`), under every fault. `TypeOK`
  includes that a message is unacknowledged exactly while an open channel has a delivery of it; the strengthening
  says that it has only one. `OneJobPerId` is inductive together with `ActiveJobs`: a new job starts only if its id
  is in no other. `RemovedWhenDone` is an action property; what a step may acknowledge follows from `OwnedInv`:
  every id in `activeJobs` is that of a job at work in the same process (`ActiveOwned`), and a job whose handler
  returned is that of a handled message (`HandledJobs`).
* **Votes** (`VotesInvariant`, `VotesTypeCorrect`, `OneVote`, `ApprovalsStay`, `FirstDeliveryCorrect`,
  `StaleRepaired`). That `findVoteOnPlugin` finds *the* vote needs `OneVotePerMember` itself (`TheVote`); that
  approvals stay needs that no clear marks one (`ApprovalInv`), which needs `Legal`. `FirstDelivery` needs, between
  a handler's two steps, that the votes already are those of the next position; the step of the chain's ledger over
  one event is `LedgerStep`. `StaleInv` says that, while no handler failed, each proposal with stale metrics has an
  event that repairs them (`Repairs`): an approval, which the property leaves out, or one that is to come again and
  is not a clear that finds nothing to clear.
* **HarmonyFinalizer** (`FinalizerTypeCorrect`, `RootStays`, `NoVoteLeftOut`, `SearchIsRight`). `RootInv` says that every root, be it
  on the contract, sent, or in a run's hands, is what the registry says at the snapshot; the registry of an old
  block does not change, so no crash or second run makes another one. `CountInv` says at each place what a run has
  seen to so far: that its head is `Late` enough for the votes to be all there (this needs the delay), that the
  voters before the current one are `Accounted` for, that the one under way is waited for, and at the close that all
  are. Since roots, submissions and refusals only grow, a step of the chain or of another run takes none of this
  away (`CompleteStays`). The binary search is a recursive function, and what it returns is proved without induction:
  `FirstEnd` says outright what it ought to return between two blocks, and satisfies the function's own equation
  (`FirstEndTurn`), which each turn of the loop keeps because times do not go back; so the function exists, and
  any function with that equation is `FirstEnd` (`FirstEndOnly`), since among the pairs where they differed one
  would be the narrowest, and its turn is narrower still.
* **PluginLifecycle** (`LifecycleTypeCorrect`, `PreparationLeavesPlugin`, `StatusAlwaysFollows`,
  `SlugsAlwaysFollow`). `PlacesFit` says which events a handler can be at each place for; `PreparedInv` that a
  crawler past a preparation left its document. No handler takes a document away (`DocumentsStay`), and whoever goes
  past a preparation without having failed does so from a step that has just found or written it. Documents and
  slugs need `LifecycleInv`, and first that a plugin which is not spoiled is worked on in order (`OrderInv`): one
  handler at a time, in the order of the chain, each leaving its log, so that the logs stored are a first part of
  the plugin's events (`Reached`). Then `FollowInv` says by induction over the steps what holds behind that part:
  between handlers the documents, the support, the slug and the request are `Good`, that is, those of the first n
  events; within a handler `AtWork` says, place by place, which of them are those of the event before and which are
  done already. `Due` says when a document ought to be installed: where the permission is held, and also between a
  revocation and the uninstallation of its transaction (`Pending`), since the handler of such a revocation leaves
  the change to that of the uninstallation. At rest nothing is pending, so what is due is what the chain has
  installed. Slugs of two plugins differ (`SlugsApart`) whatever happens.
* **Members** (`MembersTypeCorrect`, `PowerNeverBack`, `MetricsAlwaysAsked`, `MembershipAlwaysFollows`,
  `LocksAlwaysFollow`, `PowerAlwaysFollows`). Every write of a record that is not a job's batch goes to a later
  block (`PowerForward`). `MetricsAsked` speaks of the end only; the invariant is `WillAsk`: while a change has not
  been announced and none was silent, some crawler still has to finish an event that ends with the message.
  `WorkInv` says what a handler knows between the change and the message, and a crash leaves the crawler before the
  event (`StillAsked`, `NowAsked`). The three that follow the chain also speak of the end, and share one argument:
  the last event any crawler was given about an account, token or member is what the collection shows, or some
  crawler `Owes` it, which it does until it has gone past it (`Settles`). For a multisig that is all (`ListInv`).
  For a lock the mark and the receiver are written by different events, each at its own step (`WriteInv`, `MarkInv`,
  `WrittenInv`). For power a batch writes whatever the record holds: `BatchInv` says that what a job is about to
  write are the last events of its range about each account, `HeadInv` that the chain ends between two blocks,
  `ValueInv` and `SourceInv` that a record, unless its power was guessed, has the block of an event that was given
  about the account and a power of that block; and `BlockInv` that of the crawlers that went past the last event
  none finds the record behind its block, unless a job owes that event: only such a job can have put the record
  back.
* **Proposals** (`ProposalsTypeCorrect`, `NumbersUnique`, `NumbersInOrder`, `LastEditWins`, `ResultsAlwaysFollow`,
  `StagesAlwaysFollow`, `SubsAlwaysFollow`, `ExecutionsStay`). For the incremental ids `NumInv` says that a saved
  one is at least the number of creations of the plugin up to it, and exactly that where no proposal of an earlier
  block is saved (`SavedInv`), that no two are the same, and that the one a handler is about to save is free
  (`MakingInv`), which needs that no other creation is at work (`~raced`). The logs the handler asks for are counted
  from the last saved proposal on, hence the lemmas about cardinality (`CountGrows`, `CountAdds`, `CountOn`). That
  they rise with the chain is `OrderInv`: while nothing is spoiled or raced, every creation a crawler went past is
  saved (`CaughtUp`), none is given up, and each saved number counts on from the last saved proposal of an earlier
  block (`Counted`). `EditInv` says that until a document has the last edit mined, a crawler is still to come to it
  or its handler failed last; a creation handled again resets the content, but then all edits are still to come
  again, because an edit comes after its creation on the chain (`Legal`). The others rest on `BaseInv`: two handlers
  at work on one group of proposals have spoiled it (`Solo`), so the handler of an undisturbed one is alone between
  its reading and its writing, and the later steps of a handler find its document stored (`StoredInv`). `ResultInv`
  says that the results of a body never go back, that none is older than its report and every report passed has one
  (`ResultsOf`), and that a handler about to push has read the results as they are and brings none older than those
  (`PushOf`). `AdvanceInv` says of a proposal that is `Whole` (not all that go with it are spoiled) that its
  advances are stored once each, with none left out before them, and that the stage is that of the last. `ListsInv`
  says that whatever is listed is a sub-proposal of a stage the proposal has been at; `BodyInv` that it is executed
  once a later stage is stored and points to the proposal once its own is, which needs that bodies are made before their stage
  begins (`Legal`) and that who handles the proposal's events has the creation of the body behind it (`Together`);
  `OpenInv` that what a handler is about to execute is not executed, unless that met the handler. None of the others
  asks who crawls what: what a crawler of a proposal's plugin went past is stored (`CaughtUp`, `ResultsOf`, `AdvancesOf`), and
  every plugin has a crawler (`Crawled`). The only assumptions on constants beside their types are that there is
  a crawler and that histories are `Legal`.
* **PluginSync** (`SyncTypeCorrect`, `MarkedIsSynced`), for any settings whose chain is a history (`IsHistory`). `TypeOK` is
  inductive only together with `TypeInv`: no message, job, record or mark is about a plugin whose installation was not
  handled yet, so whoever takes up a plugin finds it with the block of its preparation. `SyncedUnlessFailed` speaks of
  plugins that have their mark; `SyncInv` says how they come by it. What a record's cursor has passed is handled
  (`RecordsCover`); a chain that was deep enough behind an installation when that was handled stays so (`DeepBelow`), hence
  a crawl of the plugin does not stop short of it, whatever head the node gives and whatever the offset; a job's crawl
  that is under way has handled what lies before its block and will get past the installation, and one that is done has
  handled the backlog or failed (`JobsCover`); only a job that is done with both services marks its plugin, and what it
  then owes is handled (`MarksCover`). Since `handled`, `failed` and the cursors only grow and the backlog of an installed
  plugin is fixed, nothing another worker, a crash or a repeated message does takes this away.

Maxima (`Highest`, `Greatest`) and the narrowest pair of the binary search come from the well-foundedness of the naturals; no
proof cites an induction theorem, and no module declares a `RECURSIVE` operator.

Proved without being listed in a run as well: `TaskTypeOK` of `TaskLock`, `TypeOK` of `LogCrawler`, `Votes`, `PluginLifecycle`, `Members` and
`HarmonyFinalizer`, `CursorMonotone` of `LogCrawler`, `HolderOwnsLock` of `TaskLock`, and that the ids of jobs are in `activeJobs`.

**Only model-checked.** Liveness under fairness: `CursorCatchesUp`, `RunsAgain`, `FailureIsolated`,
`RootLeadsToClosed`, `InstalledSynced` and `EveryLogHandled`; TLAPS has no rules for `ENABLED` here. Every safety property of a
passing run is proved.

---

## 6. What is not modelled

`PROJECT.json` lists every component with its reason. In short:

* Of the crawler, the mode without handlers (`skipLogProcessing`: it keeps no cursor) and two modes no caller
  enables; of the queue, requests with a response, which keep no state beyond one promise.
* Two crawlers over the `Vote` collection: `Votes` has one, `Proposals`, `PluginLifecycle` and `Members` have two.
* Sub-plugins of a staged plugin, the detection of a plugin's type, and the contents of settings, token and
  metadata; base members, plugin metrics, minimal deposits, gauge votes and members of the capital distributor; the
  handlers that write one document per event (DAO registry, metadata, settings, execution, transfers).
* Chain reorganisations: detection and rollback are called by a crawler without a `ProgressTracker` only, which no service
  has, and no runner starts the backfill service. Where it is called, the rollback deletes collection after collection without a
  transaction and then sets `lastSync` of every service to the block before (`reorgDetector.ts:99`).
* Of the finalizer, several targets, other modes than that of validators, and two runs at a time.
* The RPC layer and the batch-size manager, whose outcomes appear as calls that succeed, fail or are rate limited and as
  ranges of any size; metrics workers and transfers, which compute from collections or external services.
* The stateless parts: APIs, validation, mock-backed governance contracts, read models, generated artifacts,
  explorers, rates, logging. They are most of the repository's lines: contract ABIs, token lists, schemas,
  controllers and validators have no behaviour over time, which is why the modules stand for a small share of all lines, and for
  most of those of the modelled components.

MongoDB is taken to apply single-document operations atomically and transactions in full or not
at all; RabbitMQ to deliver at least once and to count unacknowledged messages per channel.

---

## 7. The plan

Modelled so far are the delivery of events (crawler, lease, queue) and what the largest handlers make of them. What
would come next, in this order:

1. **VotesCrawled**: `Votes` with two crawlers, as `Proposals` has them (`proposalHandler.ts:699`), and composed with `Proposals`,
   which discharges its assumption that proposals exist.
2. **PluginLifecycle with sub-plugins**: the plugins of a staged plugin follow its permissions.
3. **Gauge votes and the capital distributor**: further members of the family of `Members`.
4. **ReorgRollback**, should a service come to use it: after a rollback and a crawl the collections are those of the new chain.
5. **MessageReply, Migration, RpcPool**: timeout against late answer, a migration that died, health of endpoints.

---

## 8. Running it

In this directory, with TLC and the community modules on the library path:

    tlc -workers 2 -config LogCrawlerShared.cfg MCLogCrawler
    tlapm LogCrawlerProofs.tla

Each configuration belongs to the MC module of its prefix. All passing runs take
between seconds and a few minutes.
