----------------------------- MODULE PluginSync -----------------------------
(***************************************************************************)
(* How the logs of a plugin reach their handlers: the indexer service of    *)
(* one network (historical crawl, backfill, poller, synchronisation of all  *)
(* plugins), the queues it fills, and the plugin service whose jobs crawl   *)
(* one plugin.                                                              *)
(*                                                                          *)
(* What LogCrawler, MessageQueue and PluginLifecycle show of their parts is *)
(* taken as shown: a crawl handles a range and then moves its cursor, a job *)
(* is redelivered if its process dies, setup events make plugin documents.  *)
(* Here it is who fetches which log, from where, and when.                  *)
(***************************************************************************)
EXTENDS Integers, FiniteSets, SequencesExt

CONSTANTS
  Plugins,
  Settings,      \* what one behaviour is about: see IsSetting
  MaxHead,       \* bound: length of the chain
  Reach,         \* how far a range may go beyond its first block
  QueueOf,       \* the queue each worker of the plugin service handles messages of
  FaultKinds     \* which faults the environment injects

ServiceNames == {"plugin", "token"}
QueueNames == {"plugins", "requeue"}
Workers == DOMAIN QueueOf
SetupKinds == {"Prepared", "Applied", "Uninstalled"}
Kinds == SetupKinds \union {"Activity", "Delegated"}

\* Logs in the order of the chain. A plugin's address is made by its preparation,
\* which is applied once; before the block of the preparation it has no logs, and
\* neither has a token before the block it was created in.
IsHistory(c, created) ==
  /\ \A i, j \in DOMAIN c : i < j => c[i].block <= c[j].block
  /\ \A i, j \in DOMAIN c : c[i].plugin = c[j].plugin =>
       /\ c[i].kind = c[j].kind /\ c[i].kind \in {"Prepared", "Applied"} => i = j
       /\ c[i].kind = "Prepared" /\ c[j].kind = "Activity" => c[i].block <= c[j].block
  /\ \A j \in DOMAIN c : c[j].kind = "Applied" =>
       \E i \in 1 .. (j - 1) : c[i].kind = "Prepared" /\ c[i].plugin = c[j].plugin
  /\ \A j \in DOMAIN c :
       /\ c[j].kind = "Prepared" => created[c[j].plugin] <= c[j].block
       /\ c[j].kind = "Delegated" => created[c[j].plugin] <= c[j].block

\* A history of the network with what a job of each plugin crawls (its contract,
\* its token, or neither), and the configuration the services run with.
IsSetting(s) ==
  /\ s.chain \in Seq([kind : Kinds, plugin : Plugins, block : 1 .. MaxHead])
  /\ s.created \in [Plugins -> 0 .. MaxHead]  \* blockNumber of each one's token, 0 if not found out
  /\ IsHistory(s.chain, s.created)
  /\ s.head \in 1 .. MaxHead   \* when the indexer is started first
  /\ s.services \in [Plugins -> SUBSET ServiceNames]
  /\ s.listed \in BOOLEAN   \* there is a contracts file: the poller asks by address
  /\ s.syncAll \in BOOLEAN  \* SERVICES.ARAGON_INDEXER.SYNC_ALL
  /\ s.workers \subseteq Workers  \* how many there are of each queue
  /\ s.offset \in Nat       \* OFFSET_TO_BLOCK
  /\ s.lag \in Nat          \* how far behind the head the RPC node asked may be
  /\ s.faults \in Nat       \* bound: number of faults

ASSUME PluginSyncConstants ==
  /\ \A s \in Settings : IsSetting(s)
  /\ MaxHead \in Nat /\ IsFiniteSet(Plugins) /\ IsFiniteSet(Workers)
  /\ \A w \in Workers : QueueOf[w] \in QueueNames
  /\ Reach \subseteq Nat \ {0}
  /\ FaultKinds \subseteq {"crash", "poll", "send", "crawl", "throw", "mark"}

VARIABLES
  setting,    \* history and configuration, which do not change
  head,       \* the last block of the chain
  \* the indexer service
  pc,         \* where it is
  polling,    \* the crawl is the poller's, not the historical one
  addresses,  \* plugins whose address the crawlers were given at the start
  latest, to,  \* where its crawl and the range end
  todo,       \* fetched logs not yet given to a handler
  owed,       \* messages it is about to send
  \* the database
  cursor,     \* lastSync of the indexer's record, 0 without a record
  status,     \* of each plugin's document, "none" without a document
  synced,     \* plugins with isHistoricalSynced
  lastSync,   \* of the records of plugin and token services, 0 without one
  ended,      \* those with the end flag
  handled,    \* logs whose handler took effect
  \* the plugin service
  queue,      \* messages of the queues, first in first out
  jobs,       \* what each worker is at
  \* for the properties
  deep,       \* <<plugin, service>>: the installation was found deep in the chain
  failed,     \* <<fault, plugin>> of the calls that failed
  faults      \* faults injected so far

window  == <<latest, to>>
indexer == <<pc, polling, addresses, window, todo, owed>>
records == <<lastSync, ended>>
service == <<queue, jobs>>
ghosts  == <<deep, failed>>
vars == <<setting, head, indexer, cursor, status, synced, records, handled, service, ghosts, faults>>

chain    == setting.chain
Services == setting.services
Listed   == setting.listed
Offset   == setting.offset

Min2(a, b) == IF a <= b THEN a ELSE b
Max2(a, b) == IF a >= b THEN a ELSE b

Logs == 1 .. Len(chain)
LogsOf(p, s) ==
  {l \in Logs : chain[l].plugin = p
                /\ chain[l].kind = IF s = "plugin" THEN "Activity" ELSE "Delegated"}
BlocksOf(p, kind) ==
  {chain[l].block : l \in {k \in Logs : chain[k].plugin = p /\ chain[k].kind = kind}}

\* The head a node answers with.
NodeHeads == Max2(head - setting.lag, 0) .. head

\* A message is known by its id: "installed" and "backfill" are the two forms of
\* historical-..., "plugins" and "requeue" the plugin's address in either queue.
Message(id, p, historical) == [id |-> id, plugin |-> p, isHistorical |-> historical]
Messages ==
  [id : {"installed", "backfill", "plugins"}, plugin : Plugins, isHistorical : {TRUE}]
  \union [id : {"plugins", "requeue"}, plugin : Plugins, isHistorical : {FALSE}]

QueueFor(m) == IF m.id = "requeue" THEN "requeue" ELSE "plugins"

NoJob == [msg |-> Message("none", "none", FALSE), step |-> "idle", from |-> <<>>, crawl |-> <<>>]
Working == {w \in Workers : jobs[w].step # "idle"}
Idle(q) == {w \in setting.workers \ Working : QueueOf[w] = q}
SameId(m, n) == m.id = n.id /\ m.plugin = n.plugin

Fault(k) == k \in FaultKinds /\ faults < setting.faults /\ faults' = faults + 1
Failed(k, S) == failed' = failed \union {<<k, p>> : p \in S}

Init ==
  /\ setting \in Settings
  /\ head = setting.head
  /\ pc = "down" /\ polling = FALSE /\ addresses = {}
  /\ latest = 0 /\ to = 0
  /\ todo = {} /\ owed = <<>>
  /\ cursor = 0
  /\ status = [p \in Plugins |-> "none"]
  /\ synced = {}
  /\ lastSync = [p \in Plugins |-> [s \in Services[p] |-> 0]]
  /\ ended = {} /\ handled = {}
  /\ queue = [q \in QueueNames |-> <<>>] /\ jobs = [w \in Workers |-> NoJob]
  /\ deep = {} /\ failed = {} /\ faults = 0

Mine ==
  /\ head < MaxHead
  /\ head' = head + 1
  /\ UNCHANGED <<setting, indexer, cursor, status, synced, records, handled, service, ghosts, faults>>

-----------------------------------------------------------------------------
(* The indexer service *)

Installed == {p \in Plugins : status[p] = "installed"}

\* start: the addresses are read once; without a record the network is crawled
\* from its first block for setup events before anything else.
StartIndexer ==
  /\ pc = "down"
  /\ polling' = FALSE
  /\ addresses' = Installed
  /\ pc' = IF cursor = 0 THEN "begin" ELSE "backfill"
  /\ UNCHANGED <<setting, head, window, todo, owed, cursor, status, synced, records, handled,
                 service, ghosts, faults>>

\* crawl() returns: the poller is started again by its task, the historical
\* crawl is over whether or not it failed.
CrawlReturns ==
  /\ pc' = IF polling THEN "begin" ELSE "backfill"
  /\ latest' = 0 /\ to' = 0
  /\ todo' = {}

\* The last block of a range.
RangeEnds(a, b) == {Min2(a + n, b) : n \in Reach}

\* The addresses the logs of a range are asked for by: the setup processor, and
\* the plugins that were installed when the indexer started, but no token.
AddressListed(l) ==
  \/ ~Listed
  \/ chain[l].kind \in SetupKinds
  \/ chain[l].kind = "Activity" /\ chain[l].plugin \in addresses

\* _filterDelegateVotesLogs, against the database as it is now: delegations of
\* the tokens of installed plugins.
Kept(l) ==
  chain[l].kind = "Delegated" =>
    status[chain[l].plugin] = "installed" /\ "token" \in Services[chain[l].plugin]

\* The next range of a crawl from block first to block last is fetched. Nobody
\* but the indexer writes what it reads for that, so it is part of the step before.
\* Receipts of blocks are fetched whole, whatever the addresses.
FetchRange(first, last, byReceipts) ==
  /\ to' \in RangeEnds(first, last)
  /\ todo' = {l \in Logs :
       /\ chain[l].block \in first .. to'
       /\ IF polling
          THEN (byReceipts \/ AddressListed(l)) /\ Kept(l)
          ELSE chain[l].kind \in SetupKinds}
  /\ latest' = last
  /\ pc' = "handle"

\* The start of crawl(). Only a crawler with filterLogs, the poller, keeps
\* Offset blocks from the head. A window of two blocks is fetched by receipts.
BeginCrawl ==
  /\ pc = "begin"
  /\ \E b \in NodeHeads :
       LET start == Max2(cursor, 1)
           end == b - (IF polling THEN Offset ELSE 0)
       IN IF end > start THEN FetchRange(start, end, end - start = 1) ELSE CrawlReturns
  /\ UNCHANGED <<setting, head, polling, addresses, owed, cursor, status, synced, records,
                 handled, service, ghosts, faults>>

Next1(l) == l \in todo /\ \A k \in todo : l <= k

\* What a handler is called for: logs in order, the next one when the messages
\* of the last are sent.
Handling(l) ==
  /\ pc = "handle" /\ owed = <<>> /\ Next1(l)
  /\ todo' = todo \ {l}
  /\ UNCHANGED <<setting, head, pc, polling, addresses, window, cursor, records, service, failed,
                 faults>>

\* A setup event that is stored is not handled again; votes, proposals and
\* delegations are written again, with the same effect. Without a plugin an
\* event is dropped with a warning.
HandlePassedOver(l) ==
  /\ Handling(l)
  /\ \/ l \in handled
     \/ chain[l].kind # "Prepared" /\ status[chain[l].plugin] = "none"
  /\ UNCHANGED <<owed, status, synced, handled, deep>>

HandleActivity(l) ==
  /\ Handling(l) /\ l \notin handled
  /\ chain[l].kind \in {"Activity", "Delegated"} /\ status[chain[l].plugin] # "none"
  /\ handled' = handled \union {l}
  /\ UNCHANGED <<owed, status, synced, deep>>

HandlePrepared(l) ==
  /\ Handling(l) /\ l \notin handled /\ chain[l].kind = "Prepared"
  /\ handled' = handled \union {l}
  /\ status' = [status EXCEPT ![chain[l].plugin] = "preInstall"]
  /\ UNCHANGED <<owed, synced, deep>>

\* By how much the head must have passed the installation for every node asked
\* later to offer a crawl of service s a block behind it.
Depth(s) == setting.lag + IF s = "token" THEN Offset ELSE 0

\* installationApplied: the plugin is installed and its synchronisation asked
\* for; where this is not the historical crawl, a historical one as well.
HandleApplied(l) ==
  LET p == chain[l].plugin
      first == Message("plugins", p, ~polling)
  IN /\ Handling(l) /\ l \notin handled /\ chain[l].kind = "Applied"
     /\ status[p] # "none"
     /\ handled' = handled \union {l}
     /\ status' = [status EXCEPT ![p] = "installed"]
     /\ synced' = synced \ {p}
     /\ owed' = IF polling THEN <<first, Message("installed", p, TRUE)>> ELSE <<first>>
     /\ deep' = deep \union {<<p, s>> : s \in {t \in Services[p] : head > chain[l].block + Depth(t)}}

HandleUninstalled(l) ==
  /\ Handling(l) /\ l \notin handled /\ chain[l].kind = "Uninstalled"
  /\ status[chain[l].plugin] # "none"
  /\ handled' = handled \union {l}
  /\ status' = [status EXCEPT ![chain[l].plugin] = "uninstalled"]
  /\ UNCHANGED <<owed, synced, deep>>

HandleLog ==
  \E l \in todo :
    \/ HandlePassedOver(l) \/ HandleActivity(l)
    \/ HandlePrepared(l) \/ HandleApplied(l) \/ HandleUninstalled(l)

\* The range is handled: the cursor is moved, and the next range fetched
\* unless it would begin at the last block.
SaveProgress ==
  /\ pc = "handle" /\ todo = {} /\ owed = <<>>
  /\ cursor' = Max2(cursor, to)
  /\ IF to + 1 >= latest
     THEN CrawlReturns
     ELSE FetchRange(to + 1, latest, FALSE)
  /\ UNCHANGED <<setting, head, polling, addresses, owed, status, synced, records,
                 handled, service, ghosts, faults>>

\* A fetch or a handler fails: the crawl stops. What the handler still had to
\* send is lost, as its event will be recognised.
PollFails ==
  /\ pc = "handle"
  /\ Fault("poll")
  /\ CrawlReturns
  /\ owed' = <<>>
  /\ Failed("poll", {owed[i].plugin : i \in DOMAIN owed})
  /\ UNCHANGED <<setting, head, polling, addresses, cursor, status, synced, records, handled,
                 service, deep>>

\* Mutant: plugins that were crawled before are left out.
ToBackfillUnstarted ==
  {p \in Installed \ synced : \A s \in Services[p] : lastSync[p][s] = 0}

\* The query of backfillInstalledPlugins.
ToBackfill == Installed \ synced

\* backfillInstalledPlugins sends all at once, so in any order.
Backfill ==
  /\ pc = "backfill"
  /\ owed' \in SetToSeqs({Message("backfill", p, TRUE) : p \in ToBackfill})
  /\ pc' = "send"
  /\ UNCHANGED <<setting, head, polling, addresses, window, todo, cursor, status, synced, records,
                 handled, service, ghosts, faults>>

\* Equal messages that wait are one here: the second would find the work of the
\* first done, or be dropped while that is at work.
Sent(m) ==
  IF m \in ToSet(queue[QueueFor(m)]) THEN queue ELSE [queue EXCEPT ![QueueFor(m)] = Append(@, m)]

SendMessage ==
  /\ owed # <<>>
  /\ queue' = Sent(Head(owed))
  /\ owed' = Tail(owed)
  /\ UNCHANGED <<setting, head, pc, polling, addresses, window, todo, cursor, status, synced, records,
                 handled, jobs, ghosts, faults>>

\* sendMessage logs its error and returns.
SendFails ==
  /\ owed # <<>>
  /\ Fault("send")
  /\ owed' = Tail(owed)
  /\ Failed("send", {Head(owed).plugin})
  /\ UNCHANGED <<setting, head, pc, polling, addresses, window, todo, cursor, status, synced, records,
                 handled, service, deep>>

\* The poller's task is started.
StartPolling ==
  /\ pc = "send" /\ owed = <<>>
  /\ polling' = TRUE
  /\ pc' = "begin"
  /\ UNCHANGED <<setting, head, addresses, window, todo, owed, cursor, status, synced, records,
                 handled, service, ghosts, faults>>

\* Mutant: the instance of the crawler keeps what it was at.
CrashIndexerKept ==
  /\ pc # "down"
  /\ Fault("crash")
  /\ pc' = "down" /\ polling' = FALSE /\ addresses' = {}
  /\ UNCHANGED <<setting, head, window, todo, owed, cursor, status, synced, records, handled, service,
                 ghosts>>

CrashIndexer ==
  /\ pc # "down"
  /\ Fault("crash")
  /\ pc' = "down" /\ polling' = FALSE /\ addresses' = {}
  /\ latest' = 0 /\ to' = 0
  /\ todo' = {} /\ owed' = <<>>
  /\ UNCHANGED <<setting, head, cursor, status, synced, records, handled, service,
                 ghosts>>

\* Mutant: plugins whose records are ended are taken for complete.
ToSyncAllUnended == {p \in Installed : \E s \in Services[p] : <<p, s>> \notin ended}

\* The query of SyncAll.
ToSyncAll == Installed

\* The task of SyncAll, which runs beside the poller.
SyncAll(p) ==
  /\ setting.syncAll /\ polling /\ p \in ToSyncAll
  /\ queue' = Sent(Message("requeue", p, FALSE))
  /\ UNCHANGED <<setting, head, indexer, cursor, status, synced, records, handled, jobs, ghosts, faults>>

-----------------------------------------------------------------------------
(* The requeue service and the plugin service *)

\* The requeue service, whenever it is started: records that are not ended.
Requeue(p) ==
  /\ \E s \in Services[p] : lastSync[p][s] > 0 /\ <<p, s>> \notin ended
  /\ queue' = Sent(Message("requeue", p, FALSE))
  /\ UNCHANGED <<setting, head, indexer, cursor, status, synced, records, handled, jobs, ghosts, faults>>

\* Mutant: a job starts where the plugin was applied.
BlockNumberApplied(p) == CHOOSE b \in BlocksOf(p, "Applied") : TRUE

\* plugin.blockNumber: the block of the preparation.
BlockNumber(p) == CHOOSE b \in BlocksOf(p, "Prepared") : TRUE

\* fromBlock of the crawls: the token's own block where it is known.
FromBlock(p, s) ==
  IF s = "token" /\ setting.created[p] > 0 THEN setting.created[p] ELSE BlockNumber(p)

Crawl(a, first, last) == [at |-> a, cur |-> first, latest |-> last]

NewJob(m) ==
  [msg |-> m, step |-> "crawl",
   from |-> [s \in Services[m.plugin] |-> FromBlock(m.plugin, s)],
   crawl |-> [s \in Services[m.plugin] |-> Crawl("begin", 0, 0)]]

\* The first message of q is delivered: only one job of an id is at work.
Deliver(q, m) == queue[q] # <<>> /\ m = Head(queue[q]) /\ queue' = [queue EXCEPT ![q] = Tail(@)]
IsActive(m) == \E w \in Working : SameId(jobs[w].msg, m)

\* pluginQueue reads the plugin and chooses the crawlers of its type.
Take(q, m) ==
  /\ Deliver(q, m) /\ ~IsActive(m)
  /\ \E w \in Idle(q) : jobs' = [jobs EXCEPT ![w] = NewJob(m)]
  /\ UNCHANGED <<setting, head, indexer, cursor, status, synced, records, handled, ghosts, faults>>

\* A message whose id is at work is acknowledged unhandled.
DropActive(q, m) ==
  /\ Deliver(q, m) /\ IsActive(m) /\ Idle(q) # {}
  /\ UNCHANGED <<setting, head, indexer, cursor, status, synced, records, handled, jobs, ghosts, faults>>

\* Worker w is at place a of its crawl of service s.
At(w, s, a) ==
  w \in Working /\ s \in DOMAIN jobs[w].crawl /\ jobs[w].crawl[s].at = a

\* The start of a job's crawl. The token's crawler has a filterLogs.
BeginPluginCrawl(w, s) ==
  LET p == jobs[w].msg.plugin
      start == IF lastSync[p][s] = 0 THEN jobs[w].from[s] ELSE lastSync[p][s]
  IN /\ At(w, s, "begin")
     /\ \E b \in NodeHeads :
          LET end == b - (IF s = "token" THEN Offset ELSE 0)
          IN jobs' = [jobs EXCEPT ![w].crawl[s] =
               IF end > start THEN Crawl("fetch", start, end) ELSE Crawl("done", 0, 0)]
     /\ UNCHANGED <<setting, head, indexer, cursor, status, synced, records, handled, queue, ghosts,
                    faults>>

\* One range, handled and saved.
CrawlRange(w, s) ==
  LET p == jobs[w].msg.plugin
      c == jobs[w].crawl[s]
  IN /\ At(w, s, "fetch")
     /\ \E e \in RangeEnds(c.cur, c.latest) :
          /\ handled' = handled \union {l \in LogsOf(p, s) : chain[l].block \in c.cur .. e}
          /\ lastSync' = [lastSync EXCEPT ![p][s] = Max2(@, e)]
          /\ jobs' = [jobs EXCEPT ![w].crawl[s] =
               IF e + 1 < c.latest THEN Crawl("fetch", e + 1, c.latest) ELSE Crawl("done", 0, 0)]
     /\ UNCHANGED <<setting, head, indexer, cursor, status, synced, ended, queue, ghosts, faults>>

\* A crawl stops on an error, which it hands to onError: its job goes on.
CrawlFails(w, s) ==
  /\ At(w, s, "fetch")
  /\ Fault("crawl")
  /\ jobs' = [jobs EXCEPT ![w].crawl[s] = Crawl("done", 0, 0)]
  /\ Failed("crawl", {jobs[w].msg.plugin})
  /\ UNCHANGED <<setting, head, indexer, cursor, status, synced, records, handled, queue, deep>>

\* An error before a crawl's first range reaches the consumer: the message
\* keeps its place and its id.
JobThrows(w, s) ==
  /\ At(w, s, "begin") /\ jobs[w].step = "crawl"
  /\ Fault("throw")
  /\ jobs' = [jobs EXCEPT ![w].crawl[s] = Crawl("done", 0, 0), ![w].step = "failed"]
  /\ Failed("throw", {jobs[w].msg.plugin})
  /\ UNCHANGED <<setting, head, indexer, cursor, status, synced, records, handled, queue, deep>>

\* All crawls have returned: end() sets the flag of the records there are.
EndCrawls(w) ==
  /\ w \in Working /\ jobs[w].step = "crawl"
  /\ \A s \in DOMAIN jobs[w].crawl : At(w, s, "done")
  /\ LET p == jobs[w].msg.plugin
     IN ended' = ended \union {<<p, s>> : s \in {t \in Services[p] : lastSync[p][t] > 0}}
  /\ jobs' = [jobs EXCEPT ![w].step = "ended"]
  /\ UNCHANGED <<setting, head, indexer, cursor, status, synced, lastSync, handled, queue, ghosts,
                 faults>>

\* A historical job marks its plugin; the message is acknowledged.
FinishJob(w) ==
  /\ w \in Working /\ jobs[w].step = "ended"
  /\ synced' = IF jobs[w].msg.isHistorical THEN synced \union {jobs[w].msg.plugin} ELSE synced
  /\ jobs' = [jobs EXCEPT ![w] = NoJob]
  /\ UNCHANGED <<setting, head, indexer, cursor, status, records, handled, queue, ghosts, faults>>

\* The mark is not written: this is only logged.
MarkFails(w) ==
  /\ w \in Working /\ jobs[w].step = "ended"
  /\ jobs[w].msg.isHistorical /\ jobs[w].msg.plugin \notin synced
  /\ Fault("mark")
  /\ jobs' = [jobs EXCEPT ![w] = NoJob]
  /\ Failed("mark", {jobs[w].msg.plugin})
  /\ UNCHANGED <<setting, head, indexer, cursor, status, synced, records, handled, queue, deep>>

\* The messages of q that workers are at.
MessagesTaken(q) == {jobs[w].msg : w \in {v \in Working : QueueFor(jobs[v].msg) = q}}

\* The plugin service dies and is started again: its messages are redelivered.
CrashWorkers ==
  /\ Working # {}
  /\ Fault("crash")
  /\ \E a \in SetToSeqs(MessagesTaken("plugins")), b \in SetToSeqs(MessagesTaken("requeue")) :
       queue' = [queue EXCEPT !["plugins"] = a \o @, !["requeue"] = b \o @]
  /\ jobs' = [w \in Workers |-> NoJob]
  /\ UNCHANGED <<setting, head, indexer, cursor, status, synced, records, handled, ghosts>>

-----------------------------------------------------------------------------

IndexerStep ==
  \/ StartIndexer \/ BeginCrawl \/ HandleLog \/ SaveProgress
  \/ Backfill \/ SendMessage \/ StartPolling
Receive(q) == \E m \in Messages : Take(q, m) \/ DropActive(q, m)
WorkerStep(w) ==
  \/ \E s \in ServiceNames : BeginPluginCrawl(w, s) \/ CrawlRange(w, s)
  \/ EndCrawls(w) \/ FinishJob(w)

Next ==
  \/ Mine \/ IndexerStep
  \/ \E p \in Plugins : SyncAll(p) \/ Requeue(p)
  \/ \E q \in QueueNames : Receive(q)
  \/ \E w \in Workers : WorkerStep(w) \/ MarkFails(w)
  \/ \E w \in Workers, s \in ServiceNames : CrawlFails(w, s) \/ JobThrows(w, s)
  \/ PollFails \/ SendFails \/ CrashIndexer \/ CrashWorkers

Spec == Init /\ [][Next]_vars

\* The chain grows, the indexer is started again and its calls return, so do
\* those of every worker, to which the broker hands out what waits, and SyncAll
\* comes to every plugin.
FairSpec ==
  /\ Spec
  /\ WF_vars(Mine) /\ WF_vars(IndexerStep)
  /\ \A w \in Workers : WF_vars(WorkerStep(w) \/ Receive(QueueOf[w]))
  /\ \A p \in Plugins : WF_vars(SyncAll(p))

-----------------------------------------------------------------------------

Crawls == [at : {"begin", "fetch", "done"}, cur : 0 .. MaxHead, latest : 0 .. MaxHead]

\* What a job about p looks like.
JobsOf(p) ==
  [msg : {m \in Messages : m.plugin = p}, step : {"crawl", "ended", "failed"},
   from : [Services[p] -> 1 .. MaxHead], crawl : [Services[p] -> Crawls]]

\* The shape of the state; logs and messages wait only where the indexer works
\* on them.
TypeOK ==
  /\ setting \in Settings /\ head \in 1 .. MaxHead
  /\ pc \in {"down", "begin", "handle", "backfill", "send"}
  /\ polling \in BOOLEAN /\ addresses \subseteq Plugins
  /\ latest \in Nat /\ to \in Nat
  /\ todo \subseteq Logs /\ (todo # {} => pc = "handle")
  /\ owed \in Seq(Messages) /\ (owed # <<>> => pc \in {"handle", "send"})
  /\ cursor \in 0 .. MaxHead
  /\ status \in [Plugins -> {"none", "preInstall", "installed", "uninstalled"}]
  /\ synced \subseteq Plugins
  /\ DOMAIN lastSync = Plugins
  /\ \A p \in Plugins : lastSync[p] \in [Services[p] -> 0 .. MaxHead]
  /\ ended \subseteq Plugins \X ServiceNames
  /\ handled \subseteq Logs
  /\ queue \in [QueueNames -> Seq(Messages)]
  /\ DOMAIN jobs = Workers
  /\ \A w \in Workers : jobs[w] = NoJob \/ \E p \in Plugins : jobs[w] \in JobsOf(p)
  /\ deep \subseteq Plugins \X ServiceNames
  /\ failed \subseteq {"poll", "send", "crawl", "throw", "mark"} \X Plugins
  /\ faults \in 0 .. setting.faults

\* Logs of p that were there when it was installed: the poller dropped those
\* before the preparation, and delegations before the installation. Of a token
\* whose block nobody found out, delegations count from the preparation on.
Backlog(p, s) ==
  {l \in LogsOf(p, s) :
     /\ \A b \in BlocksOf(p, "Applied") : chain[l].block <= b
     /\ s = "token" /\ setting.created[p] = 0 =>
          \A b \in BlocksOf(p, "Prepared") : chain[l].block >= b}

MarkedPlugins == {p \in synced : status[p] # "uninstalled"}

\* A plugin that is marked as synchronised has its backlog, if no crawl of the
\* plugin failed and its installation was found deep enough in the chain.
\* Crashes, redelivered, repeated and overlapping jobs take none of it away.
SyncedUnlessFailed ==
  \A p \in MarkedPlugins : \A s \in Services[p] :
    <<p, s>> \in deep /\ <<"crawl", p>> \notin failed => Backlog(p, s) \subseteq handled

\* Every installed plugin is marked in the end, whichever process dies and
\* whenever, unless a call for it failed; this is what the backfill is for.
InstalledSynced ==
  \A p \in Plugins :
    status[p] = "installed" ~>
      p \in synced \/ status[p] # "installed" \/ \E k \in FaultKinds : <<k, p>> \in failed

\* With SyncAll every log that a job of an installed plugin would crawl is
\* handled in the end, unless a job threw and holds its place and its id.
\* Without SyncAll this does not hold: the poller asks by the addresses of the
\* plugins that were installed when the service started.
EveryLogHandled ==
  \A p \in Plugins :
    setting.syncAll /\ status[p] = "installed" ~>
      \/ \A s \in Services[p] : LogsOf(p, s) \subseteq handled
      \/ status[p] # "installed"
      \/ <<"throw", p>> \in failed
=============================================================================
