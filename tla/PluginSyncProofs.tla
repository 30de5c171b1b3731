-------------------------- MODULE PluginSyncProofs --------------------------
(***************************************************************************)
(* Proofs about PluginSync, for every history, every number of plugins and  *)
(* workers and every fault: its type invariant, and that the mark of the    *)
(* historical synchronisation means what it says.                           *)
(*                                                                          *)
(* What a plugin's jobs owe depends on the setting alone, so it is stated   *)
(* with the setting as a parameter; the invariant then says of which part   *)
(* each record, each job and each mark is the proof.                        *)
(***************************************************************************)
EXTENDS PluginSync, FiniteSetTheorems, TLAPS

-----------------------------------------------------------------------------
(* Histories *)

LogsIn(g) == 1 .. Len(g.chain)

\* Log l of g is the setup event of kind k of plugin p.
IsSetup(g, l, k, p) == l \in LogsIn(g) /\ g.chain[l].kind = k /\ g.chain[l].plugin = p

\* The Applied log of p is among the logs h.
AppliedIn(g, h, p) == \E l \in h : IsSetup(g, l, "Applied", p)

\* LogsOf, FromBlock and Backlog of a setting.
ServiceLogs(g, p, s) ==
  {l \in LogsIn(g) : g.chain[l].plugin = p
                     /\ g.chain[l].kind = IF s = "plugin" THEN "Activity" ELSE "Delegated"}
SetupBlocks(g, p, k) == {g.chain[l].block : l \in {i \in LogsIn(g) : g.chain[i].plugin = p /\ g.chain[i].kind = k}}
PreparedBlock(g, p) == CHOOSE b \in SetupBlocks(g, p, "Prepared") : TRUE
First(g, p, s) ==
  IF s = "token" /\ g.created[p] > 0 THEN g.created[p] ELSE PreparedBlock(g, p)
Debt(g, p, s) ==
  {l \in ServiceLogs(g, p, s) :
     /\ \A b \in SetupBlocks(g, p, "Applied") : g.chain[l].block <= b
     /\ s = "token" /\ g.created[p] = 0 =>
          \A b \in SetupBlocks(g, p, "Prepared") : g.chain[l].block >= b}

LEMMA SettingTerms ==
  /\ Logs = LogsIn(setting)
  /\ \A p, s : LogsOf(p, s) = ServiceLogs(setting, p, s)
  /\ \A p, k : BlocksOf(p, k) = SetupBlocks(setting, p, k)
  /\ \A p, s : FromBlock(p, s) = First(setting, p, s)
  /\ \A p, s : Backlog(p, s) = Debt(setting, p, s)
<1>1. Logs = LogsIn(setting)
  BY DEF Logs, LogsIn, chain
<1>2. \A p, s : LogsOf(p, s) = ServiceLogs(setting, p, s)
  BY <1>1 DEF LogsOf, ServiceLogs, chain
<1>3. \A p, k : BlocksOf(p, k) = SetupBlocks(setting, p, k)
  BY <1>1 DEF BlocksOf, SetupBlocks, chain
<1>4. \A p : BlockNumber(p) = PreparedBlock(setting, p)
  BY <1>3 DEF BlockNumber, PreparedBlock
<1>5. \A p, s : FromBlock(p, s) = First(setting, p, s)
  BY <1>4 DEF FromBlock, First
<1>6. \A p, s : Backlog(p, s) = Debt(setting, p, s)
  BY <1>2, <1>3 DEF Backlog, Debt, chain
<1> QED
  BY <1>1, <1>2, <1>3, <1>5, <1>6

LEMMA SeqElement ==
  ASSUME NEW S, NEW q \in Seq(S), NEW i \in 1 .. Len(q)
  PROVE  q[i] \in S
OBVIOUS

LEMMA SettingType ==
  ASSUME NEW g \in Settings
  PROVE  /\ \A l \in LogsIn(g) : g.chain[l].kind \in Kinds /\ g.chain[l].plugin \in Plugins
                                 /\ g.chain[l].block \in 1 .. MaxHead
         /\ LogsIn(g) = DOMAIN g.chain
         /\ g.services \in [Plugins -> SUBSET ServiceNames]
         /\ g.created \in [Plugins -> 0 .. MaxHead]
         /\ g.head \in 1 .. MaxHead /\ g.workers \subseteq Workers
         /\ g.offset \in Nat /\ g.lag \in Nat /\ g.faults \in Nat
         /\ MaxHead \in Nat
<1>1. IsSetting(g)
  BY PluginSyncConstants
<1>2. g.chain \in Seq([kind : Kinds, plugin : Plugins, block : 1 .. MaxHead])
  BY <1>1 DEF IsSetting
<1>3. \A l \in LogsIn(g) : g.chain[l] \in [kind : Kinds, plugin : Plugins, block : 1 .. MaxHead]
  BY <1>2, SeqElement DEF LogsIn
<1>4. LogsIn(g) = DOMAIN g.chain
  BY <1>2 DEF LogsIn
<1>5. \A l \in LogsIn(g) : g.chain[l].kind \in Kinds /\ g.chain[l].plugin \in Plugins
                           /\ g.chain[l].block \in 1 .. MaxHead
  BY <1>3
<1>6. /\ g.services \in [Plugins -> SUBSET ServiceNames] /\ g.created \in [Plugins -> 0 .. MaxHead]
      /\ g.head \in 1 .. MaxHead /\ g.workers \subseteq Workers
      /\ g.offset \in Nat /\ g.lag \in Nat /\ g.faults \in Nat
  BY <1>1 DEF IsSetting
<1> QED
  BY <1>4, <1>5, <1>6, PluginSyncConstants

\* A plugin is prepared and applied once, in this order.
LEMMA SetupOnce ==
  ASSUME NEW g \in Settings, NEW i \in LogsIn(g), NEW j \in LogsIn(g), NEW k \in {"Prepared", "Applied"},
         NEW p, IsSetup(g, i, k, p), IsSetup(g, j, k, p)
  PROVE  i = j
<1>1. IsHistory(g.chain, g.created)
  BY PluginSyncConstants DEF IsSetting
<1> QED
  BY <1>1, SettingType DEF IsHistory, IsSetup

LEMMA AppliedPrepared ==
  ASSUME NEW g \in Settings, NEW p \in Plugins, NEW l, IsSetup(g, l, "Applied", p)
  PROVE  \E i \in LogsIn(g) : IsSetup(g, i, "Prepared", p) /\ g.chain[i].block <= g.chain[l].block
<1>1. IsHistory(g.chain, g.created) /\ l \in LogsIn(g) /\ LogsIn(g) = DOMAIN g.chain
  BY SettingType, PluginSyncConstants DEF IsSetting, IsSetup
<1>2. PICK i \in 1 .. (l - 1) : g.chain[i].kind = "Prepared" /\ g.chain[i].plugin = p
  BY <1>1 DEF IsHistory, IsSetup
<1>3. i \in LogsIn(g) /\ i < l
  BY <1>1 DEF LogsIn
<1> QED
  BY <1>1, <1>2, <1>3 DEF IsHistory, IsSetup

LEMMA SetupBlock ==
  ASSUME NEW g \in Settings, NEW p, NEW k \in {"Prepared", "Applied"}, NEW l, IsSetup(g, l, k, p)
  PROVE  SetupBlocks(g, p, k) = {g.chain[l].block}
<1>1. \A i \in LogsIn(g) : g.chain[i].plugin = p /\ g.chain[i].kind = k => i = l
  BY SetupOnce DEF IsSetup
<1> QED
  BY <1>1 DEF SetupBlocks, IsSetup

\* Where the crawls of an installed plugin begin, and what they have to cover.
LEMMA FirstBlock ==
  ASSUME NEW g \in Settings, NEW p \in Plugins, NEW s \in ServiceNames,
         NEW l, IsSetup(g, l, "Applied", p)
  PROVE  /\ First(g, p, s) \in 1 .. MaxHead /\ First(g, p, s) <= g.chain[l].block
         /\ \A k \in Debt(g, p, s) : First(g, p, s) <= g.chain[k].block
                                     /\ g.chain[k].block <= g.chain[l].block
<1>1. PICK i \in LogsIn(g) : IsSetup(g, i, "Prepared", p) /\ g.chain[i].block <= g.chain[l].block
  BY AppliedPrepared
<1>2. SetupBlocks(g, p, "Prepared") = {g.chain[i].block} /\ SetupBlocks(g, p, "Applied") = {g.chain[l].block}
  BY <1>1, SetupBlock
<1>3. PreparedBlock(g, p) = g.chain[i].block
  BY <1>2 DEF PreparedBlock
<1>4. /\ IsHistory(g.chain, g.created) /\ LogsIn(g) = DOMAIN g.chain
      /\ g.created[p] \in 0 .. MaxHead /\ g.chain[l].block \in 1 .. MaxHead
      /\ \A k \in LogsIn(g) : g.chain[k].block \in 1 .. MaxHead
      /\ MaxHead \in Nat
  BY SettingType, PluginSyncConstants DEF IsSetting, IsSetup
<1>5. g.created[p] <= g.chain[i].block
  BY <1>1, <1>4 DEF IsHistory, IsSetup
<1>6. First(g, p, s) \in 1 .. MaxHead /\ First(g, p, s) <= g.chain[l].block
  BY <1>1, <1>3, <1>4, <1>5 DEF First
<1>7. ASSUME NEW k \in Debt(g, p, s)
      PROVE  First(g, p, s) <= g.chain[k].block /\ g.chain[k].block <= g.chain[l].block
  <2>1. k \in ServiceLogs(g, p, s) /\ k \in LogsIn(g) /\ g.chain[k].block <= g.chain[l].block
    BY <1>2 DEF Debt, ServiceLogs
  <2>2. CASE s = "token" /\ g.created[p] > 0
    BY <1>4, <2>1, <2>2 DEF First, ServiceLogs, IsHistory
  <2>3. CASE s = "token" /\ g.created[p] = 0
    BY <1>2, <1>3, <2>1, <2>3 DEF First, Debt
  <2>4. CASE s = "plugin"
    BY <1>1, <1>3, <1>4, <2>1, <2>4 DEF First, ServiceLogs, IsHistory, IsSetup
  <2> QED
    BY <1>4, <2>1, <2>2, <2>3, <2>4 DEF ServiceNames
<1> QED
  BY <1>6, <1>7

-----------------------------------------------------------------------------
(* Type correctness *)

\* Messages and jobs about installed plugins.
AskedIn(g, h) == {m \in Messages : AppliedIn(g, h, m.plugin)}
CrawlsIn(n) == [at : {"begin", "fetch", "done"}, cur : 0 .. n, latest : 0 .. n]
JobsIn(g, n, p) ==
  [msg : {m \in Messages : m.plugin = p}, step : {"crawl", "ended", "failed"},
   from : [g.services[p] -> 1 .. MaxHead], crawl : [g.services[p] -> CrawlsIn(n)]]
JobFits(g, h, n, j) ==
  j = NoJob \/ \E p \in Plugins : AppliedIn(g, h, p) /\ j \in JobsIn(g, n, p)

Basics == setting \in Settings /\ head \in 1 .. MaxHead /\ handled \subseteq LogsIn(setting)

WindowType == latest \in 0 .. head /\ to \in 0 .. head
CrawlType ==
  /\ pc \in {"down", "begin", "handle", "backfill", "send"}
  /\ polling \in BOOLEAN /\ addresses \subseteq Plugins
  /\ todo \subseteq LogsIn(setting) /\ (todo # {} => pc = "handle")
  /\ (owed # <<>> => pc \in {"handle", "send"})

OwedType == owed \in Seq(AskedIn(setting, handled))
CursorType == cursor \in 0 .. head

DocumentsType ==
  /\ status \in [Plugins -> {"none", "preInstall", "installed", "uninstalled"}]
  /\ \A p \in Plugins : status[p] = "installed" => AppliedIn(setting, handled, p)
  /\ synced \subseteq Plugins /\ \A p \in synced : AppliedIn(setting, handled, p)

RecordsType ==
  /\ DOMAIN lastSync = Plugins
  /\ \A p \in Plugins : lastSync[p] \in [setting.services[p] -> 0 .. head]
  /\ \A p \in Plugins : \A s \in setting.services[p] :
       lastSync[p][s] > 0 => AppliedIn(setting, handled, p)
  /\ ended \subseteq Plugins \X ServiceNames

QueueType == queue \in [QueueNames -> Seq(AskedIn(setting, handled))]
JobsType == DOMAIN jobs = Workers /\ \A w \in Workers : JobFits(setting, handled, head, jobs[w])

GhostType ==
  /\ deep \subseteq Plugins \X ServiceNames
  /\ \A d \in deep : AppliedIn(setting, handled, d[1])
  /\ failed \subseteq {"poll", "send", "crawl", "throw", "mark"} \X Plugins
  /\ faults \in 0 .. setting.faults

\* The shape of the state, and why a job always finds its plugin: nothing is
\* asked of a plugin, crawled for it or recorded of it before its Applied log is
\* handled, and no cursor is beyond the head.
TypeInv ==
  /\ Basics /\ WindowType /\ CrawlType /\ OwedType /\ CursorType /\ DocumentsType
  /\ RecordsType /\ QueueType /\ JobsType /\ GhostType

LEMMA SeqLarger ==
  ASSUME NEW S, NEW T, S \subseteq T
  PROVE  Seq(S) \subseteq Seq(T)
OBVIOUS

LEMMA AppliedKept ==
  ASSUME NEW g, NEW h, NEW i, h \subseteq i
  PROVE  /\ \A p : AppliedIn(g, h, p) => AppliedIn(g, i, p)
         /\ AskedIn(g, h) \subseteq AskedIn(g, i)
BY DEF AppliedIn, AskedIn

LEMMA JobKept ==
  ASSUME NEW g, NEW h, NEW i, h \subseteq i, NEW n \in Nat, NEW m \in Nat, n <= m
  PROVE  \A j : JobFits(g, h, n, j) => JobFits(g, i, m, j)
<1>1. CrawlsIn(n) \subseteq CrawlsIn(m)
  BY DEF CrawlsIn
<1>2. \A p : JobsIn(g, n, p) \subseteq JobsIn(g, m, p)
  <2> SUFFICES ASSUME NEW p PROVE JobsIn(g, n, p) \subseteq JobsIn(g, m, p)
    OBVIOUS
  <2>1. [g.services[p] -> CrawlsIn(n)] \subseteq [g.services[p] -> CrawlsIn(m)]
    BY <1>1
  <2> QED
    BY <2>1 DEF JobsIn
<1> QED
  BY <1>2, AppliedKept DEF JobFits

\* What a step leaves alone keeps its type while the chain grows and logs are
\* handled.
LEMMA TypeFrame ==
  ASSUME TypeInv, UNCHANGED setting, head' \in head .. MaxHead, handled \subseteq handled',
         handled' \subseteq LogsIn(setting)
  PROVE  /\ Basics'
         /\ UNCHANGED window => WindowType'
         /\ UNCHANGED <<pc, polling, addresses, todo, owed>> => CrawlType'
         /\ UNCHANGED owed => OwedType'
         /\ UNCHANGED cursor => CursorType'
         /\ UNCHANGED <<status, synced>> => DocumentsType'
         /\ UNCHANGED records => RecordsType'
         /\ UNCHANGED queue => QueueType'
         /\ UNCHANGED jobs => JobsType'
         /\ UNCHANGED <<ghosts, faults>> => GhostType'
<1>1. /\ setting \in Settings /\ head \in 1 .. MaxHead /\ head' \in Nat /\ head <= head'
      /\ MaxHead \in Nat
  BY PluginSyncConstants DEF TypeInv, Basics
<1>2. Basics' /\ 0 .. head \subseteq 0 .. head'
  BY <1>1 DEF TypeInv, Basics
<1>3. /\ \A p : AppliedIn(setting, handled, p) => AppliedIn(setting', handled', p)
      /\ \A j : JobFits(setting, handled, head, j) => JobFits(setting', handled', head', j)
      /\ Seq(AskedIn(setting, handled)) \subseteq Seq(AskedIn(setting', handled'))
  <2>1. \A j : JobFits(setting, handled, head, j) => JobFits(setting, handled', head', j)
    BY <1>1, JobKept
  <2>2. AskedIn(setting, handled) \subseteq AskedIn(setting, handled')
    BY AppliedKept
  <2>3. Seq(AskedIn(setting, handled)) \subseteq Seq(AskedIn(setting, handled'))
    BY <2>2, SeqLarger
  <2>4. \A p : AppliedIn(setting, handled, p) => AppliedIn(setting, handled', p)
    BY AppliedKept
  <2> QED
    BY <2>1, <2>3, <2>4
<1>4. (UNCHANGED window => WindowType') /\ (UNCHANGED cursor => CursorType')
  BY <1>2 DEF TypeInv, WindowType, CursorType, window
<1>5. UNCHANGED <<pc, polling, addresses, todo, owed>> => CrawlType'
  BY DEF TypeInv, CrawlType
<1>6. (UNCHANGED owed => OwedType') /\ (UNCHANGED queue => QueueType')
  BY <1>3 DEF TypeInv, OwedType, QueueType
<1>7. UNCHANGED <<status, synced>> => DocumentsType'
  BY <1>3 DEF TypeInv, DocumentsType
<1>8. UNCHANGED records => RecordsType'
  BY <1>2, <1>3 DEF TypeInv, RecordsType, records
<1>9. UNCHANGED jobs => JobsType'
  BY <1>3 DEF TypeInv, JobsType
<1>10. UNCHANGED <<ghosts, faults>> => GhostType'
  BY <1>3 DEF TypeInv, GhostType, ghosts
<1> QED
  BY <1>2, <1>4, <1>5, <1>6, <1>7, <1>8, <1>9, <1>10

LEMMA InitTypeInv == Init => TypeInv
<1> SUFFICES ASSUME Init PROVE TypeInv
  OBVIOUS
<1>1. /\ setting \in Settings /\ setting.head \in 1 .. MaxHead /\ MaxHead \in Nat
      /\ setting.faults \in Nat
  BY SettingType DEF Init
<1>2. Basics /\ WindowType /\ CursorType
  BY <1>1 DEF Init, Basics, WindowType, CursorType
<1>3. owed = <<>> /\ OwedType
  BY DEF Init, OwedType
<1>4. CrawlType
  BY <1>3 DEF Init, CrawlType
<1>5. DocumentsType
  BY DEF Init, DocumentsType
<1>6. RecordsType
  BY <1>1 DEF Init, RecordsType, Services
<1>7. QueueType /\ JobsType
  BY DEF Init, QueueType, JobsType, JobFits
<1>8. GhostType
  BY <1>1 DEF Init, GhostType
<1> QED
  BY <1>2, <1>3, <1>5, <1>6, <1>7, <1>8, <1>4 DEF TypeInv

\* The invariant gives the declared types.
LEMMA TypeInvType == TypeInv => TypeOK
<1> SUFFICES ASSUME TypeInv PROVE TypeOK
  OBVIOUS
<1>1. /\ setting \in Settings /\ head \in 1 .. MaxHead /\ handled \subseteq Logs /\ todo \subseteq Logs
      /\ MaxHead \in Nat
  BY SettingTerms, PluginSyncConstants DEF TypeInv, Basics, CrawlType
<1>2. Seq(AskedIn(setting, handled)) \subseteq Seq(Messages)
  BY SeqLarger DEF AskedIn
<1>3. owed \in Seq(Messages) /\ queue \in [QueueNames -> Seq(Messages)]
  BY <1>2 DEF TypeInv, OwedType, QueueType
<1>4. \A w \in Workers : jobs[w] = NoJob \/ \E p \in Plugins : jobs[w] \in JobsOf(p)
  <2>1. CrawlsIn(head) \subseteq Crawls
    BY <1>1 DEF CrawlsIn, Crawls
  <2>2. \A p : JobsIn(setting, head, p) \subseteq JobsOf(p)
    <3> SUFFICES ASSUME NEW p PROVE JobsIn(setting, head, p) \subseteq JobsOf(p)
      OBVIOUS
    <3>1. [setting.services[p] -> CrawlsIn(head)] \subseteq [setting.services[p] -> Crawls]
      BY <2>1
    <3> QED
      BY <3>1 DEF JobsIn, JobsOf, Services
  <2> QED
    BY <2>2 DEF TypeInv, JobsType, JobFits
<1>5. /\ latest \in Nat /\ to \in Nat /\ cursor \in 0 .. MaxHead
      /\ \A p \in Plugins : lastSync[p] \in [Services[p] -> 0 .. MaxHead]
  BY <1>1 DEF TypeInv, WindowType, CursorType, RecordsType, Services
<1> QED
  BY <1>1, <1>3, <1>4, <1>5
     DEF TypeOK, TypeInv, CrawlType, DocumentsType, RecordsType, JobsType, GhostType

-----------------------------------------------------------------------------
(* Type correctness: the indexer service *)

LEMMA HeadFacts ==
  ASSUME TypeInv
  PROVE  /\ head \in head .. MaxHead /\ head \in Nat /\ MaxHead \in Nat /\ setting \in Settings
         /\ handled \subseteq LogsIn(setting)
         /\ \A b \in NodeHeads : b \in 0 .. head /\ head - setting.lag <= b
         /\ Offset \in Nat /\ setting.lag \in Nat
<1>1. head \in 1 .. MaxHead /\ MaxHead \in Nat /\ setting.lag \in Nat /\ setting.offset \in Nat
  BY SettingType DEF TypeInv, Basics
<1> QED
  BY <1>1 DEF TypeInv, Basics, NodeHeads, Max2, Offset

\* A range begins with its first block and ends within the crawl.
LEMMA RangeEndType ==
  ASSUME NEW a \in Nat, NEW b \in Nat, NEW e \in RangeEnds(a, b)
  PROVE  e \in 0 .. b /\ (a < b => a <= e)
BY PluginSyncConstants DEF RangeEnds, Min2

LEMMA FetchRangeType ==
  ASSUME TypeInv, NEW first \in Nat, NEW last \in Nat, first < last, last <= head, NEW byReceipts,
         FetchRange(first, last, byReceipts), owed = <<>>,
         UNCHANGED <<setting, head, polling, addresses, owed>>
  PROVE  WindowType' /\ CrawlType'
<1>1. to' \in 0 .. head /\ latest' \in 0 .. head
  BY RangeEndType, HeadFacts DEF FetchRange
<1>2. todo' \subseteq LogsIn(setting)
  BY SettingTerms DEF FetchRange
<1>3. pc' = "handle"
  BY DEF FetchRange
<1> QED
  BY <1>1, <1>2, <1>3 DEF WindowType, CrawlType, TypeInv

LEMMA CrawlReturnsType ==
  ASSUME TypeInv, CrawlReturns, owed' = <<>>, UNCHANGED <<setting, head, polling, addresses>>
  PROVE  WindowType' /\ CrawlType'
<1>1. pc' \in {"begin", "backfill"} /\ todo' = {} /\ latest' = 0 /\ to' = 0
  BY DEF CrawlReturns
<1>2. CrawlType'
  BY <1>1 DEF CrawlType, TypeInv
<1> QED
  BY <1>1, <1>2, HeadFacts DEF WindowType

LEMMA BeginCrawlType == TypeInv /\ BeginCrawl => TypeInv'
<1> SUFFICES ASSUME TypeInv, BeginCrawl PROVE TypeInv'
  OBVIOUS
<1>1. owed = <<>>
  BY DEF TypeInv, CrawlType, BeginCrawl
<1>2. PICK b \in NodeHeads :
        LET start == Max2(cursor, 1)
            end == b - (IF polling THEN Offset ELSE 0)
        IN IF end > start THEN FetchRange(start, end, end - start = 1) ELSE CrawlReturns
  BY DEF BeginCrawl
<1> DEFINE start == Max2(cursor, 1)
           end == b - (IF polling THEN Offset ELSE 0)
<1>3. b \in 0 .. head /\ Offset \in Nat /\ head \in Nat
  BY HeadFacts
<1>4. start \in Nat /\ end \in Int /\ end <= head
  BY <1>3 DEF Max2, TypeInv, CursorType
<1>5. UNCHANGED <<setting, head, polling, addresses, owed, cursor, status, synced, records, handled,
                  service, ghosts, faults>>
  BY DEF BeginCrawl
<1>6. IF end > start THEN FetchRange(start, end, end - start = 1) ELSE CrawlReturns
  BY <1>2
<1> HIDE DEF start, end
<1>7. WindowType' /\ CrawlType'
  <2>1. CASE end > start
    <3>1. FetchRange(start, end, end - start = 1) /\ end \in Nat /\ start < end
      BY <1>4, <1>6, <2>1
    <3> QED
      BY <1>1, <1>4, <1>5, <3>1, FetchRangeType
  <2>2. CASE ~(end > start)
    BY <1>1, <1>5, <1>6, <2>2, CrawlReturnsType
  <2> QED
    BY <2>1, <2>2
<1> QED
  BY <1>5, <1>7, TypeFrame, HeadFacts DEF TypeInv, service

LEMMA SaveProgressType == TypeInv /\ SaveProgress => TypeInv'
<1> SUFFICES ASSUME TypeInv, SaveProgress PROVE TypeInv'
  OBVIOUS
<1>1. /\ UNCHANGED <<setting, head, polling, addresses, owed, status, synced, records, handled,
                     service, ghosts, faults>>
      /\ owed = <<>> /\ cursor' = Max2(cursor, to)
  BY DEF SaveProgress
<1>2. to \in 0 .. head /\ latest \in 0 .. head /\ cursor \in 0 .. head /\ head \in Nat
  BY HeadFacts DEF TypeInv, WindowType, CursorType
<1>3. CursorType'
  BY <1>1, <1>2 DEF CursorType, Max2
<1>4. WindowType' /\ CrawlType'
  <2>1. CASE to + 1 >= latest
    BY <1>1, <2>1, CrawlReturnsType DEF SaveProgress
  <2>2. CASE ~(to + 1 >= latest)
    <3>1. FetchRange(to + 1, latest, FALSE)
      BY <2>2 DEF SaveProgress
    <3>2. to + 1 \in Nat /\ latest \in Nat /\ to + 1 < latest /\ latest <= head
      BY <1>2, <2>2
    <3> QED
      BY <1>1, <3>1, <3>2, FetchRangeType
  <2> QED
    BY <2>1, <2>2
<1> QED
  BY <1>1, <1>3, <1>4, TypeFrame, HeadFacts DEF TypeInv, service

LEMMA MineType == TypeInv /\ Mine => TypeInv'
<1> SUFFICES ASSUME TypeInv, Mine PROVE TypeInv'
  OBVIOUS
<1>1. head' \in head .. MaxHead
  BY HeadFacts DEF Mine
<1> QED
  BY <1>1, TypeFrame, HeadFacts DEF Mine, TypeInv, indexer, service

LEMMA StartIndexerType == TypeInv /\ StartIndexer => TypeInv'
<1> SUFFICES ASSUME TypeInv, StartIndexer PROVE TypeInv'
  OBVIOUS
<1>1. pc' \in {"begin", "backfill"} /\ addresses' \subseteq Plugins /\ polling' = FALSE
  BY DEF StartIndexer, Installed
<1>2. todo = {} /\ owed = <<>> /\ UNCHANGED <<setting, todo, owed>>
  BY DEF StartIndexer, TypeInv, CrawlType
<1>3. CrawlType'
  BY <1>1, <1>2 DEF CrawlType
<1> QED
  BY <1>3, TypeFrame, HeadFacts DEF StartIndexer, TypeInv, service

LEMMA StartPollingType == TypeInv /\ StartPolling => TypeInv'
<1> SUFFICES ASSUME TypeInv, StartPolling PROVE TypeInv'
  OBVIOUS
<1>1. pc' = "begin" /\ polling' = TRUE
  BY DEF StartPolling
<1>2. todo = {} /\ owed = <<>> /\ UNCHANGED <<setting, todo, owed, addresses>>
  BY DEF StartPolling, TypeInv, CrawlType
<1>3. CrawlType'
  BY <1>1, <1>2 DEF TypeInv, CrawlType
<1> QED
  BY <1>3, TypeFrame, HeadFacts DEF StartPolling, TypeInv, service

LEMMA MessagePlugin ==
  ASSUME NEW m \in Messages PROVE m.plugin \in Plugins
BY DEF Messages, Message

LEMMA FaultType ==
  ASSUME TypeInv, NEW k, Fault(k), UNCHANGED setting
  PROVE  faults' \in 0 .. setting'.faults
<1>1. faults \in 0 .. setting.faults /\ setting.faults \in Nat
  BY HeadFacts, SettingType DEF TypeInv, GhostType
<1> QED
  BY <1>1 DEF Fault

LEMMA SetToSeqsType ==
  ASSUME NEW S, IsFiniteSet(S), NEW f \in SetToSeqs(S)
  PROVE  f \in Seq(S)
<1>1. Cardinality(S) \in Nat
  BY FS_CardinalityType
<1> QED
  BY <1>1 DEF SetToSeqs

\* What the handlers leave alone.
LEMMA HandlingFrame ==
  ASSUME TypeInv, NEW l \in todo, Handling(l)
  PROVE  /\ l \in LogsIn(setting) /\ chain[l].plugin \in Plugins
         /\ UNCHANGED <<setting, head, pc, polling, addresses, window, cursor, records, service,
                        failed, faults>>
         /\ pc = "handle" /\ CrawlType'
         /\ handled \union {l} \subseteq LogsIn(setting)
<1>1. l \in LogsIn(setting) /\ setting \in Settings
  BY HeadFacts DEF TypeInv, CrawlType
<1>2. chain[l].plugin \in Plugins
  BY <1>1, SettingType DEF chain
<1>3. UNCHANGED <<setting, head, pc, polling, addresses, window, cursor, records, service,
                  failed, faults>> /\ pc = "handle" /\ todo' = todo \ {l}
  BY DEF Handling
<1>4. CrawlType'
  BY <1>3 DEF CrawlType, TypeInv
<1> QED
  BY <1>1, <1>2, <1>3, <1>4, HeadFacts

LEMMA MessageTypes ==
  ASSUME NEW p \in Plugins
  PROVE  /\ \A b \in BOOLEAN : Message("plugins", p, b) \in Messages
         /\ Message("installed", p, TRUE) \in Messages /\ Message("backfill", p, TRUE) \in Messages
         /\ Message("requeue", p, FALSE) \in Messages
         /\ \A i, b : Message(i, p, b).plugin = p
<1>1. \A i \in {"installed", "backfill", "plugins"} : Message(i, p, TRUE) \in Messages
  BY DEF Messages, Message
<1>2. \A i \in {"plugins", "requeue"} : Message(i, p, FALSE) \in Messages
  BY DEF Messages, Message
<1>3. \A i, b : Message(i, p, b).plugin = p
  BY DEF Message
<1>4. \A b \in BOOLEAN : b = TRUE \/ b = FALSE
  OBVIOUS
<1>5. \A b \in BOOLEAN : Message("plugins", p, b) \in Messages
  BY <1>1, <1>2, <1>4
<1> QED
  BY <1>1, <1>2, <1>3, <1>5

\* An installed plugin may be asked about.
LEMMA AskedMessage ==
  ASSUME NEW g, NEW h, NEW p \in Plugins, AppliedIn(g, h, p)
  PROVE  /\ \A b \in BOOLEAN : Message("plugins", p, b) \in AskedIn(g, h)
         /\ Message("installed", p, TRUE) \in AskedIn(g, h)
         /\ Message("backfill", p, TRUE) \in AskedIn(g, h)
         /\ Message("requeue", p, FALSE) \in AskedIn(g, h)
BY MessageTypes DEF AskedIn

LEMMA HandleAppliedType ==
  ASSUME TypeInv, NEW l \in todo, HandleApplied(l)
  PROVE  TypeInv'
<1> DEFINE p == chain[l].plugin
           first == Message("plugins", p, ~polling)
<1>1. Handling(l) /\ handled' = handled \union {l} /\ chain[l].kind = "Applied"
  BY DEF HandleApplied
<1>2. /\ l \in LogsIn(setting) /\ p \in Plugins /\ pc = "handle" /\ CrawlType'
      /\ UNCHANGED <<setting, head, window, cursor, records, service, failed, faults>>
      /\ handled' \subseteq LogsIn(setting)
  BY <1>1, HandlingFrame
<1>3. AppliedIn(setting', handled', p)
  BY <1>1, <1>2 DEF AppliedIn, IsSetup, chain
<1>4. polling \in BOOLEAN /\ (~polling) \in BOOLEAN
  BY DEF TypeInv, CrawlType
<1>5. first \in AskedIn(setting', handled') /\ Message("installed", p, TRUE) \in AskedIn(setting', handled')
  BY <1>2, <1>3, <1>4, AskedMessage
<1>6. owed' = <<first>> \/ owed' = <<first, Message("installed", p, TRUE)>>
  BY DEF HandleApplied
<1>7. OwedType'
  <2> DEFINE S == AskedIn(setting', handled')
             second == Message("installed", p, TRUE)
  <2>1. first \in S /\ second \in S
    BY <1>5
  <2>2. owed' = <<first>> \/ owed' = <<first, second>>
    BY <1>6
  <2> HIDE DEF first, second, S
  <2>3. <<first>> \in Seq(S) /\ <<first, second>> \in Seq(S)
    BY <2>1
  <2>4. owed' \in Seq(S)
    BY <2>2, <2>3
  <2> QED
    BY <2>4 DEF OwedType, S
<1>8. status' = [status EXCEPT ![p] = "installed"] /\ synced' = synced \ {p}
  BY DEF HandleApplied
<1>9. \A q : AppliedIn(setting, handled, q) => AppliedIn(setting', handled', q)
  BY <1>1, <1>2, AppliedKept
<1> HIDE DEF p, first
<1>10. DocumentsType'
  BY <1>2, <1>3, <1>8, <1>9 DEF DocumentsType, TypeInv
<1>11. deep' \subseteq deep \union {<<p, s>> : s \in setting.services[p]}
  BY DEF HandleApplied, p, Services
<1>12. setting.services[p] \subseteq ServiceNames
  BY <1>2, HeadFacts, SettingType
<1>13. GhostType'
  BY <1>2, <1>3, <1>9, <1>11, <1>12 DEF GhostType, TypeInv
<1> QED
  BY <1>1, <1>2, <1>7, <1>10, <1>13, TypeFrame, HeadFacts DEF TypeInv, service

LEMMA HandleLogType == TypeInv /\ HandleLog => TypeInv'
<1> SUFFICES ASSUME TypeInv, NEW l \in todo,
                    \/ HandlePassedOver(l) \/ HandleActivity(l)
                    \/ HandlePrepared(l) \/ HandleApplied(l) \/ HandleUninstalled(l)
             PROVE  TypeInv'
  BY DEF HandleLog
<1>1. CASE HandleApplied(l)
  BY <1>1, HandleAppliedType
<1>2. ASSUME ~HandleApplied(l) PROVE TypeInv'
  <2>1. /\ Handling(l) /\ handled' \in {handled, handled \union {l}}
        /\ UNCHANGED <<owed, synced, deep>>
        /\ \/ UNCHANGED status
           \/ \E d \in {"preInstall", "uninstalled"} : status' = [status EXCEPT ![chain[l].plugin] = d]
    BY <1>2 DEF HandlePassedOver, HandleActivity, HandlePrepared, HandleUninstalled
  <2>2. /\ chain[l].plugin \in Plugins /\ CrawlType'
        /\ UNCHANGED <<setting, head, window, cursor, records, service, failed, faults>>
        /\ handled' \subseteq LogsIn(setting) /\ handled \subseteq handled'
    BY <2>1, HandlingFrame, HeadFacts
  <2>3. \A q : AppliedIn(setting, handled, q) => AppliedIn(setting', handled', q)
    BY <2>2, AppliedKept
  <2>4. DocumentsType'
    BY <2>1, <2>2, <2>3 DEF DocumentsType, TypeInv
  <2> QED
    BY <2>1, <2>2, <2>4, TypeFrame, HeadFacts DEF TypeInv, service, ghosts
<1> QED
  BY <1>1, <1>2

LEMMA BackfillType == TypeInv /\ Backfill => TypeInv'
<1> SUFFICES ASSUME TypeInv, Backfill PROVE TypeInv'
  OBVIOUS
<1> DEFINE S == {Message("backfill", p, TRUE) : p \in ToBackfill}
<1>1. owed' \in SetToSeqs(S) /\ pc' = "send"
  BY DEF Backfill
<1>2. ToBackfill \subseteq Plugins
  BY DEF ToBackfill, Installed
<1>3. IsFiniteSet(S)
  <2> DEFINE f == [p \in ToBackfill |-> Message("backfill", p, TRUE)]
  <2>1. IsFiniteSet(ToBackfill)
    BY <1>2, FS_Subset, PluginSyncConstants
  <2>2. f \in Surjection(ToBackfill, S)
    BY DEF Surjection
  <2> QED
    BY <2>1, <2>2, FS_Surjection
<1>4. \A p \in ToBackfill : AppliedIn(setting, handled, p)
  BY DEF ToBackfill, Installed, TypeInv, DocumentsType
<1>5. S \subseteq AskedIn(setting, handled)
  BY <1>2, <1>4, AskedMessage
<1> HIDE DEF S
<1>6. owed' \in Seq(AskedIn(setting, handled))
  BY <1>1, <1>3, <1>5, SetToSeqsType, SeqLarger
<1>7. todo = {} /\ UNCHANGED <<setting, handled, todo, polling, addresses>>
  BY DEF Backfill, TypeInv, CrawlType
<1>8. OwedType' /\ CrawlType'
  BY <1>1, <1>6, <1>7 DEF OwedType, CrawlType, TypeInv
<1> QED
  BY <1>8, TypeFrame, HeadFacts DEF Backfill, TypeInv, service

LEMMA SentType ==
  ASSUME TypeInv, NEW m \in AskedIn(setting, handled)
  PROVE  Sent(m) \in [QueueNames -> Seq(AskedIn(setting, handled))]
<1>1. queue \in [QueueNames -> Seq(AskedIn(setting, handled))] /\ QueueFor(m) \in QueueNames
  BY DEF TypeInv, QueueType, QueueFor, QueueNames
<1>2. Append(queue[QueueFor(m)], m) \in Seq(AskedIn(setting, handled))
  BY <1>1
<1> QED
  BY <1>1, <1>2 DEF Sent

LEMMA SendMessageType == TypeInv /\ (SendMessage \/ SendFails) => TypeInv'
<1> SUFFICES ASSUME TypeInv, SendMessage \/ SendFails PROVE TypeInv'
  OBVIOUS
<1>1. /\ owed \in Seq(AskedIn(setting, handled)) /\ owed # <<>> /\ owed' = Tail(owed)
      /\ UNCHANGED <<setting, head, pc, polling, addresses, window, todo, cursor, status, synced,
                     records, handled, jobs, deep>>
  BY DEF TypeInv, OwedType, SendMessage, SendFails, ghosts, service
<1>2. Head(owed) \in AskedIn(setting, handled) /\ Tail(owed) \in Seq(AskedIn(setting, handled))
  BY <1>1
<1>3. OwedType' /\ CrawlType'
  BY <1>1, <1>2 DEF OwedType, CrawlType, TypeInv
<1>4. CASE SendMessage
  <2>1. QueueType'
    BY <1>1, <1>2, <1>4, SentType DEF SendMessage, QueueType
  <2> QED
    BY <1>1, <1>3, <1>4, <2>1, TypeFrame, HeadFacts DEF SendMessage, TypeInv
<1>5. CASE SendFails
  <2>1. Head(owed).plugin \in Plugins
    BY <1>2, MessagePlugin DEF AskedIn
  <2>2. failed' = failed \union {<<"send", Head(owed).plugin>>}
    BY <1>5 DEF SendFails, Failed
  <2>3. GhostType'
    BY <1>1, <1>5, <2>1, <2>2, FaultType DEF SendFails, GhostType, TypeInv
  <2> QED
    BY <1>1, <1>3, <1>5, <2>3, TypeFrame, HeadFacts DEF SendFails, TypeInv, service
<1> QED
  BY <1>4, <1>5

LEMMA PollFailsType == TypeInv /\ PollFails => TypeInv'
<1> SUFFICES ASSUME TypeInv, PollFails PROVE TypeInv'
  OBVIOUS
<1>1. /\ CrawlReturns /\ owed' = <<>> /\ Fault("poll")
      /\ UNCHANGED <<setting, head, polling, addresses, cursor, status, synced, records, handled,
                     service, deep>>
      /\ failed' = failed \union {<<"poll", p>> : p \in {owed[i].plugin : i \in DOMAIN owed}}
  BY DEF PollFails, Failed
<1>2. WindowType' /\ CrawlType'
  BY <1>1, CrawlReturnsType
<1>3. \A i \in DOMAIN owed : owed[i].plugin \in Plugins
  <2>1. \A i \in 1 .. Len(owed) : owed[i] \in Messages
    BY DEF TypeInv, OwedType, AskedIn
  <2> QED
    BY <2>1, MessagePlugin DEF TypeInv, OwedType
<1>4. GhostType'
  BY <1>1, <1>3, FaultType DEF GhostType, TypeInv
<1>5. OwedType'
  BY <1>1 DEF OwedType
<1> QED
  BY <1>1, <1>2, <1>4, <1>5, TypeFrame, HeadFacts DEF TypeInv, service

LEMMA CrashIndexerType == TypeInv /\ CrashIndexer => TypeInv'
<1> SUFFICES ASSUME TypeInv, CrashIndexer PROVE TypeInv'
  OBVIOUS
<1>1. /\ pc' = "down" /\ polling' = FALSE /\ addresses' = {} /\ latest' = 0 /\ to' = 0
      /\ todo' = {} /\ owed' = <<>> /\ Fault("crash")
      /\ UNCHANGED <<setting, head, cursor, status, synced, records, handled, service, ghosts>>
  BY DEF CrashIndexer
<1>2. WindowType'
  BY <1>1, HeadFacts DEF WindowType
<1>5. CrawlType'
  BY <1>1 DEF CrawlType
<1>3. OwedType'
  BY <1>1 DEF OwedType
<1>4. GhostType'
  BY <1>1, FaultType DEF GhostType, TypeInv, ghosts
<1> QED
  BY <1>1, <1>2, <1>3, <1>4, <1>5, TypeFrame, HeadFacts DEF TypeInv, service

LEMMA SyncAllType ==
  ASSUME TypeInv, NEW p \in Plugins, SyncAll(p) \/ Requeue(p)
  PROVE  TypeInv'
<1>1. AppliedIn(setting, handled, p)
  <2>1. CASE SyncAll(p)
    BY <2>1 DEF SyncAll, ToSyncAll, Installed, TypeInv, DocumentsType
  <2>2. CASE Requeue(p)
    BY <2>2 DEF Requeue, Services, TypeInv, RecordsType
  <2> QED
    BY <2>1, <2>2
<1>2. Message("requeue", p, FALSE) \in AskedIn(setting, handled)
  BY <1>1, AskedMessage
<1>3. /\ queue' = Sent(Message("requeue", p, FALSE))
      /\ UNCHANGED <<setting, head, indexer, cursor, status, synced, records, handled, jobs, ghosts,
                     faults>>
  BY DEF SyncAll, Requeue
<1>4. QueueType'
  BY <1>2, <1>3, SentType DEF QueueType
<1> QED
  BY <1>3, <1>4, TypeFrame, HeadFacts DEF TypeInv, indexer

-----------------------------------------------------------------------------
(* Type correctness: the plugin service *)

LEMMA JobFacts ==
  ASSUME TypeInv, NEW w \in Workers, w \in Working
  PROVE  LET p == jobs[w].msg.plugin
         IN /\ p \in Plugins /\ AppliedIn(setting, handled, p) /\ jobs[w] \in JobsIn(setting, head, p)
            /\ DOMAIN jobs[w].crawl = setting.services[p] /\ DOMAIN jobs[w].from = setting.services[p]
            /\ setting.services[p] \subseteq ServiceNames
            /\ jobs[w].msg \in AskedIn(setting, handled)
<1>1. jobs[w] # NoJob
  BY DEF Working, NoJob
<1>2. PICK p \in Plugins : AppliedIn(setting, handled, p) /\ jobs[w] \in JobsIn(setting, head, p)
  BY <1>1 DEF TypeInv, JobsType, JobFits
<1>3. /\ jobs[w].msg.plugin = p /\ jobs[w].msg \in Messages
      /\ jobs[w].crawl \in [setting.services[p] -> CrawlsIn(head)]
      /\ jobs[w].from \in [setting.services[p] -> 1 .. MaxHead]
  BY <1>2 DEF JobsIn
<1>4. setting.services[p] \subseteq ServiceNames
  BY HeadFacts, SettingType
<1> QED
  BY <1>2, <1>3, <1>4 DEF AskedIn

\* A step of one job, or its end.
LEMMA JobChange ==
  ASSUME TypeInv, NEW w \in Workers, NEW j, jobs' = [jobs EXCEPT ![w] = j],
         JobFits(setting, handled, head, j),
         UNCHANGED <<setting, head>>, handled \subseteq handled', handled' \subseteq LogsIn(setting)
  PROVE  JobsType' /\ jobs'[w] = j /\ \A v \in Workers \ {w} : jobs'[v] = jobs[v]
<1>1. DOMAIN jobs = Workers /\ \A v \in Workers : JobFits(setting, handled, head, jobs[v])
  BY DEF TypeInv, JobsType
<1>2. jobs'[w] = j /\ DOMAIN jobs' = Workers /\ \A v \in Workers \ {w} : jobs'[v] = jobs[v]
  BY <1>1
<1>3. \A k : JobFits(setting, handled, head, k) => JobFits(setting', handled', head', k)
  BY JobKept, HeadFacts
<1> QED
  BY <1>1, <1>2, <1>3 DEF JobsType

\* A step of one crawl of a job.
LEMMA SetCrawl ==
  ASSUME NEW g, NEW n, NEW p, NEW j \in JobsIn(g, n, p), NEW s \in g.services[p], NEW c \in CrawlsIn(n)
  PROVE  LET k == [j EXCEPT !.crawl[s] = c]
         IN /\ k \in JobsIn(g, n, p) /\ k.msg = j.msg /\ k.step = j.step /\ k.from = j.from
            /\ k.crawl = [j.crawl EXCEPT ![s] = c]
BY DEF JobsIn

LEMMA NewJobType ==
  ASSUME TypeInv, NEW m \in AskedIn(setting, handled)
  PROVE  /\ JobFits(setting, handled, head, NewJob(m)) /\ NewJob(m).msg = m /\ NewJob(m).step = "crawl"
         /\ \A s \in setting.services[m.plugin] :
              NewJob(m).from[s] = First(setting, m.plugin, s) /\ NewJob(m).crawl[s].at = "begin"
<1> DEFINE p == m.plugin
           S == setting.services[p]
<1>1. /\ p \in Plugins /\ AppliedIn(setting, handled, p) /\ setting \in Settings /\ head \in Nat
      /\ m \in Messages
  BY MessagePlugin, HeadFacts DEF AskedIn
<1>2. \A s \in S : First(setting, p, s) \in 1 .. MaxHead
  BY <1>1, FirstBlock, SettingType DEF AppliedIn
<1>3. NewJob(m) = [msg |-> m, step |-> "crawl", from |-> [s \in S |-> First(setting, p, s)],
                   crawl |-> [s \in S |-> Crawl("begin", 0, 0)]]
  BY SettingTerms DEF NewJob, Services
<1>4. Crawl("begin", 0, 0) \in CrawlsIn(head) /\ Crawl("begin", 0, 0).at = "begin"
  BY <1>1 DEF Crawl, CrawlsIn
<1>5. /\ [s \in S |-> First(setting, p, s)] \in [S -> 1 .. MaxHead]
      /\ [s \in S |-> Crawl("begin", 0, 0)] \in [S -> CrawlsIn(head)]
  BY <1>2, <1>4
<1>6. NewJob(m) \in JobsIn(setting, head, p)
  BY <1>1, <1>3, <1>5 DEF JobsIn
<1> QED
  BY <1>1, <1>3, <1>4, <1>6 DEF JobFits

LEMMA DeliverType ==
  ASSUME TypeInv, NEW q \in QueueNames, NEW m, Deliver(q, m)
  PROVE  m \in AskedIn(setting, handled)
         /\ (UNCHANGED <<setting, handled>> => QueueType')
<1>1. queue \in [QueueNames -> Seq(AskedIn(setting, handled))]
  BY DEF TypeInv, QueueType
<1>2. queue[q] \in Seq(AskedIn(setting, handled)) /\ queue[q] # <<>>
  BY <1>1 DEF Deliver
<1>3. Head(queue[q]) \in AskedIn(setting, handled) /\ Tail(queue[q]) \in Seq(AskedIn(setting, handled))
  BY <1>2
<1> QED
  BY <1>1, <1>3 DEF Deliver, QueueType

LEMMA ReceiveType ==
  ASSUME TypeInv, NEW q \in QueueNames, Receive(q)
  PROVE  TypeInv'
<1>1. PICK m \in Messages : Take(q, m) \/ DropActive(q, m)
  BY DEF Receive
<1>2. /\ UNCHANGED <<setting, head, indexer, cursor, status, synced, records, handled, ghosts, faults>>
      /\ Deliver(q, m)
  BY <1>1 DEF Take, DropActive
<1>3. QueueType'
  BY <1>2, DeliverType
<1>4. JobsType'
  <2>1. CASE Take(q, m)
    <3>1. PICK w \in Idle(q) : jobs' = [jobs EXCEPT ![w] = NewJob(m)]
      BY <2>1 DEF Take
    <3>2. w \in Workers
      BY HeadFacts, SettingType DEF Idle
    <3> QED
      BY <1>2, <3>1, <3>2, JobChange, NewJobType, DeliverType, HeadFacts
  <2>2. CASE DropActive(q, m)
    BY <2>2, TypeFrame, HeadFacts DEF DropActive
  <2> QED
    BY <1>1, <2>1, <2>2
<1> QED
  BY <1>2, <1>3, <1>4, TypeFrame, HeadFacts DEF TypeInv, indexer

LEMMA AtCrawl ==
  ASSUME TypeInv, NEW w \in Workers, NEW s, NEW a, At(w, s, a)
  PROVE  LET p == jobs[w].msg.plugin
             c == jobs[w].crawl[s]
         IN /\ w \in Working /\ p \in Plugins /\ AppliedIn(setting, handled, p) /\ s \in setting.services[p]
            /\ s \in ServiceNames /\ jobs[w] \in JobsIn(setting, head, p)
            /\ c.at = a /\ c \in CrawlsIn(head) /\ jobs[w].from[s] \in 1 .. MaxHead
            /\ lastSync[p] \in [setting.services[p] -> 0 .. head]
<1>1. w \in Working /\ s \in DOMAIN jobs[w].crawl /\ jobs[w].crawl[s].at = a
  BY DEF At
<1> DEFINE p == jobs[w].msg.plugin
<1>2. /\ p \in Plugins /\ AppliedIn(setting, handled, p) /\ s \in setting.services[p] /\ s \in ServiceNames
      /\ jobs[w] \in JobsIn(setting, head, p)
  BY <1>1, JobFacts
<1>3. jobs[w].crawl[s] \in CrawlsIn(head) /\ jobs[w].from[s] \in 1 .. MaxHead
  BY <1>2 DEF JobsIn
<1>4. lastSync[p] \in [setting.services[p] -> 0 .. head]
  BY <1>2 DEF TypeInv, RecordsType
<1> QED
  BY <1>1, <1>2, <1>3, <1>4

\* A step of one crawl, and of one record.
CrawlSet(w, s, c) == jobs' = [jobs EXCEPT ![w].crawl[s] = c]
RecordSet(p, s, e) == lastSync' = [lastSync EXCEPT ![p][s] = Max2(lastSync[p][s], e)]

\* The job after a step of its crawl.
LEMMA CrawlChange ==
  ASSUME TypeInv, NEW w \in Workers, NEW s, NEW a, At(w, s, a), NEW c \in CrawlsIn(head),
         CrawlSet(w, s, c),
         UNCHANGED <<setting, head>>, handled \subseteq handled', handled' \subseteq LogsIn(setting)
  PROVE  /\ JobsType' /\ \A v \in Workers \ {w} : jobs'[v] = jobs[v]
         /\ jobs'[w].msg = jobs[w].msg /\ jobs'[w].step = jobs[w].step /\ jobs'[w].from = jobs[w].from
         /\ jobs'[w].crawl[s] = c
         /\ \A t \in setting.services[jobs[w].msg.plugin] \ {s} : jobs'[w].crawl[t] = jobs[w].crawl[t]
<1> DEFINE p == jobs[w].msg.plugin
           k == [jobs[w] EXCEPT !.crawl[s] = c]
<1>1. /\ p \in Plugins /\ AppliedIn(setting, handled, p) /\ s \in setting.services[p]
      /\ jobs[w] \in JobsIn(setting, head, p)
  BY AtCrawl
<1>2. /\ k \in JobsIn(setting, head, p) /\ k.msg = jobs[w].msg /\ k.step = jobs[w].step
      /\ k.from = jobs[w].from /\ k.crawl = [jobs[w].crawl EXCEPT ![s] = c]
  BY <1>1, SetCrawl
<1>3. DOMAIN jobs[w].crawl = setting.services[p]
  BY <1>1 DEF JobsIn
<1>4. k.crawl[s] = c /\ \A t \in setting.services[p] \ {s} : k.crawl[t] = jobs[w].crawl[t]
  BY <1>1, <1>2, <1>3
<1>5. jobs' = [jobs EXCEPT ![w] = k]
  BY DEF CrawlSet, TypeInv, JobsType
<1>6. JobFits(setting, handled, head, k)
  BY <1>1, <1>2 DEF JobFits
<1>7. JobsType' /\ jobs'[w] = k /\ \A v \in Workers \ {w} : jobs'[v] = jobs[v]
  <2> HIDE DEF k
  <2> QED
    BY <1>5, <1>6, JobChange
<1> HIDE DEF k
<1> QED
  BY <1>2, <1>4, <1>7

\* The last block a crawl of a job is begun for.
LEMMA CrawlEnd ==
  ASSUME TypeInv, NEW b \in NodeHeads, NEW s
  PROVE  LET end == b - (IF s = "token" THEN Offset ELSE 0)
         IN end \in Int /\ end <= head /\ head - Depth(s) <= end
<1>1. b \in 0 .. head /\ head \in Nat /\ head - setting.lag <= b /\ setting.lag \in Nat /\ Offset \in Nat
  BY HeadFacts
<1> QED
  BY <1>1 DEF Depth

\* A crawl of a job begins at the cursor of its records, if they have one.
LEMMA BeginCrawlStep ==
  ASSUME TypeInv, NEW w \in Workers, NEW s, BeginPluginCrawl(w, s)
  PROVE  LET p == jobs[w].msg.plugin
             start == IF lastSync[p][s] = 0 THEN jobs[w].from[s] ELSE lastSync[p][s]
         IN \E end \in Int, c \in CrawlsIn(head) :
              /\ end <= head /\ head - Depth(s) <= end /\ start \in Nat \ {0}
              /\ c = IF end > start THEN Crawl("fetch", start, end) ELSE Crawl("done", 0, 0)
              /\ CrawlSet(w, s, c)
<1> DEFINE p == jobs[w].msg.plugin
           start == IF lastSync[p][s] = 0 THEN jobs[w].from[s] ELSE lastSync[p][s]
<1>1. At(w, s, "begin")
  BY DEF BeginPluginCrawl
<1>2. /\ lastSync[p] \in [setting.services[p] -> 0 .. head] /\ s \in setting.services[p]
      /\ jobs[w].from[s] \in 1 .. MaxHead
  BY <1>1, AtCrawl
<1>3. start \in Nat \ {0} /\ head \in Nat
  BY <1>2, HeadFacts
<1>4. PICK b \in NodeHeads :
        LET end == b - (IF s = "token" THEN Offset ELSE 0)
        IN jobs' = [jobs EXCEPT ![w].crawl[s] =
             IF end > start THEN Crawl("fetch", start, end) ELSE Crawl("done", 0, 0)]
  BY DEF BeginPluginCrawl
<1> DEFINE end == b - (IF s = "token" THEN Offset ELSE 0)
           c == IF end > start THEN Crawl("fetch", start, end) ELSE Crawl("done", 0, 0)
<1>5. end \in Int /\ end <= head /\ head - Depth(s) <= end
  BY CrawlEnd
<1>6. CrawlSet(w, s, c)
  BY <1>4 DEF CrawlSet
<1> HIDE DEF start, end
<1>7. c \in CrawlsIn(head)
  BY <1>3, <1>5 DEF Crawl, CrawlsIn
<1> HIDE DEF c
<1>8. /\ end <= head /\ head - Depth(s) <= end /\ start \in Nat \ {0}
      /\ c = IF end > start THEN Crawl("fetch", start, end) ELSE Crawl("done", 0, 0)
      /\ CrawlSet(w, s, c)
  BY <1>3, <1>5, <1>6 DEF c
<1> QED
  BY <1>5, <1>7, <1>8 DEF start

LEMMA BeginPluginCrawlType ==
  ASSUME TypeInv, NEW w \in Workers, NEW s, BeginPluginCrawl(w, s)
  PROVE  TypeInv'
<1>1. PICK c \in CrawlsIn(head) : CrawlSet(w, s, c)
  BY BeginCrawlStep
<1>2. At(w, s, "begin")
      /\ UNCHANGED <<setting, head, indexer, cursor, status, synced, records, handled, queue, ghosts,
                     faults>>
  BY DEF BeginPluginCrawl
<1>3. JobsType'
  BY <1>1, <1>2, CrawlChange, HeadFacts
<1> QED
  BY <1>2, <1>3, TypeFrame, HeadFacts DEF TypeInv, indexer

\* A range of a job's crawl: what it handles, and where the crawl is then.
LEMMA CrawlRangeStep ==
  ASSUME TypeInv, NEW w \in Workers, NEW s, CrawlRange(w, s)
  PROVE  LET p == jobs[w].msg.plugin
             c == jobs[w].crawl[s]
         IN \E e \in 0 .. head, k \in CrawlsIn(head) :
              /\ e <= c.latest /\ (c.cur < c.latest => c.cur <= e)
              /\ handled' = handled \union {l \in ServiceLogs(setting, p, s) : setting.chain[l].block \in c.cur .. e}
              /\ RecordSet(p, s, e)
              /\ k = IF e + 1 < c.latest THEN Crawl("fetch", e + 1, c.latest) ELSE Crawl("done", 0, 0)
              /\ CrawlSet(w, s, k)
<1> DEFINE p == jobs[w].msg.plugin
           c == jobs[w].crawl[s]
<1>1. PICK e \in RangeEnds(c.cur, c.latest) :
        /\ handled' = handled \union {l \in LogsOf(p, s) : chain[l].block \in c.cur .. e}
        /\ lastSync' = [lastSync EXCEPT ![p][s] = Max2(@, e)]
        /\ jobs' = [jobs EXCEPT ![w].crawl[s] =
             IF e + 1 < c.latest THEN Crawl("fetch", e + 1, c.latest) ELSE Crawl("done", 0, 0)]
  BY DEF CrawlRange
<1>2. c \in CrawlsIn(head) /\ head \in Nat
  BY AtCrawl, HeadFacts DEF CrawlRange
<1>3. c.cur \in 0 .. head /\ c.latest \in 0 .. head
  BY <1>2 DEF CrawlsIn
<1>4. e \in 0 .. head /\ e <= c.latest /\ (c.cur < c.latest => c.cur <= e)
  BY <1>2, <1>3, RangeEndType
<1> DEFINE k == IF e + 1 < c.latest THEN Crawl("fetch", e + 1, c.latest) ELSE Crawl("done", 0, 0)
<1>5. k \in CrawlsIn(head)
  BY <1>2, <1>3, <1>4 DEF Crawl, CrawlsIn
<1>6. handled' = handled \union {l \in ServiceLogs(setting, p, s) : setting.chain[l].block \in c.cur .. e}
  BY <1>1, SettingTerms DEF chain
<1> QED
  BY <1>1, <1>4, <1>5, <1>6 DEF CrawlSet, RecordSet

\* The records after a range.
LEMMA RecordChange ==
  ASSUME TypeInv, NEW p \in Plugins, NEW s \in setting.services[p], NEW e \in 0 .. head,
         AppliedIn(setting, handled, p),
         RecordSet(p, s, e),
         UNCHANGED <<setting, head, ended>>, handled \subseteq handled'
  PROVE  /\ RecordsType' /\ lastSync'[p][s] = Max2(lastSync[p][s], e)
         /\ \A q \in Plugins : \A t \in setting.services[q] :
              q # p \/ t # s => lastSync'[q][t] = lastSync[q][t]
<1>1. /\ DOMAIN lastSync = Plugins /\ lastSync[p] \in [setting.services[p] -> 0 .. head] /\ head \in Nat
  BY HeadFacts DEF TypeInv, RecordsType
<1>2. Max2(lastSync[p][s], e) \in 0 .. head
  BY <1>1 DEF Max2
<1>3. /\ lastSync'[p] = [lastSync[p] EXCEPT ![s] = Max2(lastSync[p][s], e)]
      /\ \A q \in Plugins \ {p} : lastSync'[q] = lastSync[q]
      /\ DOMAIN lastSync' = Plugins
  BY <1>1 DEF RecordSet
<1>4. /\ lastSync'[p][s] = Max2(lastSync[p][s], e)
      /\ \A t \in setting.services[p] \ {s} : lastSync'[p][t] = lastSync[p][t]
      /\ lastSync'[p] \in [setting.services[p] -> 0 .. head]
  BY <1>1, <1>2, <1>3
<1>5. \A q \in Plugins : \A t \in setting.services[q] :
        q # p \/ t # s => lastSync'[q][t] = lastSync[q][t]
  BY <1>3, <1>4
<1>6. \A q \in Plugins : AppliedIn(setting, handled, q) => AppliedIn(setting', handled', q)
  BY AppliedKept
<1>7. \A q \in Plugins : lastSync'[q] \in [setting'.services[q] -> 0 .. head']
  BY <1>3, <1>4 DEF TypeInv, RecordsType
<1>8. \A q \in Plugins : \A t \in setting'.services[q] :
        lastSync'[q][t] > 0 => AppliedIn(setting', handled', q)
  BY <1>5, <1>6 DEF TypeInv, RecordsType
<1>9. RecordsType'
  BY <1>3, <1>7, <1>8 DEF TypeInv, RecordsType
<1> QED
  BY <1>4, <1>5, <1>9

LEMMA CrawlRangeType ==
  ASSUME TypeInv, NEW w \in Workers, NEW s, CrawlRange(w, s)
  PROVE  TypeInv'
<1> DEFINE p == jobs[w].msg.plugin
<1>1. PICK e \in 0 .. head, k \in CrawlsIn(head) :
         /\ handled' = handled \union {l \in ServiceLogs(setting, p, s) :
                                         setting.chain[l].block \in jobs[w].crawl[s].cur .. e}
         /\ RecordSet(p, s, e)
         /\ CrawlSet(w, s, k)
  BY CrawlRangeStep
<1>2. At(w, s, "fetch")
      /\ UNCHANGED <<setting, head, indexer, cursor, status, synced, ended, queue, ghosts, faults>>
  BY DEF CrawlRange
<1>3. handled \subseteq handled' /\ handled' \subseteq LogsIn(setting)
  BY <1>1, HeadFacts DEF ServiceLogs
<1>4. p \in Plugins /\ s \in setting.services[p] /\ AppliedIn(setting, handled, p)
  BY <1>2, AtCrawl
<1> HIDE DEF p
<1>5. RecordsType'
  BY <1>1, <1>2, <1>3, <1>4, RecordChange
<1>6. JobsType'
  BY <1>1, <1>2, <1>3, CrawlChange
<1> QED
  BY <1>2, <1>3, <1>5, <1>6, TypeFrame, HeadFacts DEF TypeInv, indexer

\* A failure in a job about one of the plugins.
LEMMA FailedType ==
  ASSUME TypeInv, NEW w \in Workers, w \in Working, NEW k, Fault(k),
         NEW i \in {"crawl", "throw", "mark"}, Failed(i, {jobs[w].msg.plugin}),
         UNCHANGED <<setting, handled, deep>>
  PROVE  GhostType'
<1>1. jobs[w].msg.plugin \in Plugins
  BY JobFacts
<1>2. failed' = failed \union {<<i, jobs[w].msg.plugin>>}
  BY DEF Failed
<1> QED
  BY <1>1, <1>2, FaultType DEF GhostType, TypeInv

LEMMA CrawlFailsType ==
  ASSUME TypeInv, NEW w \in Workers, NEW s, CrawlFails(w, s)
  PROVE  TypeInv'
<1>1. /\ At(w, s, "fetch") /\ CrawlSet(w, s, Crawl("done", 0, 0))
      /\ UNCHANGED <<setting, head, indexer, cursor, status, synced, records, handled, queue, deep>>
      /\ Fault("crawl") /\ Failed("crawl", {jobs[w].msg.plugin})
  BY DEF CrawlFails, CrawlSet
<1>2. Crawl("done", 0, 0) \in CrawlsIn(head)
  BY HeadFacts DEF Crawl, CrawlsIn
<1>3. JobsType'
  BY <1>1, <1>2, CrawlChange, HeadFacts
<1>4. GhostType'
  BY <1>1, FailedType DEF At
<1> QED
  BY <1>1, <1>3, <1>4, TypeFrame, HeadFacts DEF TypeInv, indexer

\* The job of a consumer that threw.
LEMMA JobThrowsStep ==
  ASSUME TypeInv, NEW w \in Workers, NEW s, JobThrows(w, s)
  PROVE  \E j : /\ jobs' = [jobs EXCEPT ![w] = j] /\ JobFits(setting, handled, head, j)
                /\ j.msg = jobs[w].msg /\ j.step = "failed" /\ j.from = jobs[w].from
                /\ j.crawl = [jobs[w].crawl EXCEPT ![s] = Crawl("done", 0, 0)]
<1> DEFINE p == jobs[w].msg.plugin
           k == [jobs[w] EXCEPT !.crawl[s] = Crawl("done", 0, 0)]
           j == [k EXCEPT !.step = "failed"]
<1>1. /\ At(w, s, "begin")
      /\ jobs' = [jobs EXCEPT ![w].crawl[s] = Crawl("done", 0, 0), ![w].step = "failed"]
  BY DEF JobThrows
<1>2. /\ p \in Plugins /\ AppliedIn(setting, handled, p) /\ s \in setting.services[p]
      /\ jobs[w] \in JobsIn(setting, head, p)
  BY <1>1, AtCrawl
<1>3. Crawl("done", 0, 0) \in CrawlsIn(head)
  BY HeadFacts DEF Crawl, CrawlsIn
<1>4. /\ k \in JobsIn(setting, head, p) /\ k.msg = jobs[w].msg /\ k.from = jobs[w].from
      /\ k.crawl = [jobs[w].crawl EXCEPT ![s] = Crawl("done", 0, 0)]
  BY <1>2, <1>3, SetCrawl
<1>5. jobs' = [jobs EXCEPT ![w] = j]
  BY <1>1 DEF TypeInv, JobsType
<1> HIDE DEF k, p
<1>6. j \in JobsIn(setting, head, p) /\ j.msg = k.msg /\ j.step = "failed" /\ j.from = k.from /\ j.crawl = k.crawl
  BY <1>4 DEF JobsIn
<1> HIDE DEF j
<1> QED
  BY <1>2, <1>4, <1>5, <1>6 DEF JobFits

LEMMA JobThrowsType ==
  ASSUME TypeInv, NEW w \in Workers, NEW s, JobThrows(w, s)
  PROVE  TypeInv'
<1>1. /\ w \in Working
      /\ UNCHANGED <<setting, head, indexer, cursor, status, synced, records, handled, queue, deep>>
      /\ Fault("throw") /\ Failed("throw", {jobs[w].msg.plugin})
  BY DEF JobThrows, At
<1>2. PICK j : jobs' = [jobs EXCEPT ![w] = j] /\ JobFits(setting, handled, head, j)
  BY JobThrowsStep
<1>3. JobsType'
  BY <1>1, <1>2, JobChange, HeadFacts
<1>4. GhostType'
  BY <1>1, FailedType
<1> QED
  BY <1>1, <1>3, <1>4, TypeFrame, HeadFacts DEF TypeInv, indexer

LEMMA EndCrawlsStep ==
  ASSUME TypeInv, NEW w \in Workers, EndCrawls(w)
  PROVE  \E j : /\ jobs' = [jobs EXCEPT ![w] = j] /\ JobFits(setting, handled, head, j)
                /\ j.msg = jobs[w].msg /\ j.step = "ended" /\ j.from = jobs[w].from
                /\ j.crawl = jobs[w].crawl
<1> DEFINE p == jobs[w].msg.plugin
           j == [jobs[w] EXCEPT !.step = "ended"]
<1>1. w \in Working /\ jobs' = [jobs EXCEPT ![w].step = "ended"]
  BY DEF EndCrawls
<1>2. p \in Plugins /\ AppliedIn(setting, handled, p) /\ jobs[w] \in JobsIn(setting, head, p)
  BY <1>1, JobFacts
<1>3. jobs' = [jobs EXCEPT ![w] = j]
  BY <1>1 DEF TypeInv, JobsType
<1> HIDE DEF p
<1>4. /\ j \in JobsIn(setting, head, p) /\ j.msg = jobs[w].msg /\ j.step = "ended"
      /\ j.from = jobs[w].from /\ j.crawl = jobs[w].crawl
  BY <1>2 DEF JobsIn
<1> HIDE DEF j
<1> QED
  BY <1>2, <1>3, <1>4 DEF JobFits

LEMMA EndCrawlsType ==
  ASSUME TypeInv, NEW w \in Workers, EndCrawls(w)
  PROVE  TypeInv'
<1> DEFINE p == jobs[w].msg.plugin
<1>1. /\ w \in Working
      /\ ended' = ended \union {<<p, s>> : s \in {t \in setting.services[p] : lastSync[p][t] > 0}}
      /\ UNCHANGED <<setting, head, indexer, cursor, status, synced, lastSync, handled, queue, ghosts,
                     faults>>
  BY DEF EndCrawls, Services
<1>2. p \in Plugins /\ setting.services[p] \subseteq ServiceNames
  BY <1>1, JobFacts
<1>3. RecordsType'
  <2> HIDE DEF p
  <2>1. ended' \subseteq Plugins \X ServiceNames
    BY <1>1, <1>2 DEF TypeInv, RecordsType
  <2> QED
    BY <1>1, <2>1 DEF TypeInv, RecordsType
<1>4. PICK j : jobs' = [jobs EXCEPT ![w] = j] /\ JobFits(setting, handled, head, j)
  BY EndCrawlsStep
<1>5. JobsType'
  BY <1>1, <1>4, JobChange, HeadFacts
<1> QED
  BY <1>1, <1>3, <1>5, TypeFrame, HeadFacts DEF TypeInv, indexer

LEMMA FinishJobType ==
  ASSUME TypeInv, NEW w \in Workers, FinishJob(w) \/ MarkFails(w)
  PROVE  TypeInv'
<1>1. /\ w \in Working /\ jobs' = [jobs EXCEPT ![w] = NoJob]
      /\ UNCHANGED <<setting, head, indexer, cursor, status, records, handled, queue, deep>>
  BY DEF FinishJob, MarkFails, ghosts
<1>2. JobsType'
  BY <1>1, JobChange, HeadFacts DEF JobFits
<1>3. jobs[w].msg.plugin \in Plugins /\ AppliedIn(setting, handled, jobs[w].msg.plugin)
  BY <1>1, JobFacts
<1>4. CASE FinishJob(w)
  <2>1. synced' \subseteq synced \union {jobs[w].msg.plugin}
        /\ UNCHANGED <<status, ghosts, faults>>
    BY <1>4 DEF FinishJob
  <2>2. DocumentsType'
    BY <1>1, <1>3, <2>1 DEF TypeInv, DocumentsType
  <2> QED
    BY <1>1, <1>2, <2>1, <2>2, TypeFrame, HeadFacts DEF TypeInv, indexer
<1>5. CASE MarkFails(w)
  <2>1. Fault("mark") /\ Failed("mark", {jobs[w].msg.plugin}) /\ UNCHANGED synced
    BY <1>5 DEF MarkFails
  <2>2. GhostType'
    BY <1>1, <2>1, FailedType
  <2> QED
    BY <1>1, <1>2, <2>1, <2>2, TypeFrame, HeadFacts DEF TypeInv, indexer
<1> QED
  BY <1>4, <1>5

\* The messages of a queue that workers are at, in any order.
LEMMA TakenType ==
  ASSUME TypeInv, NEW q, NEW a \in SetToSeqs(MessagesTaken(q))
  PROVE  a \in Seq(AskedIn(setting, handled))
<1> DEFINE W == {v \in Working : QueueFor(jobs[v].msg) = q}
           f == [w \in W |-> jobs[w].msg]
<1>1. MessagesTaken(q) = {jobs[w].msg : w \in W}
  BY DEF MessagesTaken
<1>2. IsFiniteSet(W)
  <2>1. W \subseteq Workers
    BY DEF Working
  <2> HIDE DEF W
  <2> QED
    BY <2>1, FS_Subset, PluginSyncConstants
<1>3. f \in Surjection(W, MessagesTaken(q))
  BY <1>1 DEF Surjection
<1>4. IsFiniteSet(MessagesTaken(q))
  BY <1>2, <1>3, FS_Surjection
<1>5. MessagesTaken(q) \subseteq AskedIn(setting, handled)
  <2>1. \A w \in W : w \in Workers /\ w \in Working
    BY DEF Working
  <2>2. \A w \in W : jobs[w].msg \in AskedIn(setting, handled)
    BY <2>1, JobFacts
  <2> QED
    BY <1>1, <2>2
<1> QED
  BY <1>4, <1>5, SetToSeqsType, SeqLarger

LEMMA CrashWorkersType == TypeInv /\ CrashWorkers => TypeInv'
<1> SUFFICES ASSUME TypeInv, CrashWorkers PROVE TypeInv'
  OBVIOUS
<1> DEFINE S == AskedIn(setting, handled)
<1>1. PICK a \in SetToSeqs(MessagesTaken("plugins")), b \in SetToSeqs(MessagesTaken("requeue")) :
        queue' = [queue EXCEPT !["plugins"] = a \o @, !["requeue"] = b \o @]
  BY DEF CrashWorkers
<1>2. a \in Seq(S) /\ b \in Seq(S)
  BY TakenType
<1>3. queue \in [{"plugins", "requeue"} -> Seq(S)]
  BY DEF TypeInv, QueueType, QueueNames
<1>4. /\ jobs' = [w \in Workers |-> NoJob] /\ Fault("crash")
      /\ UNCHANGED <<setting, head, indexer, cursor, status, synced, records, handled, ghosts>>
  BY DEF CrashWorkers
<1> HIDE DEF S
<1>5. a \o queue["plugins"] \in Seq(S) /\ b \o queue["requeue"] \in Seq(S)
  BY <1>2, <1>3
<1>6. queue' = [queue EXCEPT !["plugins"] = a \o queue["plugins"], !["requeue"] = b \o queue["requeue"]]
  BY <1>1, <1>3
<1>7. queue' \in [{"plugins", "requeue"} -> Seq(S)]
  BY <1>3, <1>5, <1>6
<1>8. QueueType'
  BY <1>4, <1>7 DEF QueueType, QueueNames, S
<1>9. JobsType'
  BY <1>4 DEF JobsType, JobFits
<1>10. GhostType'
  BY <1>4, FaultType DEF GhostType, TypeInv, ghosts
<1> QED
  BY <1>4, <1>8, <1>9, <1>10, TypeFrame, HeadFacts DEF TypeInv, indexer

LEMMA NextTypeInv == TypeInv /\ [Next]_vars => TypeInv'
<1> SUFFICES ASSUME TypeInv, [Next]_vars PROVE TypeInv'
  OBVIOUS
<1>1. CASE Mine \/ IndexerStep
  BY <1>1, MineType, StartIndexerType, BeginCrawlType, HandleLogType, SaveProgressType, BackfillType,
     SendMessageType, StartPollingType DEF IndexerStep
<1>2. CASE \E p \in Plugins : SyncAll(p) \/ Requeue(p)
  BY <1>2, SyncAllType
<1>3. CASE \E q \in QueueNames : Receive(q)
  BY <1>3, ReceiveType
<1>4. CASE \E w \in Workers : WorkerStep(w) \/ MarkFails(w)
  BY <1>4, BeginPluginCrawlType, CrawlRangeType, EndCrawlsType, FinishJobType DEF WorkerStep
<1>5. CASE \E w \in Workers, s \in ServiceNames : CrawlFails(w, s) \/ JobThrows(w, s)
  BY <1>5, CrawlFailsType, JobThrowsType
<1>6. CASE PollFails \/ SendFails \/ CrashIndexer \/ CrashWorkers
  BY <1>6, PollFailsType, SendMessageType, CrashIndexerType, CrashWorkersType
<1>7. CASE UNCHANGED vars
  BY <1>7, TypeFrame, HeadFacts DEF TypeInv, vars, indexer, service
<1> QED
  BY <1>1, <1>2, <1>3, <1>4, <1>5, <1>6, <1>7 DEF Next

\* Whatever the history, however many plugins and workers and whichever calls
\* fail, the services keep their shape: a job finds its plugin and knows where to
\* begin, messages and logs wait only where the indexer works on them, and no
\* cursor is beyond the chain.
THEOREM SyncTypeCorrect == Spec => []TypeOK
BY InitTypeInv, NextTypeInv, TypeInvType, PTL DEF Spec

-----------------------------------------------------------------------------
(* What a mark means *)

\* Whom a mark is about: installations that were found deep in the chain, of
\* plugins no crawl of which failed.
Bound(d, f) == {e \in d : <<"crawl", e[1]>> \notin f}

\* The logs of p's service s from its first block to block b.
Scope(g, p, s, b) ==
  {l \in ServiceLogs(g, p, s) : First(g, p, s) <= g.chain[l].block /\ g.chain[l].block <= b}

AppliedBefore(g, p, b) == \A a \in SetupBlocks(g, p, "Applied") : a < b

LEMMA ScopeNone ==
  ASSUME NEW g \in Settings, NEW p, NEW s
  PROVE  Scope(g, p, s, 0) = {}
<1>1. \A l \in ServiceLogs(g, p, s) : g.chain[l].block \in 1 .. MaxHead
  BY SettingType DEF ServiceLogs
<1> QED
  BY <1>1, SettingType DEF Scope

LEMMA ScopeLarger ==
  ASSUME NEW g \in Settings, NEW p, NEW s, NEW b \in Int, NEW c \in Int, b <= c
  PROVE  Scope(g, p, s, b) \subseteq Scope(g, p, s, c)
<1>1. \A l \in ServiceLogs(g, p, s) : g.chain[l].block \in 1 .. MaxHead
  BY SettingType DEF ServiceLogs
<1> QED
  BY <1>1, SettingType DEF Scope

\* A range adds its blocks to what is covered.
LEMMA ScopeRange ==
  ASSUME NEW g \in Settings, NEW p, NEW s, NEW b \in Int, NEW c \in Int
  PROVE  Scope(g, p, s, c) \subseteq
           Scope(g, p, s, b - 1) \union {l \in ServiceLogs(g, p, s) : g.chain[l].block \in b .. c}
<1>1. \A l \in ServiceLogs(g, p, s) : g.chain[l].block \in 1 .. MaxHead
  BY SettingType DEF ServiceLogs
<1> QED
  BY <1>1, SettingType DEF Scope

\* Before its first block a service has nothing to cover.
LEMMA ScopeBegin ==
  ASSUME NEW g \in Settings, NEW p, NEW s, First(g, p, s) \in Int
  PROVE  Scope(g, p, s, First(g, p, s) - 1) = {}
<1>1. \A l \in ServiceLogs(g, p, s) : g.chain[l].block \in 1 .. MaxHead
  BY SettingType DEF ServiceLogs
<1> QED
  BY <1>1, SettingType DEF Scope

\* Past the installation the backlog is covered.
LEMMA ScopeDebt ==
  ASSUME NEW g \in Settings, NEW h, NEW p \in Plugins, NEW s \in ServiceNames, AppliedIn(g, h, p),
         NEW b \in Int, AppliedBefore(g, p, b + 1)
  PROVE  Debt(g, p, s) \subseteq Scope(g, p, s, b)
<1>1. PICK l \in h : IsSetup(g, l, "Applied", p)
  BY DEF AppliedIn
<1>2. SetupBlocks(g, p, "Applied") = {g.chain[l].block} /\ g.chain[l].block \in 1 .. MaxHead
  BY <1>1, SetupBlock, SettingType DEF IsSetup
<1>3. \A k \in Debt(g, p, s) : First(g, p, s) <= g.chain[k].block /\ g.chain[k].block <= g.chain[l].block
  BY <1>1, FirstBlock
<1>4. \A k \in Debt(g, p, s) : k \in ServiceLogs(g, p, s) /\ g.chain[k].block \in 1 .. MaxHead
  BY SettingType DEF Debt, ServiceLogs
<1>5. g.chain[l].block <= b
  <2>1. g.chain[l].block < b + 1
    BY <1>2 DEF AppliedBefore
  <2>2. g.chain[l].block \in Int
    BY <1>2, PluginSyncConstants
  <2> QED
    BY <2>1, <2>2
<1> QED
  BY <1>2, <1>3, <1>4, <1>5, SettingType DEF Scope

\* What is behind a cursor is handled.
RecordsCover ==
  \A p \in Plugins : \A s \in setting.services[p] :
    Scope(setting, p, s, lastSync[p][s]) \subseteq handled

\* The head stays as far beyond a deep installation as a crawl needs.
DeepBelow ==
  \A p \in Plugins : \A s \in setting.services[p] :
    <<p, s>> \in deep => AppliedBefore(setting, p, head - Depth(s))

\* A job's crawl of s that goes on has handled what is before its block and will
\* come past the installation; one that is done has handled what is owed.
CrawlCovers(g, h, d, j, s) ==
  LET p == j.msg.plugin
      c == j.crawl[s]
  IN /\ j.from[s] = First(g, p, s)
     /\ c.at = "fetch" => /\ c.cur < c.latest
                          /\ Scope(g, p, s, c.cur - 1) \subseteq h
                          /\ <<p, s>> \in d => AppliedBefore(g, p, c.latest)
     /\ c.at = "done" /\ j.step # "failed" /\ <<p, s>> \in d => Debt(g, p, s) \subseteq h
     /\ j.step = "ended" => c.at = "done"

JobsCover ==
  \A w \in Working : \A s \in setting.services[jobs[w].msg.plugin] :
    CrawlCovers(setting, handled, Bound(deep, failed), jobs[w], s)

MarksCover ==
  \A p \in synced : \A s \in setting.services[p] :
    <<p, s>> \in Bound(deep, failed) => Debt(setting, p, s) \subseteq handled

SyncInv == TypeInv /\ RecordsCover /\ DeepBelow /\ JobsCover /\ MarksCover

LEMMA SyncInvMarks == SyncInv => SyncedUnlessFailed
<1> SUFFICES ASSUME SyncInv, NEW p \in MarkedPlugins, NEW s \in Services[p],
                    <<p, s>> \in deep, <<"crawl", p>> \notin failed
             PROVE  Backlog(p, s) \subseteq handled
  BY DEF SyncedUnlessFailed
<1>1. p \in synced /\ s \in setting.services[p] /\ <<p, s>> \in Bound(deep, failed)
  BY DEF MarkedPlugins, Services, Bound
<1> QED
  BY <1>1, SettingTerms DEF SyncInv, MarksCover

LEMMA InitSyncInv == Init => SyncInv
<1> SUFFICES ASSUME Init PROVE SyncInv
  OBVIOUS
<1>1. TypeInv
  BY InitTypeInv
<1>2. Working = {} /\ synced = {} /\ deep = {}
  BY DEF Init, Working, NoJob
<1>3. \A p \in Plugins : \A s \in setting.services[p] : lastSync[p][s] = 0
  BY DEF Init, Services
<1>4. RecordsCover
  BY <1>1, <1>3, ScopeNone, HeadFacts DEF RecordsCover
<1> QED
  BY <1>1, <1>2, <1>4 DEF SyncInv, DeepBelow, JobsCover, MarksCover

LEMMA CrawlKept ==
  ASSUME NEW g, NEW h, NEW i, h \subseteq i, NEW d, NEW e, NEW j, NEW s,
         <<j.msg.plugin, s>> \in e => <<j.msg.plugin, s>> \in d,
         CrawlCovers(g, h, d, j, s)
  PROVE  CrawlCovers(g, i, e, j, s)
BY DEF CrawlCovers

LEMMA AppliedFarther ==
  ASSUME NEW g \in Settings, NEW p, NEW b \in Int, NEW c \in Int, b <= c, AppliedBefore(g, p, b)
  PROVE  AppliedBefore(g, p, c)
<1>1. \A a \in SetupBlocks(g, p, "Applied") : a \in Int
  BY SettingType DEF SetupBlocks
<1> QED
  BY <1>1 DEF AppliedBefore

LEMMA DepthType ==
  ASSUME TypeInv, NEW s
  PROVE  Depth(s) \in Nat /\ (UNCHANGED setting => Depth(s)' = Depth(s))
BY HeadFacts DEF Depth, Offset

\* What a step leaves alone keeps its meaning while logs are handled, the chain
\* grows and calls fail.
LEMMA SyncFrame ==
  ASSUME SyncInv, UNCHANGED <<setting, deep>>, head' \in head .. MaxHead, handled \subseteq handled',
         failed \subseteq failed'
  PROVE  /\ UNCHANGED lastSync => RecordsCover'
         /\ DeepBelow'
         /\ UNCHANGED jobs => JobsCover'
         /\ synced' \subseteq synced => MarksCover'
         /\ Bound(deep', failed') \subseteq Bound(deep, failed)
<1>1. TypeInv /\ setting \in Settings /\ head \in Int /\ head' \in Int /\ head <= head'
  BY HeadFacts DEF SyncInv
<1>2. Bound(deep', failed') \subseteq Bound(deep, failed)
  BY DEF Bound
<1>3. UNCHANGED lastSync => RecordsCover'
  BY DEF SyncInv, RecordsCover
<1>4. DeepBelow'
  <2> SUFFICES ASSUME NEW p \in Plugins, NEW s \in setting.services[p], <<p, s>> \in deep
               PROVE  AppliedBefore(setting, p, head' - Depth(s)')
    BY DEF DeepBelow
  <2>1. AppliedBefore(setting, p, head - Depth(s)) /\ Depth(s)' = Depth(s) /\ Depth(s) \in Nat
    BY <1>1, DepthType DEF SyncInv, DeepBelow
  <2> QED
    BY <1>1, <2>1, AppliedFarther
<1>5. UNCHANGED jobs => JobsCover'
  <2> SUFFICES ASSUME UNCHANGED jobs, NEW w \in Working, NEW s \in setting.services[jobs[w].msg.plugin]
               PROVE  CrawlCovers(setting, handled', Bound(deep', failed'), jobs[w], s)
    BY DEF JobsCover, Working
  <2>1. CrawlCovers(setting, handled, Bound(deep, failed), jobs[w], s)
    BY DEF SyncInv, JobsCover
  <2> QED
    BY <1>2, <2>1, CrawlKept
<1>6. synced' \subseteq synced => MarksCover'
  BY <1>2 DEF SyncInv, MarksCover
<1> QED
  BY <1>2, <1>3, <1>4, <1>5, <1>6

\* A step of one job.
LEMMA JobCovers ==
  ASSUME SyncInv, UNCHANGED <<setting, deep>>, handled \subseteq handled', failed \subseteq failed',
         NEW w \in Workers, \A v \in Workers \ {w} : jobs'[v] = jobs[v],
         \/ jobs'[w] = NoJob
         \/ \A s \in setting.services[jobs'[w].msg.plugin] :
              CrawlCovers(setting, handled', Bound(deep', failed'), jobs'[w], s)
  PROVE  JobsCover'
<1> SUFFICES ASSUME NEW v \in Working', NEW s \in setting.services[jobs'[v].msg.plugin]
             PROVE  CrawlCovers(setting, handled', Bound(deep', failed'), jobs'[v], s)
  BY DEF JobsCover
<1>1. v \in Workers /\ jobs'[v] # NoJob
  BY DEF Working, NoJob
<1>2. CASE v = w
  BY <1>1, <1>2
<1>3. CASE v # w
  <2>1. jobs'[v] = jobs[v] /\ v \in Working
    BY <1>1, <1>3 DEF Working
  <2>2. CrawlCovers(setting, handled, Bound(deep, failed), jobs[v], s)
    BY <2>1 DEF SyncInv, JobsCover
  <2>3. Bound(deep', failed') \subseteq Bound(deep, failed)
    BY DEF Bound
  <2> QED
    BY <2>1, <2>2, <2>3, CrawlKept
<1> QED
  BY <1>2, <1>3

\* A step of one crawl: the others of its job are where they were.
LEMMA CrawlCoversChange ==
  ASSUME SyncInv, UNCHANGED <<setting, head, deep>>, handled \subseteq handled', failed \subseteq failed',
         handled' \subseteq LogsIn(setting),
         NEW w \in Workers, NEW s, NEW a, At(w, s, a), NEW c \in CrawlsIn(head),
         CrawlSet(w, s, c),
         CrawlCovers(setting, handled', Bound(deep', failed'), jobs'[w], s)
  PROVE  JobsCover'
<1>1. TypeInv
  BY DEF SyncInv
<1>2. \A v \in Workers \ {w} : jobs'[v] = jobs[v]
  BY <1>1, CrawlChange
<1>3. jobs'[w].msg = jobs[w].msg /\ jobs'[w].step = jobs[w].step /\ jobs'[w].from = jobs[w].from
  <2>1. jobs'[w].msg = jobs[w].msg
    BY <1>1, CrawlChange
  <2>2. jobs'[w].step = jobs[w].step
    BY <1>1, CrawlChange
  <2>3. jobs'[w].from = jobs[w].from
    BY <1>1, CrawlChange
  <2> QED
    BY <2>1, <2>2, <2>3
<1>4. w \in Working /\ DOMAIN jobs[w].crawl = setting.services[jobs[w].msg.plugin]
  BY <1>1, JobFacts DEF At
<1>5. Bound(deep', failed') \subseteq Bound(deep, failed)
  BY DEF Bound
<1>6. ASSUME NEW t \in setting.services[jobs'[w].msg.plugin], t # s
      PROVE  CrawlCovers(setting, handled', Bound(deep', failed'), jobs'[w], t)
  <2>1. t \in setting.services[jobs[w].msg.plugin]
    BY <1>3
  <2>2. CrawlCovers(setting, handled, Bound(deep, failed), jobs[w], t)
    BY <1>4, <2>1 DEF SyncInv, JobsCover
  <2>3. jobs'[w].crawl[t] = jobs[w].crawl[t]
    BY <1>1, <1>6, <2>1, CrawlChange
  <2>4. CrawlCovers(setting, handled, Bound(deep, failed), jobs'[w], t)
    BY <1>3, <2>2, <2>3 DEF CrawlCovers
  <2>5. <<jobs'[w].msg.plugin, t>> \in Bound(deep', failed') => <<jobs'[w].msg.plugin, t>> \in Bound(deep, failed)
    BY <1>5
  <2> DEFINE j == jobs'[w]
             d == Bound(deep, failed)
             e == Bound(deep', failed')
             h == handled'
  <2>6. CrawlCovers(setting, handled, d, j, t) /\ (<<j.msg.plugin, t>> \in e => <<j.msg.plugin, t>> \in d)
        /\ handled \subseteq h
    BY <2>4, <2>5
  <2> HIDE DEF j, d, e, h
  <2>7. CrawlCovers(setting, h, e, j, t)
    BY <2>6, CrawlKept
  <2> QED
    BY <2>7 DEF j, e, h
<1>7. \A t \in setting.services[jobs'[w].msg.plugin] :
        CrawlCovers(setting, handled', Bound(deep', failed'), jobs'[w], t)
  BY <1>6
<1> QED
  BY <1>2, <1>7, JobCovers

-----------------------------------------------------------------------------
(* What a mark means: the steps of a job *)

\* A crawl of a job begins behind what is handled, and for a deep installation it
\* ends beyond it or has nothing left to do.
LEMMA BeginPluginCrawlCovers ==
  ASSUME SyncInv, NEW w \in Workers, NEW s, BeginPluginCrawl(w, s)
  PROVE  JobsCover'
<1> DEFINE p == jobs[w].msg.plugin
           start == IF lastSync[p][s] = 0 THEN jobs[w].from[s] ELSE lastSync[p][s]
           D == Bound(deep, failed)
<1>1. /\ TypeInv /\ At(w, s, "begin")
      /\ UNCHANGED <<setting, head, handled, deep, failed>>
  BY DEF SyncInv, BeginPluginCrawl, ghosts
<1>2. /\ w \in Working /\ p \in Plugins /\ AppliedIn(setting, handled, p) /\ s \in setting.services[p]
      /\ s \in ServiceNames /\ jobs[w].crawl[s].at = "begin"
      /\ lastSync[p] \in [setting.services[p] -> 0 .. head]
      /\ setting \in Settings /\ handled \subseteq LogsIn(setting) /\ head \in Nat
  BY <1>1, AtCrawl, HeadFacts
<1>3. jobs[w].from[s] = First(setting, p, s) /\ jobs[w].step # "ended"
  BY <1>2 DEF SyncInv, JobsCover, CrawlCovers
<1>4. PICK l \in handled : IsSetup(setting, l, "Applied", p)
  BY <1>2 DEF AppliedIn
<1>5. /\ First(setting, p, s) \in Nat \ {0} /\ First(setting, p, s) <= setting.chain[l].block
      /\ SetupBlocks(setting, p, "Applied") = {setting.chain[l].block} /\ setting.chain[l].block \in Nat
  <2>1. First(setting, p, s) \in 1 .. MaxHead /\ First(setting, p, s) <= setting.chain[l].block
    BY <1>2, <1>4, FirstBlock
  <2>2. SetupBlocks(setting, p, "Applied") = {setting.chain[l].block}
    BY <1>2, <1>4, SetupBlock
  <2>3. setting.chain[l].block \in 1 .. MaxHead
    BY <1>2, <1>4, SettingType DEF IsSetup
  <2> QED
    BY <2>1, <2>2, <2>3
<1>6. PICK end \in Int, c \in CrawlsIn(head) :
        /\ end <= head /\ head - Depth(s) <= end /\ start \in Nat \ {0}
        /\ c = IF end > start THEN Crawl("fetch", start, end) ELSE Crawl("done", 0, 0)
        /\ CrawlSet(w, s, c)
  BY <1>1, BeginCrawlStep
<1>7. Scope(setting, p, s, start - 1) \subseteq handled
  <2>1. CASE lastSync[p][s] = 0
    BY <1>2, <1>3, <1>5, <2>1, ScopeBegin
  <2>2. CASE lastSync[p][s] # 0
    <3>1. start = lastSync[p][s] /\ start \in Int
      BY <1>2, <2>2
    <3>2. Scope(setting, p, s, start) \subseteq handled
      BY <1>2, <3>1 DEF SyncInv, RecordsCover
    <3> HIDE DEF start
    <3>3. Scope(setting, p, s, start - 1) \subseteq Scope(setting, p, s, start)
      BY <1>2, <3>1, ScopeLarger
    <3> QED
      BY <3>2, <3>3
  <2> QED
    BY <2>1, <2>2
<1>8. ASSUME <<p, s>> \in D
      PROVE  AppliedBefore(setting, p, end)
  <2>1. AppliedBefore(setting, p, head - Depth(s))
    BY <1>2, <1>8 DEF SyncInv, DeepBelow, Bound
  <2>2. head - Depth(s) \in Int
    BY <1>1, <1>2, DepthType
  <2>3. head - Depth(s) <= end /\ setting \in Settings
    BY <1>2, <1>6
  <2> HIDE DEF p
  <2> QED
    BY <2>1, <2>2, <2>3, AppliedFarther
<1>9. ASSUME <<p, s>> \in D, ~(end > start)
      PROVE  Debt(setting, p, s) \subseteq handled
  <2>1. setting.chain[l].block < end
    BY <1>5, <1>8, <1>9 DEF AppliedBefore
  <2>2. /\ lastSync[p][s] = 0 => start = First(setting, p, s)
        /\ lastSync[p][s] # 0 => start = lastSync[p][s]
    BY <1>3
  <2> HIDE DEF start
  <2>3. end <= start /\ start \in Int
    BY <1>6, <1>9
  <2>4. setting.chain[l].block < start
    BY <1>5, <2>1, <2>3
  <2>5. start = lastSync[p][s]
    BY <1>5, <2>2, <2>4
  <2>6. Scope(setting, p, s, start) \subseteq handled
    BY <1>2, <2>5 DEF SyncInv, RecordsCover
  <2>7. AppliedBefore(setting, p, start + 1)
    BY <1>5, <2>3, <2>4 DEF AppliedBefore
  <2> HIDE DEF p
  <2> QED
    BY <1>2, <2>3, <2>6, <2>7, ScopeDebt
<1> HIDE DEF start, p, D
<1>10. jobs'[w].msg = jobs[w].msg /\ jobs'[w].from[s] = First(setting, p, s) /\ jobs'[w].crawl[s] = c
       /\ jobs'[w].step # "ended"
  <2>1. /\ jobs'[w].msg = jobs[w].msg /\ jobs'[w].step = jobs[w].step /\ jobs'[w].from = jobs[w].from
        /\ jobs'[w].crawl[s] = c
    BY <1>1, <1>2, <1>6, CrawlChange
  <2> QED
    BY <1>3, <2>1
<1>11. CrawlCovers(setting, handled, D, jobs'[w], s)
  <2>1. jobs'[w].msg.plugin = p
    BY <1>10 DEF p
  <2>2. CASE end > start
    <3>1. c.at = "fetch" /\ c.cur = start /\ c.latest = end
      BY <1>6, <2>2 DEF Crawl
    <3> QED
      BY <1>7, <1>8, <1>10, <2>1, <2>2, <3>1 DEF CrawlCovers
  <2>3. CASE ~(end > start)
    <3>1. c.at = "done"
      BY <1>6, <2>3 DEF Crawl
    <3> QED
      BY <1>9, <1>10, <2>1, <2>3, <3>1 DEF CrawlCovers
  <2> QED
    BY <2>2, <2>3
<1>12. CrawlCovers(setting, handled', Bound(deep', failed'), jobs'[w], s)
  BY <1>1, <1>11 DEF D
<1> QED
  BY <1>1, <1>2, <1>6, <1>12, CrawlCoversChange

\* A range of a crawl: what it covers is handled before its record and its block
\* are moved.
LEMMA CrawlRangeCovers ==
  ASSUME SyncInv, NEW w \in Workers, NEW s, CrawlRange(w, s)
  PROVE  RecordsCover' /\ JobsCover' /\ handled \subseteq handled'
<1> DEFINE p == jobs[w].msg.plugin
           c == jobs[w].crawl[s]
           D == Bound(deep, failed)
<1>1. /\ TypeInv /\ At(w, s, "fetch")
      /\ UNCHANGED <<setting, head, ended, deep, failed>>
  BY DEF SyncInv, CrawlRange, ghosts
<1>2. /\ w \in Working /\ p \in Plugins /\ AppliedIn(setting, handled, p) /\ s \in setting.services[p]
      /\ s \in ServiceNames /\ c.at = "fetch" /\ c \in CrawlsIn(head)
      /\ lastSync[p] \in [setting.services[p] -> 0 .. head]
      /\ setting \in Settings /\ handled \subseteq LogsIn(setting) /\ head \in Nat
  BY <1>1, AtCrawl, HeadFacts
<1>3. /\ jobs[w].from[s] = First(setting, p, s) /\ jobs[w].step # "ended"
      /\ c.cur < c.latest /\ Scope(setting, p, s, c.cur - 1) \subseteq handled
      /\ <<p, s>> \in D => AppliedBefore(setting, p, c.latest)
  BY <1>2 DEF SyncInv, JobsCover, CrawlCovers
<1>4. PICK e \in 0 .. head, k \in CrawlsIn(head) :
        /\ e <= c.latest /\ (c.cur < c.latest => c.cur <= e)
        /\ handled' = handled \union {l \in ServiceLogs(setting, p, s) : setting.chain[l].block \in c.cur .. e}
        /\ RecordSet(p, s, e)
        /\ k = IF e + 1 < c.latest THEN Crawl("fetch", e + 1, c.latest) ELSE Crawl("done", 0, 0)
        /\ CrawlSet(w, s, k)
  BY <1>1, CrawlRangeStep
<1>5. c.cur \in Int /\ c.latest \in Int /\ e \in Int
  BY <1>2 DEF CrawlsIn
<1> HIDE DEF c, p, D
<1>6. Scope(setting, p, s, e) \subseteq handled'
  <2>1. Scope(setting, p, s, e) \subseteq
          Scope(setting, p, s, c.cur - 1)
            \union {l \in ServiceLogs(setting, p, s) : setting.chain[l].block \in c.cur .. e}
    BY <1>2, <1>5, ScopeRange
  <2> QED
    BY <1>3, <1>4, <2>1
<1>7. handled \subseteq handled' /\ handled' \subseteq LogsIn(setting)
  BY <1>2, <1>4 DEF ServiceLogs
<1>8. RecordsCover'
  <2> SUFFICES ASSUME NEW q \in Plugins, NEW t \in setting.services[q]
               PROVE  Scope(setting, q, t, lastSync'[q][t]) \subseteq handled'
    BY <1>1 DEF RecordsCover
  <2>1. Scope(setting, q, t, lastSync[q][t]) \subseteq handled
    BY DEF SyncInv, RecordsCover
  <2>2. CASE q = p /\ t = s
    <3>1. lastSync'[p][s] = Max2(lastSync[p][s], e)
      BY <1>1, <1>2, <1>4, <1>7, RecordChange
    <3>2. lastSync'[p][s] = e \/ lastSync'[p][s] = lastSync[p][s]
      BY <3>1 DEF Max2
    <3> QED
      BY <1>6, <1>7, <2>1, <2>2, <3>2
  <2>3. CASE q # p \/ t # s
    <3>1. lastSync'[q][t] = lastSync[q][t]
      BY <1>1, <1>2, <1>4, <1>7, <2>3, RecordChange
    <3> QED
      BY <1>7, <2>1, <3>1
  <2> QED
    BY <2>2, <2>3
<1>9. jobs'[w].msg.plugin = p /\ jobs'[w].from[s] = First(setting, p, s) /\ jobs'[w].crawl[s] = k
      /\ jobs'[w].step # "ended"
  <2>1. /\ jobs'[w].msg = jobs[w].msg /\ jobs'[w].step = jobs[w].step /\ jobs'[w].from = jobs[w].from
        /\ jobs'[w].crawl[s] = k
    BY <1>1, <1>4, <1>7, CrawlChange
  <2> QED
    BY <1>3, <2>1 DEF p
<1>10. CrawlCovers(setting, handled', D, jobs'[w], s)
  <2>1. CASE e + 1 < c.latest
    <3>1. k.at = "fetch" /\ k.cur = e + 1 /\ k.latest = c.latest
      BY <1>4, <2>1 DEF Crawl
    <3>2. k.cur - 1 = e /\ k.cur < k.latest
      BY <1>5, <2>1, <3>1
    <3> QED
      BY <1>3, <1>6, <1>9, <3>1, <3>2 DEF CrawlCovers
  <2>2. CASE ~(e + 1 < c.latest)
    <3>1. k.at = "done"
      BY <1>4, <2>2 DEF Crawl
    <3>2. ASSUME <<p, s>> \in D PROVE Debt(setting, p, s) \subseteq handled'
      <4>1. AppliedBefore(setting, p, e + 1)
        <5>1. c.latest <= e + 1 /\ e + 1 \in Int
          BY <1>5, <2>2
        <5> QED
          BY <1>2, <1>3, <1>5, <3>2, <5>1, AppliedFarther
      <4> QED
        BY <1>2, <1>5, <1>6, <4>1, ScopeDebt
    <3> QED
      BY <1>9, <3>1, <3>2 DEF CrawlCovers
  <2> QED
    BY <2>1, <2>2
<1>11. CrawlCovers(setting, handled', Bound(deep', failed'), jobs'[w], s)
  BY <1>1, <1>10 DEF D
<1>12. JobsCover'
  BY <1>1, <1>4, <1>7, <1>11, CrawlCoversChange
<1> QED
  BY <1>7, <1>8, <1>12

\* A crawl that failed takes its plugin out of what marks are about.
LEMMA CrawlFailsCovers ==
  ASSUME SyncInv, NEW w \in Workers, NEW s, CrawlFails(w, s)
  PROVE  JobsCover'
<1> DEFINE p == jobs[w].msg.plugin
           c == Crawl("done", 0, 0)
<1>1. /\ TypeInv /\ At(w, s, "fetch") /\ CrawlSet(w, s, c)
      /\ UNCHANGED <<setting, head, handled, deep>>
      /\ failed' = failed \union {<<"crawl", p>>}
  BY DEF SyncInv, CrawlFails, Failed, CrawlSet
<1>2. /\ w \in Working /\ p \in Plugins /\ s \in setting.services[p] /\ jobs[w].crawl[s].at = "fetch"
      /\ handled \subseteq LogsIn(setting) /\ c \in CrawlsIn(head) /\ c.at = "done"
  <2>1. c \in CrawlsIn(head) /\ c.at = "done"
    BY <1>1, HeadFacts DEF Crawl, CrawlsIn
  <2> QED
    BY <1>1, <2>1, AtCrawl, HeadFacts
<1>3. jobs[w].from[s] = First(setting, p, s) /\ jobs[w].step # "ended"
  BY <1>2 DEF SyncInv, JobsCover, CrawlCovers
<1> HIDE DEF c, p
<1>4. /\ jobs'[w].msg = jobs[w].msg /\ jobs'[w].step = jobs[w].step /\ jobs'[w].from = jobs[w].from
      /\ jobs'[w].crawl[s] = c
  BY <1>1, <1>2, CrawlChange
<1>5. <<p, s>> \notin Bound(deep', failed')
  BY <1>1 DEF Bound
<1>6. CrawlCovers(setting, handled', Bound(deep', failed'), jobs'[w], s)
  BY <1>2, <1>3, <1>4, <1>5 DEF CrawlCovers, p
<1> QED
  BY <1>1, <1>2, <1>6, CrawlCoversChange

LEMMA JobThrowsCovers ==
  ASSUME SyncInv, NEW w \in Workers, NEW s, JobThrows(w, s)
  PROVE  JobsCover'
<1>1. /\ TypeInv /\ w \in Working /\ UNCHANGED <<setting, head, handled, deep>> /\ failed \subseteq failed'
  BY DEF SyncInv, JobThrows, Failed, At
<1>2. PICK j :
        /\ jobs' = [jobs EXCEPT ![w] = j] /\ JobFits(setting, handled, head, j)
        /\ j.msg = jobs[w].msg /\ j.step = "failed" /\ j.from = jobs[w].from
        /\ j.crawl = [jobs[w].crawl EXCEPT ![s] = Crawl("done", 0, 0)]
  BY <1>1, JobThrowsStep
<1>3. jobs'[w] = j /\ \A v \in Workers \ {w} : jobs'[v] = jobs[v]
  BY <1>1, <1>2, JobChange, HeadFacts
<1>4. ASSUME NEW t \in setting.services[j.msg.plugin]
      PROVE  CrawlCovers(setting, handled, Bound(deep, failed), j, t)
  <2>1. CrawlCovers(setting, handled, Bound(deep, failed), jobs[w], t)
    BY <1>1, <1>2 DEF SyncInv, JobsCover
  <2>2. t \in DOMAIN jobs[w].crawl
    BY <1>1, <1>2, JobFacts
  <2>3. j.crawl[t] = jobs[w].crawl[t] \/ j.crawl[t].at = "done"
    BY <1>2, <2>2 DEF Crawl
  <2> QED
    BY <1>2, <2>1, <2>3 DEF CrawlCovers
<1>5. Bound(deep', failed') \subseteq Bound(deep, failed)
  BY <1>1 DEF Bound
<1>6. \A t \in setting.services[jobs'[w].msg.plugin] :
        CrawlCovers(setting, handled', Bound(deep', failed'), jobs'[w], t)
  BY <1>1, <1>3, <1>4, <1>5, CrawlKept
<1> QED
  BY <1>1, <1>3, <1>6, JobCovers

\* A job whose crawls have all returned has handled what is owed.
LEMMA EndCrawlsCovers ==
  ASSUME SyncInv, NEW w \in Workers, EndCrawls(w)
  PROVE  JobsCover'
<1>1. /\ TypeInv /\ w \in Working /\ jobs[w].step = "crawl"
      /\ \A s \in DOMAIN jobs[w].crawl : At(w, s, "done")
      /\ UNCHANGED <<setting, head, handled, deep, failed>>
  BY DEF SyncInv, EndCrawls, ghosts
<1>2. PICK j :
        /\ jobs' = [jobs EXCEPT ![w] = j] /\ JobFits(setting, handled, head, j)
        /\ j.msg = jobs[w].msg /\ j.step = "ended" /\ j.from = jobs[w].from /\ j.crawl = jobs[w].crawl
  BY <1>1, EndCrawlsStep
<1>3. jobs'[w] = j /\ \A v \in Workers \ {w} : jobs'[v] = jobs[v]
  BY <1>1, <1>2, JobChange, HeadFacts
<1>4. ASSUME NEW t \in setting.services[j.msg.plugin]
      PROVE  CrawlCovers(setting, handled, Bound(deep, failed), j, t)
  <2>1. CrawlCovers(setting, handled, Bound(deep, failed), jobs[w], t)
    BY <1>1, <1>2 DEF SyncInv, JobsCover
  <2>2. t \in DOMAIN jobs[w].crawl
    BY <1>1, <1>2, JobFacts
  <2>3. jobs[w].crawl[t].at = "done"
    BY <1>1, <2>2 DEF At
  <2> QED
    BY <1>1, <1>2, <2>1, <2>3 DEF CrawlCovers
<1>5. \A t \in setting.services[jobs'[w].msg.plugin] :
        CrawlCovers(setting, handled', Bound(deep', failed'), jobs'[w], t)
  BY <1>1, <1>3, <1>4
<1> QED
  BY <1>1, <1>3, <1>5, JobCovers

\* What a finished job marks is handled; a job that is over owes nothing.
LEMMA FinishJobCovers ==
  ASSUME SyncInv, NEW w \in Workers, FinishJob(w) \/ MarkFails(w)
  PROVE  JobsCover' /\ MarksCover'
<1> DEFINE p == jobs[w].msg.plugin
<1>1. /\ TypeInv /\ w \in Working /\ jobs[w].step = "ended" /\ jobs' = [jobs EXCEPT ![w] = NoJob]
      /\ synced' \subseteq synced \union {p}
      /\ UNCHANGED <<setting, head, handled, deep>> /\ failed \subseteq failed'
  BY DEF SyncInv, FinishJob, MarkFails, Failed, ghosts
<1>2. jobs'[w] = NoJob /\ \A v \in Workers \ {w} : jobs'[v] = jobs[v]
  BY <1>1 DEF TypeInv, JobsType
<1>3. JobsCover'
  BY <1>1, <1>2, JobCovers
<1>4. \A s \in setting.services[p] : <<p, s>> \in Bound(deep, failed) => Debt(setting, p, s) \subseteq handled
  BY <1>1 DEF SyncInv, JobsCover, CrawlCovers
<1> HIDE DEF p
<1>5. Bound(deep', failed') \subseteq Bound(deep, failed)
  BY <1>1 DEF Bound
<1>6. MarksCover'
  BY <1>1, <1>4, <1>5 DEF SyncInv, MarksCover
<1> QED
  BY <1>3, <1>6

LEMMA ReceiveCovers ==
  ASSUME SyncInv, NEW q \in QueueNames, Receive(q)
  PROVE  JobsCover'
<1>1. PICK m \in Messages : Take(q, m) \/ DropActive(q, m)
  BY DEF Receive
<1>2. /\ TypeInv /\ Deliver(q, m) /\ head' \in head .. MaxHead
      /\ UNCHANGED <<setting, head, handled, deep, failed>>
  BY <1>1, HeadFacts DEF SyncInv, Take, DropActive, ghosts
<1>3. CASE Take(q, m)
  <2>1. PICK w \in Idle(q) : jobs' = [jobs EXCEPT ![w] = NewJob(m)]
    BY <1>3 DEF Take
  <2>2. w \in Workers
    BY <1>2, HeadFacts, SettingType DEF Idle
  <2>3. /\ m \in AskedIn(setting, handled) /\ NewJob(m).msg = m /\ NewJob(m).step = "crawl"
        /\ \A s \in setting.services[m.plugin] :
             NewJob(m).from[s] = First(setting, m.plugin, s) /\ NewJob(m).crawl[s].at = "begin"
    BY <1>2, DeliverType, NewJobType
  <2>4. jobs'[w] = NewJob(m) /\ \A v \in Workers \ {w} : jobs'[v] = jobs[v]
    BY <1>2, <2>1, <2>2 DEF TypeInv, JobsType
  <2>5. \A s \in setting.services[jobs'[w].msg.plugin] :
          CrawlCovers(setting, handled', Bound(deep', failed'), jobs'[w], s)
    BY <2>3, <2>4 DEF CrawlCovers
  <2> QED
    BY <1>2, <2>2, <2>4, <2>5, JobCovers
<1>4. CASE DropActive(q, m)
  BY <1>2, <1>4, SyncFrame DEF DropActive
<1> QED
  BY <1>1, <1>3, <1>4

-----------------------------------------------------------------------------
(* What a mark means: installations *)

\* Before its Applied log is handled a plugin has no job, no record and no mark,
\* so only the head decides whether its crawls come past it.
LEMMA HandleAppliedCovers ==
  ASSUME SyncInv, NEW l \in todo, HandleApplied(l)
  PROVE  RecordsCover' /\ DeepBelow' /\ JobsCover' /\ MarksCover'
<1> DEFINE p == chain[l].plugin
<1>1. TypeInv /\ Handling(l) /\ l \notin handled /\ setting.chain[l].kind = "Applied"
  BY DEF SyncInv, HandleApplied, chain
<1>2. /\ l \in LogsIn(setting) /\ p \in Plugins /\ setting \in Settings /\ handled \subseteq LogsIn(setting)
      /\ UNCHANGED <<setting, head, lastSync, jobs, failed>> /\ head \in Nat
  BY <1>1, HandlingFrame, HeadFacts DEF records, service
<1>3. /\ handled' = handled \union {l} /\ synced' = synced \ {p}
      /\ \A e \in deep' \ deep :
           \E s \in setting.services[p] : e = <<p, s>> /\ head > setting.chain[l].block + Depth(s)
      /\ deep \subseteq deep'
  BY DEF HandleApplied, Services, chain
<1>4. IsSetup(setting, l, "Applied", p)
  BY <1>1, <1>2 DEF IsSetup, chain
<1>5. ~AppliedIn(setting, handled, p)
  <2> SUFFICES ASSUME NEW k \in handled, IsSetup(setting, k, "Applied", p) PROVE FALSE
    BY DEF AppliedIn
  <2> QED
    BY <1>1, <1>2, <1>4, SetupOnce
<1> HIDE DEF p
<1>6. RecordsCover'
  BY <1>2, <1>3 DEF SyncInv, RecordsCover
<1>7. \A q : q # p => \A s : <<q, s>> \in deep' => <<q, s>> \in deep
  BY <1>3
<1>8. DeepBelow'
  <2> SUFFICES ASSUME NEW q \in Plugins, NEW s \in setting.services[q], <<q, s>> \in deep'
               PROVE  AppliedBefore(setting, q, head - Depth(s))
    BY <1>1, <1>2, DepthType DEF DeepBelow
  <2>1. CASE <<q, s>> \in deep
    BY <2>1 DEF SyncInv, DeepBelow
  <2>2. CASE <<q, s>> \notin deep
    <3>1. q = p /\ head > setting.chain[l].block + Depth(s)
      BY <1>3, <2>2
    <3>2. SetupBlocks(setting, p, "Applied") = {setting.chain[l].block} /\ setting.chain[l].block \in 1 .. MaxHead
      BY <1>2, <1>4, SetupBlock, SettingType
    <3>3. setting.chain[l].block \in Int /\ Depth(s) \in Int
      BY <1>1, <3>2, DepthType
    <3> QED
      BY <1>2, <3>1, <3>2, <3>3 DEF AppliedBefore
  <2> QED
    BY <2>1, <2>2
<1>9. JobsCover'
  <2> SUFFICES ASSUME NEW w \in Working, NEW s \in setting.services[jobs[w].msg.plugin]
               PROVE  CrawlCovers(setting, handled', Bound(deep', failed), jobs[w], s)
    BY <1>2 DEF JobsCover, Working
  <2>1. CrawlCovers(setting, handled, Bound(deep, failed), jobs[w], s)
    BY DEF SyncInv, JobsCover
  <2>2. jobs[w].msg.plugin # p
    BY <1>1, <1>5, JobFacts DEF Working
  <2>3. <<jobs[w].msg.plugin, s>> \in Bound(deep', failed) => <<jobs[w].msg.plugin, s>> \in Bound(deep, failed)
    BY <1>7, <2>2 DEF Bound
  <2> QED
    BY <1>3, <2>1, <2>3, CrawlKept
<1>10. MarksCover'
  <2> SUFFICES ASSUME NEW q \in synced \ {p}, NEW s \in setting.services[q], <<q, s>> \in Bound(deep', failed)
               PROVE  Debt(setting, q, s) \subseteq handled'
    BY <1>2, <1>3 DEF MarksCover
  <2>1. <<q, s>> \in Bound(deep, failed)
    BY <1>7 DEF Bound
  <2> QED
    BY <1>3, <2>1 DEF SyncInv, MarksCover
<1> QED
  BY <1>6, <1>8, <1>9, <1>10

LEMMA HandleLogCovers == SyncInv /\ HandleLog => RecordsCover' /\ DeepBelow' /\ JobsCover' /\ MarksCover'
<1> SUFFICES ASSUME SyncInv, NEW l \in todo,
                    \/ HandlePassedOver(l) \/ HandleActivity(l)
                    \/ HandlePrepared(l) \/ HandleApplied(l) \/ HandleUninstalled(l)
             PROVE  RecordsCover' /\ DeepBelow' /\ JobsCover' /\ MarksCover'
  BY DEF HandleLog
<1>1. CASE HandleApplied(l)
  BY <1>1, HandleAppliedCovers
<1>2. ASSUME ~HandleApplied(l)
      PROVE  RecordsCover' /\ DeepBelow' /\ JobsCover' /\ MarksCover'
  <2>1. Handling(l) /\ handled \subseteq handled' /\ UNCHANGED <<synced, deep>> /\ TypeInv
    BY <1>2 DEF SyncInv, HandlePassedOver, HandleActivity, HandlePrepared, HandleUninstalled
  <2>2. UNCHANGED <<setting, head, lastSync, jobs, failed>> /\ head' \in head .. MaxHead
    BY <2>1, HandlingFrame, HeadFacts DEF records, service
  <2> QED
    BY <2>1, <2>2, SyncFrame
<1> QED
  BY <1>1, <1>2

-----------------------------------------------------------------------------

LEMMA NextSyncInv == SyncInv /\ [Next]_vars => SyncInv'
<1> SUFFICES ASSUME SyncInv, [Next]_vars
             PROVE  RecordsCover' /\ DeepBelow' /\ JobsCover' /\ MarksCover'
  BY NextTypeInv DEF SyncInv
<1>1. TypeInv /\ head \in head .. MaxHead
  BY HeadFacts DEF SyncInv
<1> DEFINE Framed == /\ UNCHANGED <<setting, deep>> /\ head' \in head .. MaxHead
                     /\ handled \subseteq handled' /\ failed \subseteq failed'
<1>2. CASE \/ Mine \/ StartIndexer \/ BeginCrawl \/ SaveProgress \/ Backfill \/ SendMessage \/ StartPolling
           \/ PollFails \/ SendFails \/ CrashIndexer \/ UNCHANGED vars
           \/ \E p \in Plugins : SyncAll(p) \/ Requeue(p)
  <2>1. ASSUME Mine
        PROVE  Framed /\ UNCHANGED <<lastSync, jobs, synced>>
    <3>1. head' \in head .. MaxHead
      BY <1>1, <2>1, HeadFacts DEF Mine
    <3> QED
      BY <2>1, <3>1 DEF Mine, records, service, ghosts
  <2>2. ASSUME StartIndexer \/ SendMessage \/ SendFails \/ StartPolling \/ PollFails \/ CrashIndexer
        PROVE  Framed /\ UNCHANGED <<lastSync, jobs, synced>>
    BY <1>1, <2>2 DEF StartIndexer, SendMessage, SendFails, StartPolling, PollFails, CrashIndexer,
       Failed, records, service, ghosts
  <2>3. ASSUME BeginCrawl
        PROVE  Framed /\ UNCHANGED <<lastSync, jobs, synced>>
    BY <1>1, <2>3 DEF BeginCrawl, records, service, ghosts
  <2>4. ASSUME SaveProgress
        PROVE  Framed /\ UNCHANGED <<lastSync, jobs, synced>>
    BY <1>1, <2>4 DEF SaveProgress, records, service, ghosts
  <2>5. ASSUME Backfill
        PROVE  Framed /\ UNCHANGED <<lastSync, jobs, synced>>
    BY <1>1, <2>5 DEF Backfill, records, service, ghosts
  <2>6. ASSUME UNCHANGED vars \/ \E p \in Plugins : SyncAll(p) \/ Requeue(p)
        PROVE  Framed /\ UNCHANGED <<lastSync, jobs, synced>>
    BY <1>1, <2>6 DEF SyncAll, Requeue, vars, records, service, ghosts
  <2>7. Framed /\ UNCHANGED <<lastSync, jobs, synced>>
    BY <1>2, <2>2, <2>3, <2>4, <2>5, <2>6, <2>1
  <2> QED
    BY <2>7, SyncFrame
<1>3. CASE HandleLog
  BY <1>3, HandleLogCovers
<1>4. CASE \E q \in QueueNames : Receive(q)
  <2>1. Framed /\ UNCHANGED <<lastSync, synced>>
    BY <1>1, <1>4 DEF Receive, Take, DropActive, records, ghosts
  <2> QED
    BY <1>4, <2>1, SyncFrame, ReceiveCovers
<1>5. ASSUME NEW w \in Workers, WorkerStep(w) \/ MarkFails(w)
      PROVE  RecordsCover' /\ DeepBelow' /\ JobsCover' /\ MarksCover'
  <2>1. ASSUME NEW s \in ServiceNames, BeginPluginCrawl(w, s)
        PROVE  RecordsCover' /\ DeepBelow' /\ JobsCover' /\ MarksCover'
    <3>1. Framed /\ UNCHANGED <<lastSync, synced>>
      BY <1>1, <2>1 DEF BeginPluginCrawl, records, ghosts
    <3> QED
      BY <2>1, <3>1, SyncFrame, BeginPluginCrawlCovers
  <2>2. ASSUME NEW s \in ServiceNames, CrawlRange(w, s)
        PROVE  RecordsCover' /\ DeepBelow' /\ JobsCover' /\ MarksCover'
    <3>1. RecordsCover' /\ JobsCover' /\ handled \subseteq handled'
      BY <2>2, CrawlRangeCovers
    <3>2. Framed /\ UNCHANGED synced
      BY <1>1, <2>2, <3>1 DEF CrawlRange, ghosts
    <3> QED
      BY <3>1, <3>2, SyncFrame
  <2>3. CASE EndCrawls(w)
    <3>1. Framed /\ UNCHANGED <<lastSync, synced>>
      BY <1>1, <2>3 DEF EndCrawls, ghosts
    <3> QED
      BY <2>3, <3>1, SyncFrame, EndCrawlsCovers
  <2>4. CASE FinishJob(w) \/ MarkFails(w)
    <3>1. Framed /\ UNCHANGED lastSync
      BY <1>1, <2>4 DEF FinishJob, MarkFails, Failed, records, ghosts
    <3> QED
      BY <2>4, <3>1, SyncFrame, FinishJobCovers
  <2> QED
    BY <1>5, <2>1, <2>2, <2>3, <2>4 DEF WorkerStep
<1>6. ASSUME NEW w \in Workers, NEW s \in ServiceNames, CrawlFails(w, s) \/ JobThrows(w, s)
      PROVE  RecordsCover' /\ DeepBelow' /\ JobsCover' /\ MarksCover'
  <2>1. Framed /\ UNCHANGED <<lastSync, synced>>
    BY <1>1, <1>6 DEF CrawlFails, JobThrows, Failed, records
  <2> QED
    BY <1>6, <2>1, SyncFrame, CrawlFailsCovers, JobThrowsCovers
<1>7. CASE CrashWorkers
  <2>1. Framed /\ UNCHANGED <<lastSync, synced>> /\ Working' = {}
    BY <1>1, <1>7 DEF CrashWorkers, records, ghosts, Working, NoJob
  <2>2. JobsCover'
    BY <2>1 DEF JobsCover
  <2> QED
    BY <2>1, <2>2, SyncFrame
<1> QED
  BY <1>2, <1>3, <1>4, <1>5, <1>6, <1>7 DEF Next, IndexerStep

\* Whatever the history, however many workers take messages in whatever order,
\* and however often a process dies or a message is repeated or lost: where a
\* plugin is marked as synchronised, its installation was found deep enough in
\* the chain and no crawl of it failed, every log it had when it was installed
\* is handled.
THEOREM MarkedIsSynced == Spec => []SyncedUnlessFailed
BY InitSyncInv, NextSyncInv, SyncInvMarks, PTL DEF Spec
=============================================================================
