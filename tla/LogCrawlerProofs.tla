-------------------------- MODULE LogCrawlerProofs --------------------------
(***************************************************************************)
(* Proofs about LogCrawler, for every number of crawlers, every set of      *)
(* logs, every batch size, fault set and configuration.                     *)
(***************************************************************************)
EXTENDS LogCrawler, TLAPS

USE ChainAssumption, CrawlerConstants

\* A log is a pair of naturals.
LEMMA LogType == \A l \in Logs : l[1] \in Nat /\ l[2] \in Nat
  OBVIOUS

LEMMA Min2Type == \A a, b \in Nat : Min2(a, b) \in Nat /\ Min2(a, b) <= b
  BY DEF Min2

LEMMA Max2Type == \A a, b \in Int : Max2(a, b) \in Int /\ Max2(a, b) >= b
                                    /\ Max2(a, b) >= a /\ Max2(a, b) \in {a, b}
  BY DEF Max2

\* The range a round asks for starts at currentBlock and is never empty.
LEMMA ToBlockType ==
  ASSUME TypeOK, NEW c \in Crawlers, NEW s \in Strategies, NEW n \in 0 .. 2,
         NEW size \in BatchSizes, cur[c] <= latest[c]
  PROVE  /\ ToBlock(c, s, n, size) \in Nat
         /\ cur[c] <= ToBlock(c, s, n, size)
         /\ ToBlock(c, s, n, size) <= latest[c]
  <1>1. cur[c] \in Nat /\ latest[c] \in Nat /\ size \in Nat \ {0}
    BY DEF TypeOK
  <1>2. CASE s = "receipts"
    BY <1>1, <1>2 DEF ToBlock
  <1>3. CASE s = "withoutTopics"
    BY <1>1, <1>3 DEF ToBlock, Min2
  <1>4. CASE s = "batch"
    BY <1>1, <1>4 DEF ToBlock, Min2
  <1> QED BY <1>2, <1>3, <1>4 DEF Strategies

LEMMA StrategyType ==
  ASSUME TypeOK
  PROVE  /\ \A c \in Crawlers : CurrentStrategy(c) \in Strategies
         /\ \A a, b : GetStrategyBySituation(a, b) \in Strategies
  BY DEF TypeOK, CurrentStrategy, GetStrategyBySituation, Strategies

LEMMA EligibleType ==
  ASSUME TypeOK
  PROVE  \A c \in Crawlers : Eligible(c) \subseteq todo[c] /\ todo[c] \subseteq Logs
  BY DEF TypeOK, Eligible, CurrentGroup, FirstOf

-----------------------------------------------------------------------------
(* Type correctness *)

LEMMA TypeInit == Init => TypeOK
  <1> SUFFICES ASSUME Init PROVE TypeOK
    OBVIOUS
  <1> USE DEF Init
  <1>1. head \in Nat /\ lastSync \in Nat /\ faults \in Nat
    OBVIOUS
  <1>2. exists \in BOOLEAN /\ ended \in BOOLEAN
    OBVIOUS
  <1>3. pc \in [Crawlers -> Places] /\ strategy \in [Crawlers -> Strategies]
    BY DEF Places, Strategies
  <1>4. /\ run \in [Crawlers -> 0 .. 2] /\ cur \in [Crawlers -> Nat]
        /\ latest \in [Crawlers -> Nat] /\ to \in [Crawlers -> Nat]
        /\ todo \in [Crawlers -> SUBSET Logs]
    OBVIOUS
  <1> QED BY <1>1, <1>2, <1>3, <1>4 DEF TypeOK

\* The variables that leaving the loop, or going on in it, assigns.
LEMMA NextRangeType ==
  ASSUME TypeOK, NEW c \in Crawlers, NextRange(c)
  PROVE  /\ cur' \in [Crawlers -> Nat] /\ pc' \in [Crawlers -> Places]
         /\ crawling' \subseteq Crawlers /\ todo' \in [Crawlers -> SUBSET Logs]
  <1>1. to[c] + 1 \in Nat
    BY DEF TypeOK
  <1>2. cur' \in [Crawlers -> Nat]
    BY <1>1 DEF NextRange, TypeOK
  <1>3. CASE c \in shutdown \/ to[c] + 1 >= latest[c]
    BY <1>2, <1>3 DEF NextRange, Return, TypeOK, Places
  <1>4. CASE ~(c \in shutdown \/ to[c] + 1 >= latest[c])
    BY <1>2, <1>4 DEF NextRange, TypeOK, Places
  <1> QED BY <1>3, <1>4

LEMMA TypeNext == TypeOK /\ [Next]_vars => TypeOK'
  <1> SUFFICES ASSUME TypeOK, [Next]_vars PROVE TypeOK'
    OBVIOUS
  <1> USE DEF TypeOK, Places
  <1>1. CASE UNCHANGED vars
    BY <1>1 DEF vars, store, effects, instance, window
  <1>2. CASE Mine
    BY <1>2 DEF Mine, store, effects, instance, window
  <1>3. ASSUME NEW c \in Crawlers, Crawl(c) PROVE TypeOK'
    BY <1>3 DEF Crawl, store, effects, window
  <1>4. ASSUME NEW c \in Crawlers, GetStartingBlock(c) PROVE TypeOK'
    BY <1>4 DEF GetStartingBlock, store, effects, instance
  <1>5. ASSUME NEW c \in Crawlers, GetLatestBlock(c) PROVE TypeOK'
    <2>1. \A b \in Max2(head - MaxLag, 0) .. head : b \in Nat
      BY Max2Type
    <2>2. \A a, b : GetStrategyBySituation(a, b) \in Strategies
      BY StrategyType
    <2> QED BY <1>5, <2>1, <2>2 DEF GetLatestBlock, Return, store, effects
  <1>6. ASSUME NEW c \in Crawlers, LoopEnds(c) PROVE TypeOK'
    BY <1>6 DEF LoopEnds, Return, store, effects, window
  <1>7. ASSUME NEW c \in Crawlers, FetchLogs(c) PROVE TypeOK'
    <2>1. CurrentStrategy(c) \in Strategies
      BY StrategyType
    <2>2. run'[c] \in 0 .. 2 /\ run' \in [Crawlers -> 0 .. 2]
      BY <1>7 DEF FetchLogs, Min2
    <2>3. cur[c] <= latest[c]
      BY <1>7 DEF FetchLogs, LoopCondition
    <2>4. to' \in [Crawlers -> Nat]
      BY <1>7, <2>1, <2>2, <2>3, ToBlockType DEF FetchLogs
    <2>5. LogsIn(cur[c], to'[c]) \subseteq Logs
      BY DEF LogsIn
    <2> QED BY <1>7, <2>1, <2>2, <2>4, <2>5 DEF FetchLogs, Return, store, effects
  <1>8. ASSUME NEW c \in Crawlers, HandleLog(c) PROVE TypeOK'
    BY <1>8, EligibleType DEF HandleLog, store, instance, window
  <1>9. ASSUME NEW c \in Crawlers, SaveProgressFind(c) PROVE TypeOK'
    BY <1>9 DEF SaveProgressFind, store, effects, instance, window
  <1>10. ASSUME NEW c \in Crawlers, SaveProgressUpdate(c) PROVE TypeOK'
    <2>1. lastSync' \in Nat
      BY <1>10, Max2Type DEF SaveProgressUpdate
    <2> QED BY <1>10, <2>1, NextRangeType DEF SaveProgressUpdate, effects
  <1>11. ASSUME NEW c \in Crawlers, SaveProgressCreate(c) PROVE TypeOK'
    <2>1. CASE ~exists
      BY <1>11, <2>1, NextRangeType DEF SaveProgressCreate, effects
    <2>2. CASE exists
      BY <1>11, <2>2 DEF SaveProgressCreate, CatchError, Return, effects
    <2> QED BY <2>1, <2>2
  <1>12. ASSUME NEW c \in Crawlers, MarkAsEnded(c) PROVE TypeOK'
    BY <1>12 DEF MarkAsEnded, effects, instance, window
  <1>13. ASSUME NEW c \in Crawlers, Requeue(c) PROVE TypeOK'
    BY <1>13 DEF Requeue, NewInstance, store, effects, window
  <1>14. ASSUME NEW c \in Crawlers, StartFails(c) PROVE TypeOK'
    BY <1>14 DEF StartFails, Fault, store, effects, instance, window
  <1>15. ASSUME NEW c \in Crawlers, FetchFails(c) PROVE TypeOK'
    <2>1. CurrentStrategy(c) \in Strategies
      BY StrategyType
    <2>2. run' \in [Crawlers -> 0 .. 2]
      BY <1>15 DEF FetchFails, Min2
    <2> QED BY <1>15, <2>1, <2>2 DEF FetchFails, Fault, CatchError, Return, store, effects
  <1>16. ASSUME NEW c \in Crawlers, RateLimited(c) PROVE TypeOK'
    BY <1>16 DEF RateLimited, Fault, store, effects, window
  <1>17. ASSUME NEW c \in Crawlers, HandlerFails(c) PROVE TypeOK'
    BY <1>17, EligibleType DEF HandlerFails, Fault, CatchError, Return, store
  <1>18. ASSUME NEW c \in Crawlers, SaveFails(c) PROVE TypeOK'
    BY <1>18 DEF SaveFails, Fault, CatchError, Return, store, effects
  <1>19. ASSUME NEW c \in Crawlers, Crash(c) PROVE TypeOK'
    BY <1>19 DEF Crash, Fault, NewInstance, store, effects, window
  <1> QED
    BY <1>1, <1>2, <1>3, <1>4, <1>5, <1>6, <1>7, <1>8, <1>9, <1>10, <1>11,
       <1>12, <1>13, <1>14, <1>15, <1>16, <1>17, <1>18, <1>19
       DEF Next, Step, Environment

\* Every variable of the crawler keeps its type.
THEOREM TypeCorrect == Spec => []TypeOK
  BY TypeInit, TypeNext, PTL DEF Spec

-----------------------------------------------------------------------------
(* The cursor never passes an unsettled log *)

LEMMA EmptyRange == \A a \in Nat : LogsIn(a, a - 1) = {}
  BY LogType DEF LogsIn

\* Of the logs left there is at most one that comes before all the others.
LEMMA FirstUnique ==
  ASSUME NEW S \in SUBSET Logs, NEW l \in FirstOf(S), NEW m \in FirstOf(S)
  PROVE  l = m
  BY LogType DEF FirstOf, Before

\* A handler called for one log at a time drops that log alone.
LEMMA SingleChunk ==
  ASSUME TypeOK, NEW c \in Crawlers, ~UseBatch,
         NEW chunk \in SUBSET Eligible(c), NEW l \in chunk
  PROVE  chunk = {l}
  <1> SUFFICES ASSUME NEW m \in chunk PROVE m = l
    OBVIOUS
  <1>1. l \in FirstOf(todo[c]) /\ m \in FirstOf(todo[c])
    BY DEF Eligible
  <1> QED BY <1>1, EligibleType, FirstUnique

\* A crawler whose window is left alone stays covered while logs are settled.
LEMMA CoversFrame ==
  ASSUME NEW d \in Crawlers, Covers(d), Settled \subseteq Settled', exists => exists',
         pc'[d] = pc[d], cur'[d] = cur[d], to'[d] = to[d], todo'[d] = todo[d]
  PROVE  Covers(d)'
  BY DEF Covers, LogsIn

\* When logs are taken from a covered window, what is left of the window stays
\* covered.
LEMMA CoversTake ==
  ASSUME NEW c \in Crawlers, Covers(c), pc[c] = "process", pc' = pc,
         cur' = cur, to' = to, NEW S \in SUBSET todo[c],
         todo'[c] = todo[c] \ S, Settled' = Settled \union S
  PROVE  Covers(c)'
  BY DEF Covers, LogsIn

\* In a covered window, the first log left has all its predecessors settled.
LEMMA FirstIsReady ==
  ASSUME TypeOK, NEW c \in Crawlers, Covers(c), pc[c] = "process",
         NEW l \in FirstOf(todo[c])
  PROVE  Predecessors(l) \subseteq Settled
  <1> SUFFICES ASSUME NEW m \in Predecessors(l) PROVE m \in Settled
    OBVIOUS
  <1>1. /\ m \in Logs /\ InitialBlock <= m[1] /\ Before(m, l)
        /\ l \in todo[c] /\ l \in Logs
    BY DEF Predecessors, FirstOf, TypeOK
  <1>2. cur[c] \in Nat /\ to[c] \in Nat
    BY DEF TypeOK
  <1>3. l[1] <= to[c]
    BY <1>1 DEF Covers, LogsIn
  <1>4. CASE m[1] < cur[c]
    BY <1>1, <1>2, <1>4, LogType DEF Covers, LogsIn
  <1>5. CASE cur[c] <= m[1]
    <2>1. m \in LogsIn(cur[c], to[c])
      BY <1>1, <1>2, <1>3, <1>5, LogType DEF LogsIn, Before
    <2>2. m \notin todo[c]
      BY <1>1, LogType DEF FirstOf, Before
    <2> QED BY <2>1, <2>2 DEF Covers
  <1> QED BY <1>1, <1>2, <1>4, <1>5, LogType

\* The windows of all crawlers but c are left alone.
OthersKept(c) ==
  \A d \in Crawlers \ {c} :
    pc'[d] = pc[d] /\ cur'[d] = cur[d] /\ to'[d] = to[d] /\ todo'[d] = todo[d]

\* A step that neither settles a log nor saves progress only has to keep its
\* own window covered.
LEMMA QuietStep ==
  ASSUME CrawlInv, NEW c \in Crawlers, UNCHANGED <<effects, exists, lastSync>>,
         OthersKept(c), Covers(c)'
  PROVE  CrawlInv'
  <1>1. Settled' = Settled /\ handled' = handled /\ dropped' = dropped
    BY DEF Settled, effects
  <1>2. \A d \in Crawlers \ {c} : Covers(d)'
    BY <1>1, CoversFrame DEF OthersKept, CrawlInv
  <1>3. CursorCovers' /\ ChainOrder'
    BY <1>1 DEF CrawlInv, CursorCovers, ChainOrder, LogsIn, Predecessors
  <1> QED BY <1>2, <1>3 DEF CrawlInv

\* Leaving or repeating a round keeps the window's prefix.
LEMMA CatchKeeps ==
  ASSUME TypeOK, CrawlInv, NEW c \in Crawlers, NEW r, CatchError(c, r),
         UNCHANGED <<effects, cur, to>>,
         pc[c] \in {"loop", "process", "update", "create"}
  PROVE  OthersKept(c) /\ Covers(c)'
  <1>1. pc'[c] \in {"loop", "end", "idle"}
    BY DEF CatchError, Return, TypeOK
  <1>2. OthersKept(c)
    BY DEF CatchError, Return, OthersKept, TypeOK
  <1>3. Covers(c)'
    BY <1>1 DEF CrawlInv, Covers, Settled, effects, LogsIn
  <1> QED BY <1>2, <1>3

LEMMA InvInit == Init => CrawlInv
  <1> SUFFICES ASSUME Init PROVE CrawlInv
    OBVIOUS
  <1>1. CursorCovers /\ ChainOrder
    BY DEF Init, CursorCovers, ChainOrder, Settled
  <1>2. \A c \in Crawlers : Covers(c)
    BY DEF Init, Covers
  <1> QED BY <1>1, <1>2 DEF CrawlInv, Init

\* Steps of the crawl loop that touch neither the database nor the effects.
LEMMA InvQuiet ==
  ASSUME TypeOK, CrawlInv, NEW c \in Crawlers,
         \/ Crawl(c) \/ GetStartingBlock(c) \/ GetLatestBlock(c) \/ LoopEnds(c)
         \/ FetchLogs(c) \/ SaveProgressFind(c) \/ MarkAsEnded(c) \/ Requeue(c)
         \/ StartFails(c) \/ FetchFails(c) \/ RateLimited(c) \/ SaveFails(c)
         \/ Crash(c)
  PROVE  CrawlInv'
  <1>1. CASE Crawl(c)
    <2>1. OthersKept(c) /\ pc'[c] = "start"
      BY <1>1 DEF Crawl, OthersKept, TypeOK, window
    <2>2. Covers(c)'
      BY <2>1 DEF Covers
    <2> QED BY <1>1, <2>1, <2>2, QuietStep DEF Crawl, store
  <1>2. CASE GetStartingBlock(c)
    <2>1. OthersKept(c) /\ pc'[c] = "head"
      BY <1>2 DEF GetStartingBlock, OthersKept, TypeOK
    <2>2. cur'[c] = IF exists THEN lastSync ELSE InitialBlock
      BY <1>2 DEF GetStartingBlock, TypeOK
    <2>3. Settled' = Settled
      BY <1>2 DEF GetStartingBlock, Settled, effects
    <2>4. InitialBlock <= cur'[c] /\ LogsIn(InitialBlock, cur'[c] - 1) \subseteq Settled
      <3>1. CASE exists
        BY <2>2, <3>1, LogType DEF CrawlInv, CursorCovers, LogsIn, TypeOK
      <3>2. CASE ~exists
        <4>1. cur'[c] = InitialBlock
          BY <2>2, <3>2
        <4> QED BY <4>1, EmptyRange
      <3> QED BY <3>1, <3>2
    <2>5. Covers(c)'
      BY <2>1, <2>3, <2>4 DEF Covers, LogsIn
    <2> QED BY <1>2, <2>1, <2>5, QuietStep DEF GetStartingBlock, store
  <1>3. CASE GetLatestBlock(c)
    <2>1. /\ OthersKept(c) /\ pc[c] = "head" /\ cur' = cur
          /\ pc'[c] \in {"loop", "end", "idle"}
      BY <1>3 DEF GetLatestBlock, Return, OthersKept, TypeOK
    <2>2. Covers(c)'
      BY <1>3, <2>1 DEF GetLatestBlock, Covers, CrawlInv, Settled, effects, LogsIn
    <2> QED BY <1>3, <2>1, <2>2, QuietStep DEF GetLatestBlock, store
  <1>4. CASE LoopEnds(c)
    <2>1. OthersKept(c) /\ pc'[c] \in {"end", "idle"}
      BY <1>4 DEF LoopEnds, Return, OthersKept, TypeOK, window
    <2>2. Covers(c)'
      BY <2>1 DEF Covers
    <2> QED BY <1>4, <2>1, <2>2, QuietStep DEF LoopEnds, store
  <1>5. CASE FetchLogs(c)
    <2>1. /\ OthersKept(c) /\ pc[c] = "loop" /\ cur' = cur /\ Settled' = Settled
          /\ pc'[c] \in {"process", "end", "idle"}
      BY <1>5 DEF FetchLogs, Return, OthersKept, TypeOK, Settled, effects
    <2>2. CASE pc'[c] # "process"
      <3>1. pc'[c] \in {"end", "idle"}
        BY <2>1, <2>2
      <3> QED BY <3>1, <1>5, <2>1, QuietStep DEF Covers, FetchLogs, store
    <2>3. CASE pc'[c] = "process"
      <3>1. todo'[c] = LogsIn(cur[c], to'[c])
        BY <1>5, <2>3 DEF FetchLogs, Return, TypeOK
      <3>2. cur[c] <= to'[c]
        <4>1. cur[c] <= latest[c] /\ CurrentStrategy(c) \in Strategies
          BY <1>5, StrategyType DEF FetchLogs, LoopCondition
        <4>2. run'[c] \in 0 .. 2
          BY <1>5 DEF FetchLogs, Min2, TypeOK
        <4>3. PICK size \in BatchSizes :
                to'[c] = ToBlock(c, CurrentStrategy(c), run'[c], size)
          BY <1>5 DEF FetchLogs, TypeOK
        <4> QED BY <4>1, <4>2, <4>3, ToBlockType
      <3>3. InitialBlock <= cur[c] /\ LogsIn(InitialBlock, cur[c] - 1) \subseteq Settled
        BY <2>1 DEF Covers, CrawlInv
      <3>4. Covers(c)'
        BY <2>1, <2>3, <3>1, <3>2, <3>3 DEF Covers, LogsIn
      <3> QED BY <1>5, <2>1, <3>4, QuietStep DEF FetchLogs, store
    <2> QED BY <2>2, <2>3
  <1>6. CASE SaveProgressFind(c)
    <2>1. /\ OthersKept(c) /\ pc[c] = "process" /\ todo[c] = {}
          /\ UNCHANGED <<cur, to, todo>> /\ Settled' = Settled
          /\ pc'[c] = (IF exists THEN "update" ELSE "create") /\ exists' = exists
      BY <1>6 DEF SaveProgressFind, store, OthersKept, TypeOK, window, Settled, effects
    <2>2. Covers(c)'
      BY <2>1 DEF Covers, CrawlInv, LogsIn
    <2> QED BY <1>6, <2>1, <2>2, QuietStep DEF SaveProgressFind, store
  <1>7. CASE MarkAsEnded(c)
    <2>1. OthersKept(c) /\ pc'[c] = "done"
      BY <1>7 DEF MarkAsEnded, OthersKept, TypeOK, window
    <2> QED BY <1>7, <2>1, QuietStep DEF MarkAsEnded, Covers
  <1>8. CASE Requeue(c)
    <2>1. OthersKept(c) /\ pc'[c] = "idle"
      BY <1>8 DEF Requeue, OthersKept, TypeOK, window
    <2> QED BY <1>8, <2>1, QuietStep DEF Requeue, store, Covers
  <1>9. CASE StartFails(c)
    <2>1. OthersKept(c) /\ pc'[c] \in {"done", "idle"}
      BY <1>9 DEF StartFails, OthersKept, TypeOK, window
    <2> QED BY <1>9, <2>1, QuietStep DEF StartFails, store, Covers
  <1>10. CASE FetchFails(c)
    <2>1. CASE CurrentStrategy(c) = "withoutTopics"
      <3>1. PICK r \in BOOLEAN : CatchError(c, r)
        BY <1>10, <2>1 DEF FetchFails
      <3>2. OthersKept(c) /\ Covers(c)'
        BY <1>10, <3>1, CatchKeeps DEF FetchFails
      <3> QED BY <1>10, <3>2, QuietStep DEF FetchFails, store
    <2>2. CASE CurrentStrategy(c) # "withoutTopics"
      <3>1. OthersKept(c) /\ pc'[c] \in {"end", "idle"}
        BY <1>10, <2>2 DEF FetchFails, Return, OthersKept, TypeOK
      <3> QED BY <1>10, <3>1, QuietStep DEF FetchFails, store, Covers
    <2> QED BY <2>1, <2>2
  <1>11. CASE RateLimited(c)
    <2>1. /\ OthersKept(c) /\ UNCHANGED <<pc, cur, to, todo, exists>>
          /\ Settled' = Settled
      BY <1>11 DEF RateLimited, OthersKept, window, store, Settled, effects
    <2>2. Covers(c)'
      BY <2>1 DEF Covers, CrawlInv, LogsIn
    <2> QED BY <1>11, <2>1, <2>2, QuietStep DEF RateLimited, store
  <1>12. CASE SaveFails(c)
    <2>1. PICK r \in BOOLEAN : CatchError(c, r)
      BY <1>12 DEF SaveFails
    <2>2. OthersKept(c) /\ Covers(c)'
      BY <1>12, <2>1, CatchKeeps DEF SaveFails
    <2> QED BY <1>12, <2>2, QuietStep DEF SaveFails, store
  <1>13. CASE Crash(c)
    <2>1. OthersKept(c) /\ pc'[c] = "idle"
      BY <1>13 DEF Crash, OthersKept, TypeOK, window
    <2> QED BY <1>13, <2>1, QuietStep DEF Crash, store, Covers
  <1> QED BY <1>1, <1>2, <1>3, <1>4, <1>5, <1>6, <1>7, <1>8, <1>9, <1>10,
             <1>11, <1>12, <1>13

\* Settling logs whose predecessors are settled keeps cursor and order.
LEMMA SettleStep ==
  ASSUME CrawlInv, NEW S \in SUBSET Logs, Settled' = Settled \union S,
         StopOnError => dropped' = {},
         ~UseBatch => \E l \in Logs : S = {l} /\ Predecessors(l) \subseteq Settled,
         UNCHANGED <<exists, lastSync>>
  PROVE  CursorCovers' /\ ChainOrder' /\ (exists => InitialBlock <= lastSync)'
  BY DEF CrawlInv, CursorCovers, ChainOrder, LogsIn, Predecessors

LEMMA InvHandle ==
  ASSUME TypeOK, CrawlInv, NEW c \in Crawlers, HandleLog(c)
  PROVE  CrawlInv'
  <1>1. PICK l \in Eligible(c) : /\ handled' = handled \union {l}
                                 /\ todo' = [todo EXCEPT ![c] = @ \ {l}]
    BY DEF HandleLog
  <1>2. /\ pc[c] = "process" /\ UNCHANGED <<pc, cur, to, dropped, exists, lastSync>>
        /\ l \in todo[c] /\ l \in Logs
        /\ todo'[c] = todo[c] \ {l}
        /\ \A d \in Crawlers \ {c} : todo'[d] = todo[d]
    BY <1>1, EligibleType DEF HandleLog, window, store, TypeOK
  <1>3. Settled' = Settled \union {l}
    BY <1>1, <1>2 DEF Settled
  <1>4. Covers(c) /\ \A d \in Crawlers : Covers(d)
    BY DEF CrawlInv
  <1>5. ~UseBatch => Predecessors(l) \subseteq Settled
    BY <1>1, <1>2, <1>4, FirstIsReady DEF Eligible
  <1>6. StopOnError => dropped' = {}
    BY <1>2 DEF CrawlInv, CursorCovers
  <1>7. Covers(c)'
    <2>1. {l} \in SUBSET todo[c]
      BY <1>2
    <2> QED BY <1>2, <1>3, <1>4, <2>1, CoversTake
  <1>8. \A d \in Crawlers \ {c} : Covers(d)'
    BY <1>2, <1>3, <1>4, CoversFrame
  <1>9. CursorCovers' /\ ChainOrder' /\ (exists => InitialBlock <= lastSync)'
    <2>1. {l} \in SUBSET Logs
      BY <1>2
    <2> QED BY <1>2, <1>3, <1>5, <1>6, <2>1, SettleStep
  <1> QED BY <1>7, <1>8, <1>9 DEF CrawlInv

LEMMA InvHandlerFails ==
  ASSUME TypeOK, CrawlInv, NEW c \in Crawlers, HandlerFails(c)
  PROVE  CrawlInv'
  <1>1. /\ pc[c] = "process" /\ UNCHANGED <<cur, to, exists, lastSync>>
        /\ Covers(c) /\ \A d \in Crawlers : Covers(d)
    BY DEF HandlerFails, store, CrawlInv
  <1>2. CASE StopOnError
    <2>1. PICK l \in Eligible(c) :
            /\ CatchError(c, FALSE) /\ dropped' = dropped
            /\ \E running \in SUBSET (Eligible(c) \ {l}) :
                 handled' = handled \union running
      BY <1>2 DEF HandlerFails
    <2>2. PICK running \in SUBSET (Eligible(c) \ {l}) :
            handled' = handled \union running
      BY <2>1
    <2>3. Settled' = Settled \union running /\ dropped' = dropped
      BY <2>1, <2>2 DEF Settled
    <2>4. ~UseBatch => running = {}
      <3> SUFFICES ASSUME ~UseBatch, NEW m \in running PROVE FALSE
        OBVIOUS
      <3>1. l \in FirstOf(todo[c]) /\ m \in FirstOf(todo[c]) /\ l # m
        BY <2>1, <2>2 DEF Eligible
      <3> QED BY <3>1, EligibleType, FirstUnique
    <2>5. CursorCovers' /\ ChainOrder' /\ (exists => InitialBlock <= lastSync)'
      BY <1>1, <2>3, <2>4
         DEF CrawlInv, CursorCovers, ChainOrder, LogsIn, Predecessors
    <2>6. pc'[c] \in {"end", "idle"} /\ OthersKept(c)
      BY <1>1, <1>2, <2>1 DEF CatchError, Return, OthersKept, TypeOK
    <2>7. Covers(c)'
      BY <2>6 DEF Covers
    <2>8. \A d \in Crawlers \ {c} : Covers(d)'
      BY <1>1, <2>3, <2>6, CoversFrame DEF OthersKept
    <2> QED BY <2>5, <2>7, <2>8 DEF CrawlInv
  <1>3. CASE ~StopOnError
    <2>1. PICK l \in Eligible(c), chunk \in SUBSET Eligible(c) :
            /\ l \in chunk
            /\ dropped' = dropped \union chunk /\ handled' = handled /\ pc' = pc
            /\ todo' = [todo EXCEPT ![c] = @ \ chunk]
      BY <1>3 DEF HandlerFails
    <2>2. /\ chunk \subseteq todo[c] /\ chunk \subseteq Logs /\ todo'[c] = todo[c] \ chunk
          /\ l \in Logs /\ \A d \in Crawlers \ {c} : todo'[d] = todo[d]
      BY <2>1, EligibleType DEF TypeOK
    <2>3. Settled' = Settled \union chunk
      BY <2>1 DEF Settled
    <2>4. ~UseBatch => chunk = {l} /\ Predecessors(l) \subseteq Settled
      BY <1>1, <2>1, SingleChunk, FirstIsReady DEF Eligible
    <2>5. Covers(c)'
      BY <1>1, <2>1, <2>2, <2>3, CoversTake
    <2>6. \A d \in Crawlers \ {c} : Covers(d)'
      BY <1>1, <2>1, <2>2, <2>3, CoversFrame
    <2>7. CursorCovers' /\ ChainOrder' /\ (exists => InitialBlock <= lastSync)'
      BY <1>1, <1>3, <2>2, <2>3, <2>4, SettleStep
    <2> QED BY <2>5, <2>6, <2>7 DEF CrawlInv
  <1> QED BY <1>2, <1>3

\* A range that is about to be saved is settled up to its last block.
LEMMA SavedRange ==
  ASSUME TypeOK, CrawlInv, NEW c \in Crawlers, pc[c] \in {"update", "create"}
  PROVE  InitialBlock <= to[c] /\ LogsIn(InitialBlock, to[c]) \subseteq Settled
  <1>1. cur[c] \in Nat /\ to[c] \in Nat
    BY DEF TypeOK
  <1>2. /\ InitialBlock <= cur[c] /\ cur[c] <= to[c] /\ todo[c] = {}
        /\ LogsIn(InitialBlock, cur[c] - 1) \subseteq Settled
        /\ LogsIn(cur[c], to[c]) \subseteq Settled \union todo[c]
    BY DEF CrawlInv, Covers
  <1>3. LogsIn(InitialBlock, to[c]) \subseteq Settled
    BY <1>1, <1>2, LogType DEF LogsIn
  <1> QED BY <1>1, <1>2, <1>3

\* Going on behind a saved range keeps every window covered.
LEMMA NextRangeKeeps ==
  ASSUME TypeOK, CrawlInv, NEW c \in Crawlers, pc[c] \in {"update", "create"},
         NextRange(c), to' = to, UNCHANGED effects, exists'
  PROVE  Settled' = Settled /\ \A d \in Crawlers : Covers(d)'
  <1>1. /\ pc'[c] \in {"loop", "end", "idle"} /\ cur'[c] = to[c] + 1
        /\ OthersKept(c)
    BY DEF NextRange, Return, OthersKept, TypeOK
  <1>2. Settled' = Settled
    BY DEF Settled, effects
  <1>3. InitialBlock <= cur'[c] /\ LogsIn(InitialBlock, cur'[c] - 1) \subseteq Settled
    <2>1. to[c] \in Nat /\ cur'[c] - 1 = to[c]
      BY <1>1 DEF TypeOK
    <2> QED BY <1>1, <2>1, SavedRange
  <1>4. Covers(c)'
    BY <1>1, <1>2, <1>3 DEF Covers, LogsIn
  <1>5. \A d \in Crawlers \ {c} : Covers(d)'
    BY <1>1, <1>2, CoversFrame DEF OthersKept, CrawlInv
  <1> QED BY <1>2, <1>4, <1>5

LEMMA InvSave ==
  ASSUME TypeOK, CrawlInv, NEW c \in Crawlers,
         SaveProgressUpdate(c) \/ SaveProgressCreate(c)
  PROVE  CrawlInv'
  <1>1. CASE SaveProgressUpdate(c)
    <2>1. pc[c] = "update" /\ NextRange(c) /\ to' = to /\ UNCHANGED <<effects, exists>> /\ exists
      BY <1>1 DEF SaveProgressUpdate, CrawlInv, Covers
    <2>2. Settled' = Settled /\ \A d \in Crawlers : Covers(d)'
      BY <2>1, NextRangeKeeps
    <2>3. lastSync' \in {lastSync, to[c]}
      BY <1>1, Max2Type DEF SaveProgressUpdate, TypeOK
    <2>4. CursorCovers' /\ (exists => InitialBlock <= lastSync)'
      BY <2>1, <2>2, <2>3, SavedRange DEF CrawlInv, CursorCovers, effects, LogsIn
    <2>5. ChainOrder'
      BY <2>2 DEF CrawlInv, ChainOrder, Predecessors
    <2> QED BY <2>2, <2>4, <2>5 DEF CrawlInv
  <1>2. CASE SaveProgressCreate(c)
    <2>1. CASE exists
      <3>1. OthersKept(c) /\ Covers(c)'
        BY <1>2, <2>1, CatchKeeps DEF SaveProgressCreate
      <3> QED BY <1>2, <2>1, <3>1, QuietStep DEF SaveProgressCreate
    <2>2. CASE ~exists
      <3>1. /\ pc[c] = "create" /\ NextRange(c) /\ to' = to /\ UNCHANGED effects
            /\ lastSync' = to[c] /\ exists'
        BY <1>2, <2>2 DEF SaveProgressCreate
      <3>2. Settled' = Settled /\ \A d \in Crawlers : Covers(d)'
        BY <3>1, NextRangeKeeps
      <3>3. CursorCovers' /\ (exists => InitialBlock <= lastSync)'
        BY <3>1, <3>2, SavedRange DEF CrawlInv, CursorCovers, effects, LogsIn
      <3>4. ChainOrder'
        BY <3>2 DEF CrawlInv, ChainOrder, Predecessors
      <3> QED BY <3>2, <3>3, <3>4 DEF CrawlInv
    <2> QED BY <2>1, <2>2
  <1> QED BY <1>1, <1>2

LEMMA InvNext == TypeOK /\ CrawlInv /\ [Next]_vars => CrawlInv'
  <1> SUFFICES ASSUME TypeOK, CrawlInv, [Next]_vars PROVE CrawlInv'
    OBVIOUS
  <1>1. CASE UNCHANGED vars \/ Mine
    <2>1. UNCHANGED <<exists, lastSync, handled, dropped, pc, cur, to, todo>>
      BY <1>1 DEF vars, Mine, store, effects, window
    <2>2. Settled' = Settled
      BY <2>1 DEF Settled
    <2>3. \A c \in Crawlers : Covers(c)'
      BY <2>1, <2>2, CoversFrame DEF CrawlInv
    <2>4. CursorCovers' /\ ChainOrder' /\ (exists => InitialBlock <= lastSync)'
      BY <2>1, <2>2 DEF CrawlInv, CursorCovers, ChainOrder, LogsIn, Predecessors
    <2> QED BY <2>3, <2>4 DEF CrawlInv
  <1>2. ASSUME NEW c \in Crawlers, Step(c) \/ Environment(c) PROVE CrawlInv'
    BY <1>2, InvQuiet, InvHandle, InvHandlerFails, InvSave DEF Step, Environment
  <1> QED BY <1>1, <1>2 DEF Next

\* The inductive invariant holds of every behaviour.
THEOREM InvCorrect == Spec => []CrawlInv
  <1>1. Init => TypeOK /\ CrawlInv
    BY TypeInit, InvInit
  <1>2. TypeOK /\ CrawlInv /\ [Next]_vars => (TypeOK /\ CrawlInv)'
    BY TypeNext, InvNext
  <1> QED BY <1>1, <1>2, PTL DEF Spec

\* No gap: for any number of crawlers on one record, any faults and any batch
\* sizes, every log up to the persisted lastSync has been given to its handler.
THEOREM NoGap == Spec => []CursorCovers
  <1>1. CrawlInv => CursorCovers
    BY DEF CrawlInv
  <1> QED BY <1>1, InvCorrect, PTL

\* Sequential processing handles the history in chain order, replays and
\* concurrent crawlers included.
THEOREM InOrder == Spec => []ChainOrder
  <1>1. CrawlInv => ChainOrder
    BY DEF CrawlInv
  <1> QED BY <1>1, InvCorrect, PTL

-----------------------------------------------------------------------------
(* The crawlers implement LogDelivery *)

\* What a step does to the record: it is left alone, or saved by one crawler.
LEMMA RecordStep ==
  ASSUME TypeOK, CrawlInv, [Next]_vars
  PROVE  \/ UNCHANGED <<exists, lastSync>>
         \/ /\ UNCHANGED effects
            /\ exists'
            /\ \E c \in Crawlers :
                 /\ pc[c] \in {"update", "create"}
                 /\ lastSync' = IF exists THEN Max2(lastSync, to[c]) ELSE to[c]
  <1>1. CASE UNCHANGED vars \/ Mine
    BY <1>1 DEF vars, Mine, store
  <1>2. ASSUME NEW c \in Crawlers, SaveProgressCreate(c)
        PROVE  \/ UNCHANGED <<exists, lastSync>>
               \/ /\ UNCHANGED effects /\ exists'
                  /\ pc[c] \in {"update", "create"}
                  /\ lastSync' = IF exists THEN Max2(lastSync, to[c]) ELSE to[c]
    BY <1>2 DEF SaveProgressCreate
  <1>3. ASSUME NEW c \in Crawlers, SaveProgressUpdate(c)
        PROVE  \/ UNCHANGED <<exists, lastSync>>
               \/ /\ UNCHANGED effects /\ exists'
                  /\ pc[c] \in {"update", "create"}
                  /\ lastSync' = IF exists THEN Max2(lastSync, to[c]) ELSE to[c]
    BY <1>3 DEF SaveProgressUpdate, CrawlInv, Covers
  <1>4. ASSUME NEW c \in Crawlers, Step(c) \/ Environment(c),
               ~SaveProgressCreate(c), ~SaveProgressUpdate(c)
        PROVE  UNCHANGED <<exists, lastSync>>
    BY <1>4 DEF Step, Environment, Crawl, GetStartingBlock, GetLatestBlock,
         LoopEnds, FetchLogs, HandleLog, SaveProgressFind, MarkAsEnded, Requeue,
         StartFails, FetchFails, RateLimited, HandlerFails, SaveFails, Crash, store
  <1> QED BY <1>1, <1>2, <1>3, <1>4 DEF Next

\* saveProgress never moves the cursor back, whoever else saves.
THEOREM Monotone == Spec => CursorMonotone
  <1>1. TypeOK /\ CrawlInv /\ [Next]_vars => [exists => exists' /\ lastSync' >= lastSync]_vars
    <2> SUFFICES ASSUME TypeOK, CrawlInv, [Next]_vars, exists
                 PROVE  exists' /\ lastSync' >= lastSync
      OBVIOUS
    <2>1. CASE UNCHANGED <<exists, lastSync>>
      BY <2>1 DEF TypeOK
    <2>2. CASE ~UNCHANGED <<exists, lastSync>>
      <3>1. PICK c \in Crawlers : exists' /\ lastSync' = Max2(lastSync, to[c])
        BY <2>2, RecordStep
      <3>2. lastSync \in Int /\ to[c] \in Int
        BY DEF TypeOK
      <3> QED BY <3>1, <3>2, Max2Type
    <2> QED BY <2>1, <2>2
  <1> QED BY <1>1, TypeCorrect, InvCorrect, PTL DEF Spec, CursorMonotone

\* What a step does to the effects: logs are settled one at a time, in order,
\* or several at once by a crawler that processes in parallel.
LEMMA EffectStep ==
  ASSUME TypeOK, CrawlInv, [Next]_vars
  PROVE  \/ Settled' = Settled
         \/ /\ UNCHANGED <<exists, lastSync>>
            /\ \/ \E l \in Logs : /\ ~UseBatch => Predecessors(l) \subseteq Settled
                                  /\ Settled' = Settled \union {l}
               \/ UseBatch /\ \E S \in SUBSET Logs : Settled' = Settled \union S
  <1>1. CASE UNCHANGED vars \/ Mine
    BY <1>1 DEF vars, Mine, effects, Settled
  <1>2. ASSUME NEW c \in Crawlers, HandleLog(c)
        PROVE  /\ UNCHANGED <<exists, lastSync>>
               /\ \E l \in Logs : /\ ~UseBatch => Predecessors(l) \subseteq Settled
                                 /\ Settled' = Settled \union {l}
    <2>1. PICK l \in Eligible(c) : handled' = handled \union {l}
      BY <1>2 DEF HandleLog
    <2>2. ~UseBatch => Predecessors(l) \subseteq Settled
      BY <1>2, <2>1, FirstIsReady DEF Eligible, HandleLog, CrawlInv
    <2>3. l \in Logs
      BY <2>1, EligibleType
    <2> QED BY <1>2, <2>1, <2>2, <2>3 DEF HandleLog, store, Settled
  <1>3. ASSUME NEW c \in Crawlers, HandlerFails(c)
        PROVE  /\ UNCHANGED <<exists, lastSync>>
               /\ \/ Settled' = Settled
                  \/ \E l \in Logs : /\ ~UseBatch => Predecessors(l) \subseteq Settled
                                    /\ Settled' = Settled \union {l}
                  \/ UseBatch /\ \E S \in SUBSET Logs : Settled' = Settled \union S
    <2>1. PICK l \in Eligible(c) :
            \/ /\ dropped' = dropped
               /\ \E running \in SUBSET (Eligible(c) \ {l}) :
                    handled' = handled \union running
            \/ /\ handled' = handled
               /\ \E chunk \in SUBSET Eligible(c) :
                    l \in chunk /\ dropped' = dropped \union chunk
      BY <1>3 DEF HandlerFails
    <2>2. UNCHANGED <<exists, lastSync>> /\ l \in Logs
      BY <1>3, <2>1, EligibleType DEF HandlerFails, store
    <2>3. ASSUME handled' = handled, NEW chunk \in SUBSET Eligible(c), l \in chunk,
                 dropped' = dropped \union chunk
          PROVE  \/ \E m \in Logs : /\ ~UseBatch => Predecessors(m) \subseteq Settled
                                    /\ Settled' = Settled \union {m}
                 \/ UseBatch /\ \E S \in SUBSET Logs : Settled' = Settled \union S
      <3>1. Settled' = Settled \union chunk /\ chunk \subseteq Logs
        BY <2>3, EligibleType DEF Settled
      <3>2. ~UseBatch => chunk = {l} /\ Predecessors(l) \subseteq Settled
        BY <1>3, <2>1, <2>3, SingleChunk, FirstIsReady DEF Eligible, HandlerFails, CrawlInv
      <3> QED BY <2>2, <3>1, <3>2
    <2>4. ASSUME dropped' = dropped, NEW running \in SUBSET (Eligible(c) \ {l}),
                 handled' = handled \union running
          PROVE  Settled' = Settled \/ (UseBatch /\ \E S \in SUBSET Logs : Settled' = Settled \union S)
      <3>1. running \subseteq Logs
        BY EligibleType
      <3>2. ~UseBatch => running = {}
        BY <2>1, EligibleType, FirstUnique DEF Eligible
      <3> QED BY <2>4, <3>1, <3>2 DEF Settled
    <2> QED BY <2>1, <2>2, <2>3, <2>4
  <1>4. ASSUME NEW c \in Crawlers, Step(c) \/ Environment(c),
               ~HandleLog(c), ~HandlerFails(c)
        PROVE  Settled' = Settled
    <2>1. UNCHANGED effects
      BY <1>4 DEF Step, Environment, Crawl, GetStartingBlock, GetLatestBlock,
         LoopEnds, FetchLogs, SaveProgressFind, SaveProgressUpdate,
         SaveProgressCreate, MarkAsEnded, Requeue, StartFails, FetchFails,
         RateLimited, SaveFails, Crash
    <2> QED BY <2>1 DEF effects, Settled
  <1> QED BY <1>1, <1>2, <1>3, <1>4 DEF Next

\* The crawlers, any number of them under any faults, deliver the logs as
\* LogDelivery promises.
THEOREM Refinement == Spec => ImplementsDelivery
  <1> DEFINE cursor == IF exists THEN lastSync ELSE InitialBlock - 1
  <1>1. Init => Delivery!Init
    BY DEF Init, Delivery!Init, Settled
  <1>2. TypeOK /\ CrawlInv /\ CrawlInv' /\ TypeOK' /\ [Next]_vars
          => [Delivery!Next]_<<Settled, cursor>>
    <2> SUFFICES ASSUME TypeOK, CrawlInv, CrawlInv', TypeOK', [Next]_vars
                 PROVE  [Delivery!Next]_<<Settled, cursor>>
      OBVIOUS
    <2>1. CASE UNCHANGED <<exists, lastSync>>
      <3>1. cursor' = cursor
        BY <2>1
      <3>2. CASE Settled' = Settled
        BY <3>1, <3>2
      <3>3. ASSUME NEW l \in Logs, ~UseBatch => Predecessors(l) \subseteq Settled,
                   Settled' = Settled \union {l}
            PROVE  Delivery!Deliver
        BY <3>1, <3>3 DEF Delivery!Deliver, Delivery!Predecessors, Predecessors,
                          Delivery!Before, Before
      <3>4. ASSUME UseBatch, NEW S \in SUBSET Logs, Settled' = Settled \union S
            PROVE  Delivery!DeliverMany
        BY <3>1, <3>4 DEF Delivery!DeliverMany
      <3> QED BY <3>2, <3>3, <3>4, EffectStep DEF Delivery!Next
    <2>2. CASE ~UNCHANGED <<exists, lastSync>>
      <3>1. PICK c \in Crawlers :
              /\ UNCHANGED effects /\ exists' /\ pc[c] \in {"update", "create"}
              /\ lastSync' = IF exists THEN Max2(lastSync, to[c]) ELSE to[c]
        BY <2>2, RecordStep
      <3>2. Settled' = Settled
        BY <3>1 DEF effects, Settled
      <3>3. cursor' = lastSync' /\ cursor' \in Nat
        BY <3>1 DEF TypeOK
      <3>4. cursor' > cursor
        <4>1. CASE exists
          <5>1. lastSync' >= lastSync /\ lastSync' # lastSync
            BY <2>2, <3>1, <4>1, Max2Type DEF TypeOK
          <5> QED BY <3>3, <4>1, <5>1 DEF TypeOK
        <4>2. CASE ~exists
          <5>1. lastSync' = to[c] /\ InitialBlock <= to[c] /\ to[c] \in Nat
            BY <3>1, <4>2, SavedRange DEF TypeOK
          <5> QED BY <3>3, <4>2, <5>1
        <4> QED BY <4>1, <4>2
      <3>5. Delivery!LogsIn(InitialBlock, cursor') \subseteq Settled
        BY <3>1, <3>2, <3>3 DEF CrawlInv, CursorCovers, LogsIn, Delivery!LogsIn
      <3> QED BY <3>2, <3>3, <3>4, <3>5 DEF Delivery!Advance, Delivery!Next
    <2> QED BY <2>1, <2>2
  <1> QED BY <1>1, <1>2, TypeCorrect, InvCorrect, PTL
          DEF Spec, ImplementsDelivery, Delivery!Spec
=============================================================================
