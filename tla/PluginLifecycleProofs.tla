------------------------ MODULE PluginLifecycleProofs ------------------------
(***************************************************************************)
(* Proofs about PluginLifecycle, for every set of legal histories, any      *)
(* number of crawlers and any faults: its type invariant; that a            *)
(* preparation a crawler has left behind has left a document; and that the  *)
(* documents and slugs of a plugin at rest are those the chain says.        *)
(*                                                                          *)
(* The last rests on three invariants. OwnInv: a handler holds documents of *)
(* its own plugin only. OrderInv: the handlers of a plugin that nothing     *)
(* disturbed work one after the other in the order of the chain, so that    *)
(* their logs are those of a first part of its events. FollowInv: between   *)
(* two handlers the collections hold what that part of the events makes     *)
(* (Good), and at each place of a handler what is between two such (AtWork).*)
(***************************************************************************)
EXTENDS PluginLifecycle, WellFoundedInduction, TLAPS

\* The kinds of event whose handler looks for a document to change.
Changing == {"UpdateApplied", "UninstallationApplied"} \union Permissions

PlacesFit == \A c \in Crawlers : pc[c] \in {"find", "write"} => Event(c).kind \in Changing

TypeInv == TypeOK /\ PlacesFit

LEMMA InitTypeInv == Init => TypeInv
<1> SUFFICES ASSUME Init PROVE TypeInv
  OBVIOUS
<1>1. history \in Seq(Events) /\ Len(history) \in Nat /\ MaxSuffix \in Nat /\ faults \in Nat
  BY LifecycleConstants DEF Init
<1>2. pos \in [Crawlers -> 1 .. (Len(history) + 1)] /\ suffix \in [Crawlers -> 0 .. MaxSuffix]
  BY <1>1 DEF Init
<1>3. pc \in [Crawlers -> Places] /\ docs \in [Ids -> Statuses]
  BY DEF Init, Places, Statuses
<1>4. /\ logs \subseteq DOMAIN history /\ supported \subseteq Ids
      /\ slugs \subseteq Plugins \X (0 .. MaxSuffix) /\ asked \subseteq Plugins
      /\ made \in [Crawlers -> SUBSET Ids] /\ held \in [Crawlers -> SUBSET Ids]
      /\ ran \subseteq DOMAIN history /\ failed \subseteq DOMAIN history /\ spoiled \subseteq Plugins
  BY DEF Init
<1>5. \A c \in Crawlers : pc[c] = "idle"
  BY DEF Init
<1> QED
  BY <1>1, <1>2, <1>3, <1>4, <1>5 DEF TypeInv, TypeOK, PlacesFit

-----------------------------------------------------------------------------
(* The event at work, and where its handler goes *)

LEMMA EventType ==
  ASSUME TypeInv, NEW c \in Crawlers, pc[c] # "idle" \/ pos[c] <= Len(history)
  PROVE  /\ pos[c] \in DOMAIN history /\ pos[c] \in 1 .. Len(history) /\ Len(history) \in Nat
         /\ Event(c) \in Events /\ Event(c).plugin \in Plugins /\ Event(c).kind \in Kinds
         /\ <<Event(c).plugin, Event(c).tx>> \in Ids
<1>1. history \in Seq(Events) /\ Len(history) \in Nat /\ DOMAIN history = 1 .. Len(history)
  BY DEF TypeInv, TypeOK
<1>2. pos[c] \in 1 .. Len(history)
  BY <1>1 DEF TypeInv, TypeOK
<1>3. Event(c) \in Events
  BY <1>1, <1>2 DEF Event
<1> QED
  BY <1>1, <1>2, <1>3 DEF Events, Ids, Event

\* What a step leaves of where the crawlers are: c moves on in its handler, or
\* to the next event.
Moved(c) ==
  /\ pc' \in [Crawlers -> Places] /\ pos' \in [Crawlers -> 1 .. (Len(history) + 1)]
  /\ ran' \subseteq DOMAIN history
  /\ \A d \in Crawlers : d # c => pc'[d] = pc[d] /\ pos'[d] = pos[d]
  /\ pc'[c] = "idle" \/ pos'[c] = pos[c]

LEMMA GotoMoves ==
  ASSUME TypeInv, NEW c \in Crawlers, NEW place \in Places, Goto(c, place)
  PROVE  Moved(c) /\ pc'[c] = place
BY DEF TypeInv, TypeOK, Moved, Goto

LEMMA DoneMoves ==
  ASSUME TypeInv, NEW c \in Crawlers, pc[c] # "idle", Done(c)
  PROVE  Moved(c) /\ pc'[c] = "idle"
<1>1. pos[c] \in DOMAIN history /\ pos[c] \in 1 .. Len(history) /\ Len(history) \in Nat
  BY EventType
<1>2. pos' \in [Crawlers -> 1 .. (Len(history) + 1)]
  BY <1>1 DEF TypeInv, TypeOK, Done
<1>3. pc' \in [Crawlers -> Places] /\ pc'[c] = "idle"
  BY DEF TypeInv, TypeOK, Done, Places
<1> QED
  BY <1>1, <1>2, <1>3 DEF TypeInv, TypeOK, Moved, Done

\* The invariant after a step that moves c.
LEMMA MovedTypeInv ==
  ASSUME TypeInv, NEW c \in Crawlers, Moved(c), UNCHANGED history,
         pc[c] # "idle" \/ pos[c] <= Len(history),
         pc'[c] \in {"find", "write"} => Event(c).kind \in Changing,
         /\ logs' \subseteq DOMAIN history /\ docs' \in [Ids -> Statuses] /\ supported' \subseteq Ids
         /\ slugs' \subseteq Plugins \X (0 .. MaxSuffix) /\ asked' \subseteq Plugins
         /\ suffix' \in [Crawlers -> 0 .. MaxSuffix]
         /\ made' \in [Crawlers -> SUBSET Ids] /\ held' \in [Crawlers -> SUBSET Ids]
         /\ failed' \subseteq DOMAIN history /\ spoiled' \subseteq Plugins /\ faults' \in Nat
  PROVE  TypeInv'
<1>1. pos[c] \in DOMAIN history
  BY EventType
<1>2. Ids' = Ids
  BY DEF Ids
<1>3. \A d \in Crawlers : pc'[d] # "idle" => pos'[d] \in DOMAIN history
  BY <1>1 DEF TypeInv, TypeOK, Moved
<1>4. TypeOK'
  BY <1>2, <1>3 DEF TypeInv, TypeOK, Moved
<1>5. PlacesFit'
  BY DEF TypeInv, PlacesFit, Moved, Event
<1> QED
  BY <1>4, <1>5 DEF TypeInv

\* Most steps change one or two parts of the database.
Rest(c) ==
  /\ logs' \subseteq DOMAIN history /\ docs' \in [Ids -> Statuses] /\ supported' \subseteq Ids
  /\ slugs' \subseteq Plugins \X (0 .. MaxSuffix) /\ asked' \subseteq Plugins
  /\ suffix' \in [Crawlers -> 0 .. MaxSuffix]
  /\ made' \in [Crawlers -> SUBSET Ids] /\ held' \in [Crawlers -> SUBSET Ids]
  /\ failed' \subseteq DOMAIN history /\ spoiled' \subseteq Plugins /\ faults' \in Nat

LEMMA RestTypeInv ==
  ASSUME TypeInv, NEW c \in Crawlers, Moved(c), UNCHANGED history, Rest(c),
         pc[c] # "idle" \/ pos[c] <= Len(history),
         pc'[c] \in {"find", "write"} => Event(c).kind \in Changing
  PROVE  TypeInv'
BY MovedTypeInv DEF Rest

LEMMA AfterSlugMoves ==
  ASSUME TypeInv, NEW c \in Crawlers, pc[c] # "idle", AfterSlug(c)
  PROVE  /\ Moved(c) /\ pc'[c] \notin {"find", "write"}
         /\ suffix' \in [Crawlers -> 0 .. MaxSuffix]
<1>1. suffix' \in [Crawlers -> 0 .. MaxSuffix]
  BY LifecycleConstants DEF AfterSlug, TypeInv, TypeOK
<1> QED
  BY <1>1, GotoMoves, DoneMoves DEF AfterSlug, Places

LEMMA LogTypeInv ==
  ASSUME TypeInv, NEW c \in Crawlers, Receive(c) \/ StoreLog(c) \/ LogPermission(c)
  PROVE  TypeInv'
<1>1. CASE Receive(c)
  <2>0. pos[c] <= Len(history) /\ UNCHANGED history
    BY <1>1 DEF Receive
  <2>1. pos[c] \in DOMAIN history /\ pos[c] \in 1 .. Len(history) /\ Len(history) \in Nat
        /\ Event(c).plugin \in Plugins
    BY <2>0, EventType
  <2>2. Rest(c)
    BY <1>1, <2>1 DEF Receive, Rest, TypeInv, TypeOK, database
  <2>3. CASE Recognised(pos[c])
    <3>1. pos' = [pos EXCEPT ![c] = @ + 1] /\ UNCHANGED <<pc, ran>>
      BY <1>1, <2>3 DEF Receive
    <3>2. pos' \in [Crawlers -> 1 .. (Len(history) + 1)]
      BY <2>1, <3>1 DEF TypeInv, TypeOK
    <3>3. Moved(c) /\ pc'[c] = "idle"
      BY <1>1, <3>1, <3>2 DEF Receive, Moved, TypeInv, TypeOK
    <3> QED
      BY <2>0, <2>2, <3>3, RestTypeInv
  <2>4. CASE ~Recognised(pos[c])
    <3>1. Goto(c, IF Event(c).kind \in Permissions THEN "find" ELSE "log")
      BY <1>1, <2>4 DEF Receive
    <3>2. Moved(c) /\ pc'[c] = IF Event(c).kind \in Permissions THEN "find" ELSE "log"
      BY <3>1, GotoMoves DEF Places
    <3> QED
      BY <2>0, <2>2, <3>2, RestTypeInv DEF Changing
  <2> QED
    BY <2>3, <2>4
<1>2. CASE StoreLog(c)
  <2>1. pos[c] \in DOMAIN history /\ pc[c] # "idle" /\ UNCHANGED history
    BY <1>2, EventType DEF StoreLog
  <2>2. Rest(c)
    BY <1>2, <2>1 DEF StoreLog, Rest, TypeInv, TypeOK
  <2>3. Moved(c) /\ (pc'[c] \in {"find", "write"} => Event(c).kind \in Changing)
    BY <1>2, <2>1, GotoMoves, DoneMoves DEF StoreLog, Places, Changing
  <2> QED
    BY <2>1, <2>2, <2>3, RestTypeInv
<1>3. CASE LogPermission(c)
  <2>1. pos[c] \in DOMAIN history /\ pc[c] # "idle" /\ UNCHANGED history
    BY <1>3, EventType DEF LogPermission
  <2>2. Rest(c)
    BY <1>3, <2>1 DEF LogPermission, Rest, TypeInv, TypeOK
  <2>3. Moved(c) /\ pc'[c] = "idle"
    BY <1>3, <2>1, DoneMoves DEF LogPermission
  <2> QED
    BY <2>1, <2>2, <2>3, RestTypeInv
<1> QED
  BY <1>1, <1>2, <1>3

LEMMA PairsType ==
  ASSUME TypeInv, NEW q \in Plugins, NEW prepared, NEW applied
  PROVE  Pairs(q, prepared, applied) \subseteq Ids
BY DEF TypeInv, TypeOK, Pairs, Ids

LEMMA CreateTypeInv ==
  ASSUME TypeInv, NEW c \in Crawlers, QueryUpdate(c) \/ CreatePlugin(c) \/ InstallPlugin(c)
  PROVE  TypeInv'
<1>0. /\ pc[c] # "idle" /\ UNCHANGED history /\ Event(c).plugin \in Plugins
      /\ <<Event(c).plugin, Event(c).tx>> \in Ids
  BY EventType DEF QueryUpdate, CreatePlugin, InstallPlugin
<1>1. CASE QueryUpdate(c)
  <2>1. Pairs(Event(c).plugin, "UpdatePrepared", "UpdateApplied") \subseteq Ids
    BY <1>0, PairsType
  <2>2. made' \in [Crawlers -> SUBSET Ids]
    <3>1. (\E d \in Ids : made' = [made EXCEPT ![c] = {d}]) \/ UNCHANGED made
      BY <1>1, <2>1 DEF QueryUpdate
    <3>2. made \in [Crawlers -> SUBSET Ids]
      BY DEF TypeInv, TypeOK
    <3>3. CASE \E d \in Ids : made' = [made EXCEPT ![c] = {d}]
      <4>1. PICK d \in Ids : made' = [made EXCEPT ![c] = {d}]
        BY <3>3
      <4>2. {d} \in SUBSET Ids
        OBVIOUS
      <4> QED
        BY <3>2, <4>1, <4>2
    <3> QED
      BY <3>1, <3>2, <3>3
  <2>3. Rest(c)
    BY <1>1, <2>2 DEF QueryUpdate, Rest, TypeInv, TypeOK, database
  <2>4. Moved(c) /\ pc'[c] \in {"create", "idle"}
    BY <1>0, <1>1, GotoMoves, DoneMoves DEF QueryUpdate, Places
  <2> QED
    BY <1>0, <2>3, <2>4, RestTypeInv
<1>2. CASE CreatePlugin(c)
  <2>1. docs' \in [Ids -> Statuses]
    BY <1>0, <1>2 DEF CreatePlugin, TypeInv, TypeOK, Statuses
  <2>2. Rest(c)
    BY <1>2, <2>1 DEF CreatePlugin, Rest, TypeInv, TypeOK
  <2>3. Moved(c) /\ (pc'[c] \in {"find", "write"} => Event(c).kind \in Changing)
    BY <1>2, GotoMoves DEF CreatePlugin, Places, Changing
  <2> QED
    BY <1>0, <2>2, <2>3, RestTypeInv
<1>3. CASE InstallPlugin(c)
  <2>1. docs' \in [Ids -> Statuses]
    BY <1>3 DEF InstallPlugin, Documents, TypeInv, TypeOK, Statuses
  <2>2. Rest(c)
    BY <1>3, <2>1 DEF InstallPlugin, Rest, TypeInv, TypeOK
  <2>3. Moved(c) /\ pc'[c] \in {"slug", "settings"}
    BY <1>3, GotoMoves DEF InstallPlugin, Places
  <2> QED
    BY <1>0, <2>2, <2>3, RestTypeInv
<1> QED
  BY <1>1, <1>2, <1>3

LEMMA FindTypeInv ==
  ASSUME TypeInv, NEW c \in Crawlers, FindPlugin(c) \/ WritePlugin(c)
  PROVE  TypeInv'
<1>0. pc[c] # "idle" /\ UNCHANGED history /\ Event(c).kind \in Changing
  BY DEF FindPlugin, WritePlugin, TypeInv, PlacesFit
<1>1. CASE FindPlugin(c)
  <2>1. Target(c) \subseteq Ids
    BY <1>0 DEF Target, Changing, Permissions, Documents, ByAddress
  <2>2. held' \in [Crawlers -> SUBSET Ids]
    <3>1. (\E d \in Ids : held' = [held EXCEPT ![c] = {d}]) \/ UNCHANGED held
      BY <1>1, <2>1 DEF FindPlugin
    <3>2. held \in [Crawlers -> SUBSET Ids]
      BY DEF TypeInv, TypeOK
    <3>3. CASE UNCHANGED held
      BY ONLY <3>2, <3>3 DEF Ids
    <3>4. ASSUME NEW d \in Ids, held' = [held EXCEPT ![c] = {d}] PROVE held' \in [Crawlers -> SUBSET Ids]
      BY ONLY <3>2, <3>4
    <3>5. Ids' = Ids
      BY <1>0 DEF Ids
    <3> QED
      BY ONLY <3>1, <3>3, <3>4, <3>5
  <2>3. Rest(c)
    BY <1>1, <2>2 DEF FindPlugin, Rest, TypeInv, TypeOK, database
  <2>4. Moved(c)
    BY <1>0, <1>1, GotoMoves, DoneMoves DEF FindPlugin, Places
  <2> QED
    BY <1>0, <2>3, <2>4, RestTypeInv
<1>2. CASE WritePlugin(c)
  <2>1. StatusAfter(Event(c).kind) \in Statuses
    BY <1>0 DEF StatusAfter, Changing, Permissions, Statuses
  <2>2. docs' \in [Ids -> Statuses]
    BY <1>2, <2>1 DEF WritePlugin, TypeInv, TypeOK
  <2>3. supported' \subseteq Ids
    BY <1>2 DEF WritePlugin, TypeInv, TypeOK
  <2>4. Rest(c)
    BY <1>2, <2>2, <2>3 DEF WritePlugin, Rest, TypeInv, TypeOK
  <2>5. Moved(c) /\ pc'[c] \in {"idle", "slug"}
    BY <1>0, <1>2, GotoMoves, DoneMoves DEF WritePlugin, Places
  <2> QED
    BY <1>0, <2>4, <2>5, RestTypeInv
<1> QED
  BY <1>1, <1>2

LEMMA SlugTypeInv ==
  ASSUME TypeInv, NEW c \in Crawlers, KeepSlug(c) \/ ReserveSlug(c)
  PROVE  TypeInv'
<1>0. pc[c] # "idle" /\ UNCHANGED history /\ Event(c).plugin \in Plugins
  BY EventType DEF KeepSlug, ReserveSlug
<1>1. CASE KeepSlug(c)
  <2>1. slugs' \subseteq Plugins \X (0 .. MaxSuffix)
    BY <1>1 DEF KeepSlug, TypeInv, TypeOK
  <2>2. /\ Moved(c) /\ pc'[c] \notin {"find", "write"}
        /\ suffix' \in [Crawlers -> 0 .. MaxSuffix]
    <3>1. CASE Goto(c, "reserve") /\ UNCHANGED suffix
      BY <3>1, GotoMoves DEF Places, TypeInv, TypeOK
    <3>2. CASE AfterSlug(c)
      BY <1>0, <3>2, AfterSlugMoves
    <3> QED
      BY <1>1, <3>1, <3>2 DEF KeepSlug
  <2>3. Rest(c)
    BY <1>1, <2>1, <2>2 DEF KeepSlug, Rest, TypeInv, TypeOK
  <2> QED
    BY <1>0, <2>2, <2>3, RestTypeInv
<1>2. CASE ReserveSlug(c)
  <2>0. suffix[c] \in 0 .. MaxSuffix /\ MaxSuffix \in Nat
    BY LifecycleConstants DEF TypeInv, TypeOK
  <2>1. slugs' \subseteq Plugins \X (0 .. MaxSuffix)
    BY <1>0, <1>2, <2>0 DEF ReserveSlug, TypeInv, TypeOK
  <2>2. /\ Moved(c) /\ pc'[c] \notin {"find", "write"}
        /\ suffix' \in [Crawlers -> 0 .. MaxSuffix]
    <3>1. CASE Goto(c, "slug") /\ suffix[c] < MaxSuffix /\ suffix' = [suffix EXCEPT ![c] = @ + 1]
      <4>1. suffix[c] + 1 \in 0 .. MaxSuffix
        BY <2>0, <3>1
      <4>2. suffix' \in [Crawlers -> 0 .. MaxSuffix]
        BY <3>1, <4>1 DEF TypeInv, TypeOK
      <4> QED
        BY <3>1, <4>2, GotoMoves DEF Places
    <3>2. CASE AfterSlug(c)
      BY <1>0, <3>2, AfterSlugMoves
    <3> QED
      BY <1>2, <3>1, <3>2 DEF ReserveSlug
  <2>3. spoiled' \subseteq Plugins
    BY <1>0, <1>2 DEF ReserveSlug, TypeInv, TypeOK
  <2>4. Rest(c)
    <3>1. UNCHANGED <<history, logs, docs, supported, asked, made, held, failed, faults>>
      BY <1>2 DEF ReserveSlug
    <3> QED
      BY <2>1, <2>2, <2>3, <3>1 DEF Rest, TypeInv, TypeOK
  <2> QED
    BY <1>0, <2>2, <2>4, RestTypeInv
<1> QED
  BY <1>1, <1>2

LEMMA SettingsTypeInv ==
  ASSUME TypeInv, NEW c \in Crawlers, Settings(c)
  PROVE  TypeInv'
<1>0. pc[c] # "idle" /\ UNCHANGED history /\ Event(c).plugin \in Plugins
  BY EventType DEF Settings
<1>1. supported' \subseteq Ids
  <2>1. ByAddress(Event(c).plugin) \subseteq Ids
    BY DEF ByAddress, Documents
  <2> QED
    BY <2>1 DEF Settings, TypeInv, TypeOK
<1>2. Rest(c)
  BY <1>0, <1>1 DEF Settings, Rest, TypeInv, TypeOK
<1>3. Moved(c) /\ pc'[c] = "idle"
  BY <1>0, DoneMoves DEF Settings
<1> QED
  BY <1>0, <1>2, <1>3, RestTypeInv

LEMMA FaultTypeInv ==
  ASSUME TypeInv, NEW c \in Crawlers, Crash(c) \/ HandlerFails(c) \/ Redeliver(c)
  PROVE  TypeInv'
<1>0. faults' \in Nat /\ 0 \in 0 .. MaxSuffix
  <2>1. \E k : Fault(k)
    BY DEF Crash, HandlerFails, Redeliver
  <2> QED
    BY <2>1, LifecycleConstants DEF Fault, TypeInv, TypeOK
<1>1. CASE Crash(c)
  <2>1. pc[c] # "idle" /\ UNCHANGED history /\ Event(c).plugin \in Plugins
    BY <1>1, EventType DEF Crash
  <2>2. Rest(c)
    BY <1>0, <1>1, <2>1 DEF Crash, Rest, TypeInv, TypeOK, database
  <2>3. Moved(c) /\ pc'[c] = "idle"
    BY <1>1, GotoMoves DEF Crash, Places
  <2> QED
    BY <2>1, <2>2, <2>3, RestTypeInv
<1>2. CASE HandlerFails(c)
  <2>1. pc[c] # "idle" /\ UNCHANGED history
    BY <1>2 DEF HandlerFails
  <2>2. /\ Event(c).plugin \in Plugins /\ pos[c] \in DOMAIN history
        /\ pos[c] \in 1 .. Len(history) /\ Len(history) \in Nat
    BY <2>1, EventType
  <2>3. Rest(c)
    BY <1>0, <1>2, <2>2 DEF HandlerFails, Rest, TypeInv, TypeOK, database
  <2>4. Moved(c) /\ pc'[c] \in {"idle", "settings", "permission"}
    <3>1. CASE \E place \in Caught(c) : Goto(c, place)
      <4>1. Caught(c) \subseteq {"settings", "permission"}
        BY DEF Caught
      <4> QED
        BY <3>1, <4>1, GotoMoves DEF Places
    <3>2. CASE /\ pc' = [pc EXCEPT ![c] = "idle"] /\ pos' = [pos EXCEPT ![c] = @ + 1]
               /\ UNCHANGED ran
      <4>1. pos' \in [Crawlers -> 1 .. (Len(history) + 1)]
        BY <2>2, <3>2 DEF TypeInv, TypeOK
      <4> QED
        BY <3>2, <4>1 DEF Moved, TypeInv, TypeOK, Places
    <3> QED
      BY <1>2, <3>1, <3>2 DEF HandlerFails
  <2> QED
    BY <2>1, <2>3, <2>4, RestTypeInv
<1>3. CASE Redeliver(c)
  <2>1. PICK n \in 1 .. (pos[c] - 1) : pos' = [pos EXCEPT ![c] = n]
    BY <1>3 DEF Redeliver
  <2>2. n \in 1 .. (Len(history) + 1)
    <3>1. pos[c] \in 1 .. (Len(history) + 1) /\ Len(history) \in Nat
      BY DEF TypeInv, TypeOK
    <3> QED
      BY <3>1
  <2>3. /\ pos' \in [Crawlers -> 1 .. (Len(history) + 1)] /\ pc[c] = "idle"
        /\ \A d \in Crawlers : d # c => pos'[d] = pos[d]
        /\ UNCHANGED <<history, database, pc, made, held, ran, failed, spoiled, suffix>>
    BY <1>3, <2>1, <2>2 DEF Redeliver, TypeInv, TypeOK
  <2>4. Ids' = Ids
    BY <2>3 DEF Ids
  <2>5. \A d \in Crawlers : pc'[d] # "idle" => pos'[d] \in DOMAIN history
    BY <2>3 DEF TypeInv, TypeOK
  <2>6. TypeOK'
    BY <1>0, <2>3, <2>4, <2>5 DEF TypeInv, TypeOK, database
  <2>7. PlacesFit'
    BY <2>3 DEF TypeInv, PlacesFit, Event
  <2> QED
    BY <2>6, <2>7 DEF TypeInv
<1> QED
  BY <1>1, <1>2, <1>3

LEMMA StepTypeInv ==
  ASSUME TypeInv, [Next]_vars
  PROVE  TypeInv'
<1>1. CASE UNCHANGED vars
  <2>1. Ids' = Ids
    BY <1>1 DEF vars, Ids
  <2>2. TypeOK'
    BY <1>1, <2>1 DEF vars, database, TypeInv, TypeOK
  <2>3. PlacesFit'
    BY <1>1 DEF vars, TypeInv, PlacesFit, Event
  <2> QED
    BY <2>2, <2>3 DEF TypeInv
<1> QED
  BY <1>1, LogTypeInv, CreateTypeInv, FindTypeInv, SlugTypeInv, SettingsTypeInv, FaultTypeInv
     DEF Next, Step

\* Every variable of the plugins' lifecycle stays in its set: no handler works
\* beyond the history, and none writes a status that there is not.
THEOREM LifecycleTypeCorrect == Spec => []TypeOK
<1>1. TypeInv => TypeOK
  BY DEF TypeInv
<1> QED
  BY InitTypeInv, StepTypeInv, <1>1, PTL DEF Spec

-----------------------------------------------------------------------------
(* A preparation that is left behind has left its document *)

Prepared(n) == docs[<<history[n].plugin, history[n].tx>>] # "none"

\* Behind "create" the document is there, unless the handler failed there.
PreparedInv ==
  /\ \A c \in Crawlers : \A n \in 1 .. (pos[c] - 1) :
       history[n].kind = "InstallationPrepared" /\ n \notin failed => Prepared(n)
  /\ \A c \in Crawlers :
       /\ pc[c] \notin {"idle", "log", "create"} /\ Event(c).kind = "InstallationPrepared"
       /\ pos[c] \notin failed
       => Prepared(pos[c])

LEMMA InitPreparedInv == Init => PreparedInv
BY DEF Init, PreparedInv

\* What a step must leave: the events behind c, and the one it is at.
LEMMA KeepsPrepared ==
  ASSUME TypeInv, PreparedInv, NEW c \in Crawlers, NEW at, at = pos[c], UNCHANGED history,
         \A d \in Crawlers : d # c => pc'[d] = pc[d] /\ pos'[d] = pos[d],
         \A d \in Ids : docs[d] # "none" => docs'[d] # "none",
         failed \subseteq failed',
         pos'[c] \in Nat, pos'[c] <= pos[c] + 1,
         pos'[c] = at + 1 \/ pc'[c] \notin {"idle", "log", "create"} =>
           (history[at].kind = "InstallationPrepared" /\ at \notin failed' => Prepared(at)'),
         pc'[c] = "idle" \/ pos'[c] = at
  PROVE  PreparedInv'
<1>1. /\ history \in Seq(Events) /\ Len(history) \in Nat /\ DOMAIN history = 1 .. Len(history)
      /\ \A d \in Crawlers : pos[d] \in 1 .. (Len(history) + 1)
  BY DEF TypeInv, TypeOK
<1>2. ASSUME NEW n \in 1 .. Len(history), Prepared(n)
      PROVE  Prepared(n)'
  <2>1. <<history[n].plugin, history[n].tx>> \in Ids
    <3>1. history[n] \in Events
      BY <1>1
    <3> QED
      BY <1>1, <3>1 DEF Ids, Events
  <2> QED
    BY <1>2, <2>1 DEF Prepared
<1>3. ASSUME NEW d \in Crawlers, NEW n \in 1 .. (pos'[d] - 1),
             history[n].kind = "InstallationPrepared", n \notin failed'
      PROVE  Prepared(n)'
  <2>1. CASE n \in 1 .. (pos[d] - 1)
    BY <1>1, <1>2, <1>3, <2>1 DEF PreparedInv
  <2>2. CASE n \notin 1 .. (pos[d] - 1)
    <3>1. d = c
      BY <1>1, <1>3, <2>2
    <3>2. n = pos[c] /\ pos'[c] = pos[c] + 1
      BY <1>1, <1>3, <2>2, <3>1
    <3> QED
      BY <1>3, <3>2
  <2> QED
    BY <2>1, <2>2
<1>4. ASSUME NEW d \in Crawlers, pc'[d] \notin {"idle", "log", "create"},
             history[pos'[d]].kind = "InstallationPrepared", pos'[d] \notin failed'
      PROVE  Prepared(pos[d])'
  <2>1. CASE d = c
    BY <1>4, <2>1 DEF Prepared
  <2>2. CASE d # c
    <3>1. pos[d] \in 1 .. Len(history)
      BY <1>4, <2>2, EventType
    <3>2. Prepared(pos[d]) /\ pos'[d] = pos[d]
      BY <1>4, <2>2 DEF PreparedInv, Event
    <3> QED
      BY <1>2, <3>1, <3>2 DEF Prepared
  <2> QED
    BY <2>1, <2>2
<1> QED
  BY <1>3, <1>4 DEF PreparedInv, Event

\* No document is ever taken away.
LEMMA DocumentsStay ==
  ASSUME TypeInv, NEW c \in Crawlers, Step(c) \/ Crash(c) \/ HandlerFails(c) \/ Redeliver(c)
  PROVE  \A d \in Ids : docs[d] # "none" => docs'[d] # "none"
<1>1. CASE CreatePlugin(c)
  BY <1>1 DEF CreatePlugin, TypeInv, TypeOK
<1>2. CASE InstallPlugin(c)
  BY <1>2 DEF InstallPlugin, TypeInv, TypeOK
<1>3. CASE WritePlugin(c)
  <2>1. StatusAfter(Event(c).kind) # "none"
    BY <1>3 DEF WritePlugin, TypeInv, PlacesFit, StatusAfter, Changing, Permissions
  <2> QED
    BY <1>3, <2>1 DEF WritePlugin
<1>4. CASE ~(CreatePlugin(c) \/ InstallPlugin(c) \/ WritePlugin(c))
  <2>1. UNCHANGED docs
    BY <1>4 DEF Step, Receive, StoreLog, QueryUpdate, FindPlugin, KeepSlug, ReserveSlug, Settings,
                LogPermission, Crash, HandlerFails, Redeliver, database
  <2> QED
    BY <2>1
<1> QED
  BY <1>1, <1>2, <1>3, <1>4

LEMMA StepPreparedInv ==
  ASSUME TypeInv, PreparedInv, [Next]_vars
  PROVE  PreparedInv'
<1>1. CASE UNCHANGED vars
  BY <1>1 DEF vars, database, PreparedInv, Prepared, Event
<1>2. ASSUME NEW c \in Crawlers, Step(c) \/ Crash(c) \/ HandlerFails(c) \/ Redeliver(c)
      PROVE  PreparedInv'
  <2>1. PICK at \in Nat : at = pos[c]
    BY DEF TypeInv, TypeOK
  <2>2. /\ UNCHANGED history /\ failed \subseteq failed'
    BY <1>2 DEF Step, Receive, StoreLog, QueryUpdate, CreatePlugin, InstallPlugin, FindPlugin,
                WritePlugin, KeepSlug, ReserveSlug, Settings, LogPermission, Crash, HandlerFails,
                Redeliver
  <2>3. \A d \in Ids : docs[d] # "none" => docs'[d] # "none"
    BY <1>2, DocumentsStay
  <2>4. \A d \in Crawlers : d # c => pc'[d] = pc[d] /\ pos'[d] = pos[d]
    BY <1>2 DEF Step, Receive, StoreLog, QueryUpdate, CreatePlugin, InstallPlugin, FindPlugin,
                WritePlugin, KeepSlug, ReserveSlug, AfterSlug, Settings, LogPermission, Crash,
                HandlerFails, Redeliver, Goto, Done, TypeInv, TypeOK
  <2>5. pos[c] \in Nat /\ pos'[c] \in Nat /\ pos'[c] <= pos[c] + 1
        /\ (pc'[c] = "idle" \/ pos'[c] = at)
    <3>1. CASE Redeliver(c)
      BY <2>1, <3>1 DEF Redeliver, TypeInv, TypeOK
    <3>2. CASE ~Redeliver(c)
      BY <1>2, <2>1, <3>2
         DEF Step, Receive, StoreLog, QueryUpdate, CreatePlugin, InstallPlugin, FindPlugin,
             WritePlugin, KeepSlug, ReserveSlug, AfterSlug, Settings, LogPermission, Crash,
             HandlerFails, Goto, Done, TypeInv, TypeOK
    <3> QED
      BY <3>1, <3>2
  <2>6. ASSUME pos'[c] = at + 1 \/ pc'[c] \notin {"idle", "log", "create"},
               history[at].kind = "InstallationPrepared", at \notin failed'
        PROVE  Prepared(at)'
    <3>1. Event(c).kind = "InstallationPrepared" /\ Event(c).kind \notin Permissions
      BY <2>1, <2>6 DEF Event, Permissions
    <3>2. CASE pc[c] \notin {"idle", "log", "create"}
      <4>1. at \in 1 .. Len(history) /\ <<history[at].plugin, history[at].tx>> \in Ids
        BY <2>1, <3>2, EventType DEF Event
      <4>2. Prepared(at)
        BY <2>1, <2>2, <2>6, <3>1, <3>2 DEF PreparedInv
      <4> QED
        BY <2>2, <2>3, <4>1, <4>2 DEF Prepared
    <3>3. CASE CreatePlugin(c)
      <4>1. <<Event(c).plugin, Event(c).tx>> \in Ids
        BY <3>3, EventType DEF CreatePlugin
      <4>2. docs'[<<Event(c).plugin, Event(c).tx>>] # "none"
        BY <3>1, <3>3, <4>1 DEF CreatePlugin, TypeInv, TypeOK
      <4> QED
        BY <2>1, <2>2, <4>2 DEF Prepared, Event
    <3>4. CASE StoreLog(c)
      <4>1. Goto(c, "create")
        BY <3>1, <3>4 DEF StoreLog
      <4> QED
        BY <2>1, <2>6, <4>1 DEF Goto, TypeInv, TypeOK
    <3>5. CASE Receive(c)
      <4>1. Goto(c, "log")
        BY <3>1, <3>5 DEF Receive, Recognised, Event
      <4> QED
        BY <2>1, <2>6, <4>1 DEF Goto, TypeInv, TypeOK
    <3>6. CASE Crash(c) \/ HandlerFails(c) \/ Redeliver(c)
      <4>1. CASE HandlerFails(c)
        BY <2>1, <2>6, <4>1 DEF HandlerFails
      <4>2. CASE Crash(c)
        BY <2>1, <2>6, <4>2 DEF Crash, Goto, TypeInv, TypeOK
      <4>3. CASE Redeliver(c)
        BY <2>1, <2>6, <4>3 DEF Redeliver, TypeInv, TypeOK
      <4> QED
        BY <3>6, <4>1, <4>2, <4>3
    <3>7. CASE pc[c] \in {"idle", "log", "create"} /\ Step(c)
      BY <3>3, <3>4, <3>5, <3>7
         DEF Step, QueryUpdate, InstallPlugin, FindPlugin, WritePlugin, KeepSlug, ReserveSlug,
             Settings, LogPermission
    <3> QED
      BY <1>2, <3>2, <3>6, <3>7
  <2> QED
    BY <2>1, <2>2, <2>3, <2>4, <2>5, <2>6, KeepsPrepared
<1> QED
  BY <1>1, <1>2 DEF Next

\* A preparation of an installation that a crawler has passed without an error
\* has its Plugin document, whatever crashed between the log and the document.
THEOREM PreparationLeavesPlugin == Spec => []PreparedHasPlugin
<1>1. Init => TypeInv /\ PreparedInv
  BY InitTypeInv, InitPreparedInv
<1>2. TypeInv /\ PreparedInv /\ [Next]_vars => (TypeInv /\ PreparedInv)'
  BY StepTypeInv, StepPreparedInv
<1>3. TypeInv /\ PreparedInv => PreparedHasPlugin
  BY DEF PreparedInv, Prepared, PreparedHasPlugin
<1> QED
  BY <1>1, <1>2, <1>3, PTL DEF Spec

-----------------------------------------------------------------------------
(* What the chain says of a plugin after the first n events *)

Creations == {"InstallationPrepared", "UpdateApplied"}

\* A version of plugin p was made in transaction t.
Created(h, p, t, n) ==
  \E m \in 1 .. n : h[m].plugin = p /\ h[m].tx = t /\ h[m].kind \in Creations

\* It is the last one.
Latest(h, p, t, n) ==
  Created(h, p, t, n) /\ \A m \in 1 .. n : h[m].plugin = p /\ h[m].kind \in Creations => h[m].tx <= t

\* Between a revocation and the uninstallation it belongs to.
Pending(h, p, n) ==
  \E r \in 1 .. n : /\ h[r].kind = "Revoked" /\ h[r].plugin = p
                    /\ \A g \in (r + 1) .. n : ~(h[g].kind = "Granted" /\ h[g].plugin = p)
                    /\ \E u \in DOMAIN h : /\ u > n /\ h[u].tx = h[r].tx
                                           /\ h[u].kind = "UninstallationApplied" /\ h[u].plugin = p

\* Its document is to be installed.
Due(h, p, n) ==
  Happened(h, "InstallationApplied", p, n) /\ (HasPermission(h, p, n) \/ Pending(h, p, n))

StatusOf(h, p, n) ==
  IF ~Happened(h, "InstallationApplied", p, n) THEN "preInstall"
  ELSE IF Due(h, p, n) THEN "installed" ELSE "uninstalled"

\* The collections hold of p what the handlers of its first n events make of it.
DocsGood(p, n) ==
  \A d \in Ids : d[1] = p =>
    docs[d] = IF ~Created(history, p, d[2], n) THEN "none"
              ELSE IF Latest(history, p, d[2], n) THEN StatusOf(history, p, n) ELSE "deprecated"
SupportGood(p, n) ==
  \A d \in Ids : d[1] = p => (d \in supported <=> Latest(history, p, d[2], n))
NoSlug(p) == \A s \in slugs : s[1] # p
SlugGood(p, n) ==
  IF Due(history, p, n) THEN \E s \in slugs : s[1] = p /\ \A t \in slugs : t[1] = p => t = s
  ELSE NoSlug(p)
AskedGood(p, n) == Happened(history, "InstallationApplied", p, n) => p \in asked
Good(p, n) == DocsGood(p, n) /\ SupportGood(p, n) /\ SlugGood(p, n) /\ AskedGood(p, n)

\* The events of p whose log is stored are the first n.
Reached(p, n) ==
  /\ n \in 0 .. Len(history)
  /\ \A m \in DOMAIN history : history[m].plugin = p => (m \in logs <=> m <= n)
GoodAtReach(p) == \A n \in 0 .. Len(history) : Reached(p, n) => Good(p, n)

-----------------------------------------------------------------------------
(* The invariants *)

\* The places of the handler of a kind of event.
PlacesOf(k) ==
  CASE k = "InstallationPrepared" -> {"log", "create", "settings"}
    [] k = "InstallationApplied" -> {"log", "install", "slug", "reserve", "settings"}
    [] k \in {"UpdatePrepared", "UninstallationPrepared"} -> {"log"}
    [] k = "UpdateApplied" -> {"log", "query", "create", "find", "write"}
    [] k = "UninstallationApplied" -> {"log", "find", "write", "slug"}
    [] k = "Granted" -> {"find", "write", "slug", "reserve", "permission"}
    [] k = "Revoked" -> {"find", "write", "slug", "permission"}

\* A handler holds documents of its own plugin only.
OwnInv ==
  \A c \in Crawlers : pc[c] # "idle" =>
    /\ pc[c] \in PlacesOf(Event(c).kind)
    /\ pc[c] = "write" => \A d \in held[c] : d[1] = Event(c).plugin
    /\ Event(c).kind = "UpdateApplied" /\ pc[c] \in {"create", "find", "write"} =>
         \A d \in made[c] : d[1] = Event(c).plugin

\* Where a handler of an undisturbed plugin is, and which logs are stored then.
LogFits(p, c) ==
  LET e == pos[c] k == Event(c).kind
  IN /\ pc[c] = "log" /\ k # "InstallationPrepared" => e \notin logs
     /\ k \in Permissions => e \notin logs
     /\ k \in Setup /\ pc[c] # "log" => e \in logs
     /\ k \in Setup \ {"InstallationPrepared"} => \A m \in logs : history[m].plugin = p => m <= e

\* The handlers of an undisturbed plugin work one after the other, in the order
\* of the chain, and leave their logs.
AloneAt(p) == \A c, d \in Busy(p) : c = d
BehindLogged(p) ==
  \A c \in Crawlers : \A n \in 1 .. (pos[c] - 1) : history[n].plugin = p => n \in logs
LogsClosed(p) ==
  \A n \in logs : \A m \in 1 .. n : history[n].plugin = p /\ history[m].plugin = p => m \in logs
LogsRan(p) ==
  \A n \in logs : history[n].plugin = p => n \in ran \/ \E c \in Busy(p) : pos[c] = n
RanLogged(p) == \A n \in ran : \A m \in 1 .. n : history[m].plugin = p => m \in logs

Orderly(p) ==
  /\ AloneAt(p) /\ BehindLogged(p) /\ LogsClosed(p) /\ LogsRan(p) /\ RanLogged(p)
  /\ \A c \in Busy(p) : LogFits(p, c)

OrderInv == \A p \in Plugins \ spoiled : Orderly(p)

\* What the collections hold while the first handler of event e is at work.
AtPrepared(p, c, e) ==
  CASE pc[c] = "create" -> GoodAtReach(p) \/ (Reached(p, e) /\ Good(p, e - 1))
    [] pc[c] = "settings" ->
         \/ GoodAtReach(p)
         \/ /\ Reached(p, e) /\ DocsGood(p, e) /\ SupportGood(p, e - 1)
            /\ SlugGood(p, e) /\ AskedGood(p, e)
    [] OTHER -> GoodAtReach(p)

AtApplied(p, c, e) ==
  CASE pc[c] \in {"slug", "reserve"} ->
         DocsGood(p, e) /\ SupportGood(p, e) /\ NoSlug(p)
    [] pc[c] = "settings" -> DocsGood(p, e) /\ SupportGood(p, e) /\ SlugGood(p, e)
    [] OTHER -> Good(p, e - 1)

AtUpdate(p, c, e) ==
  LET new == <<p, history[e].tx>>
  IN /\ SupportGood(p, e - 1) /\ SlugGood(p, e - 1) /\ AskedGood(p, e - 1)
     /\ IF pc[c] \in {"find", "write"}
        THEN \A d \in Ids : d[1] = p =>
               docs[d] = IF d = new \/ Created(history, p, d[2], e - 1) THEN "installed" ELSE "none"
        ELSE DocsGood(p, e - 1)
     /\ pc[c] \in {"create", "find", "write"} =>
          made[c] = {new} /\ ~Created(history, p, new[2], e - 1)
     /\ pc[c] = "write" => \E d \in Ids : /\ held[c] = {d} /\ d[1] = p
                                          /\ Created(history, p, d[2], e - 1)

\* A handler that is to change the last version, and one that has.
AtChange(p, c, e) ==
  LET k == history[e].kind
  IN CASE pc[c] = "write" ->
            /\ Good(p, e - 1)
            /\ \E d \in Ids : held[c] = {d} /\ d[1] = p /\ Latest(history, p, d[2], e - 1)
            /\ Happened(history, "InstallationApplied", p, e - 1)
            /\ Due(history, p, e) <=> k = "Granted"
            /\ k = "Granted" => ~Due(history, p, e - 1)
       [] pc[c] \in {"slug", "reserve"} ->
            /\ DocsGood(p, e) /\ SupportGood(p, e) /\ AskedGood(p, e)
            /\ Due(history, p, e) <=> k = "Granted"
            /\ k = "Granted" => NoSlug(p)
       [] pc[c] = "permission" -> Good(p, e)
       [] OTHER -> Good(p, e - 1)

AtWork(p, c, e) ==
  LET k == history[e].kind
  IN CASE k = "InstallationPrepared" -> AtPrepared(p, c, e)
       [] k = "InstallationApplied" -> AtApplied(p, c, e)
       [] k = "UpdateApplied" -> AtUpdate(p, c, e)
       [] k \in Permissions \union {"UninstallationApplied"} -> AtChange(p, c, e)
       [] OTHER -> Good(p, e - 1)

Follows(p) ==
  /\ Busy(p) = {} => GoodAtReach(p)
  /\ \A c \in Busy(p) : \A e \in DOMAIN history : e = pos[c] => AtWork(p, c, e)

FollowInv == \A p \in Plugins \ spoiled : Plain(p) => Follows(p)

SlugsApart == \A s, t \in slugs : s[2] = t[2] => s = t

-----------------------------------------------------------------------------
(* What a legal history is like *)

LEMMA LegalEvents ==
  ASSUME NEW h \in Seq(Events), Legal(h), NEW j \in 1 .. Len(h), NEW p, h[j].plugin = p
  PROVE  /\ h[j] \in Events
         /\ h[j].kind = "InstallationPrepared" => ~Happened(h, "InstallationPrepared", p, j - 1)
         /\ h[j].kind = "InstallationApplied" =>
              /\ Happened(h, "InstallationPrepared", p, j - 1)
              /\ ~Happened(h, "InstallationApplied", p, j - 1)
              /\ HasPermission(h, p, j - 1)
         /\ h[j].kind \in {"UpdatePrepared", "UninstallationPrepared"} =>
              Happened(h, "InstallationApplied", p, j - 1)
         /\ h[j].kind = "UpdateApplied" =>
              \E i \in 1 .. (j - 1) : /\ h[i].kind = "UpdatePrepared" /\ h[i].plugin = p
                                      /\ h[i].setup = h[j].setup
         /\ h[j].kind = "UninstallationApplied" =>
              /\ ~Happened(h, "UninstallationApplied", p, j - 1)
              /\ ~HasPermission(h, p, j - 1)
              /\ \E i \in 1 .. (j - 1) : /\ h[i].kind = "UninstallationPrepared" /\ h[i].plugin = p
                                         /\ h[i].setup = h[j].setup
         /\ h[j].kind = "Granted" =>
              Happened(h, "InstallationPrepared", p, j - 1) /\ ~HasPermission(h, p, j - 1)
         /\ h[j].kind = "Revoked" => HasPermission(h, p, j - 1)
<1>1. j \in DOMAIN h /\ h[j] \in Events
  OBVIOUS
<1>2. h[j].kind = "InstallationPrepared" => ~Happened(h, "InstallationPrepared", p, j - 1)
  BY <1>1 DEF Legal
<1>3. h[j].kind = "InstallationApplied" =>
        /\ Happened(h, "InstallationPrepared", p, j - 1)
        /\ ~Happened(h, "InstallationApplied", p, j - 1)
        /\ HasPermission(h, p, j - 1)
  <2> SUFFICES ASSUME h[j].kind = "InstallationApplied"
               PROVE  /\ \E i \in 1 .. (j - 1) : /\ h[i].kind = "InstallationPrepared"
                                                 /\ h[i].plugin = p
                      /\ ~Happened(h, "InstallationApplied", p, j - 1)
                      /\ HasPermission(h, p, j - 1)
    BY DEF Happened
  <2> QED
    BY <1>1 DEF Legal
<1>4. h[j].kind \in {"UpdatePrepared", "UninstallationPrepared"} =>
        Happened(h, "InstallationApplied", p, j - 1)
  BY <1>1 DEF Legal
<1>5. h[j].kind = "UpdateApplied" =>
        \E i \in 1 .. (j - 1) : /\ h[i].kind = "UpdatePrepared" /\ h[i].plugin = p
                                /\ h[i].setup = h[j].setup
  BY <1>1 DEF Legal
<1>6. h[j].kind = "UninstallationApplied" =>
        /\ ~Happened(h, "UninstallationApplied", p, j - 1)
        /\ ~HasPermission(h, p, j - 1)
        /\ \E i \in 1 .. (j - 1) : /\ h[i].kind = "UninstallationPrepared" /\ h[i].plugin = p
                                   /\ h[i].setup = h[j].setup
  BY <1>1 DEF Legal
<1>7. h[j].kind = "Granted" =>
        Happened(h, "InstallationPrepared", p, j - 1) /\ ~HasPermission(h, p, j - 1)
  BY <1>1 DEF Legal
<1>8. h[j].kind = "Revoked" => HasPermission(h, p, j - 1)
  BY <1>1 DEF Legal
<1> QED
  BY <1>1, <1>2, <1>3, <1>4, <1>5, <1>6, <1>7, <1>8

LEMMA TxGrows ==
  ASSUME NEW h \in Seq(Events), Legal(h), NEW i \in 1 .. Len(h), NEW j \in 1 .. Len(h), i <= j
  PROVE  h[i].tx <= h[j].tx /\ h[i].tx \in Nat /\ h[j].tx \in Nat
<1>1. i \in DOMAIN h /\ j \in DOMAIN h /\ h[i] \in Events /\ h[j] \in Events
  OBVIOUS
<1>2. h[i].tx \in Nat /\ h[j].tx \in Nat
  BY <1>1 DEF Events
<1> QED
  BY <1>1, <1>2 DEF Legal

LEMMA HappenedGrows ==
  ASSUME NEW h, NEW k, NEW p, NEW n \in Nat, NEW m \in Nat, n <= m, Happened(h, k, p, n)
  PROVE  Happened(h, k, p, m)
BY DEF Happened

\* A plugin is prepared before anything else of it happens.
LEMMA PreparedFirst ==
  ASSUME NEW h \in Seq(Events), Legal(h), NEW j \in 1 .. Len(h), NEW p, h[j].plugin = p,
         h[j].kind # "InstallationPrepared"
  PROVE  /\ Happened(h, "InstallationPrepared", p, j - 1)
         /\ h[j].kind \in {"UpdatePrepared", "UpdateApplied", "UninstallationPrepared",
                           "UninstallationApplied"} =>
              Happened(h, "InstallationApplied", p, j - 1)
<1>0. Len(h) \in Nat
  OBVIOUS
<1>1. ASSUME NEW i \in 1 .. Len(h), h[i].plugin = p, h[i].kind = "InstallationApplied"
      PROVE  Happened(h, "InstallationPrepared", p, i - 1)
  BY <1>1, LegalEvents
<1>2. ASSUME NEW i \in 1 .. Len(h), i <= j, Happened(h, "InstallationApplied", p, i - 1)
      PROVE  Happened(h, "InstallationPrepared", p, j - 1) /\ Happened(h, "InstallationApplied", p, j - 1)
  <2>1. PICK a \in 1 .. (i - 1) : h[a].kind = "InstallationApplied" /\ h[a].plugin = p
    BY <1>2 DEF Happened
  <2>2. a \in 1 .. Len(h) /\ a - 1 \in Nat /\ j - 1 \in Nat /\ a - 1 <= j - 1 /\ i - 1 \in Nat /\ i - 1 <= j - 1
    BY <1>0, <1>2
  <2>3. Happened(h, "InstallationPrepared", p, a - 1)
    BY <1>1, <2>1, <2>2
  <2> QED
    BY <1>2, <2>2, <2>3, HappenedGrows
<1>3. CASE h[j].kind = "InstallationApplied"
  BY <1>1, <1>3
<1>4. CASE h[j].kind \in {"UpdatePrepared", "UninstallationPrepared"}
  <2>1. Happened(h, "InstallationApplied", p, j - 1)
    BY <1>4, LegalEvents
  <2> QED
    BY <1>2, <1>4, <2>1
<1>5. CASE h[j].kind \in {"UpdateApplied", "UninstallationApplied"}
  <2>1. PICK i \in 1 .. (j - 1) : /\ h[i].plugin = p
                                  /\ h[i].kind \in {"UpdatePrepared", "UninstallationPrepared"}
    BY <1>5, LegalEvents
  <2>2. i \in 1 .. Len(h) /\ i <= j
    BY <1>0
  <2>3. Happened(h, "InstallationApplied", p, i - 1)
    BY <2>1, <2>2, LegalEvents
  <2> QED
    BY <1>2, <2>2, <2>3
<1>6. CASE h[j].kind = "Granted"
  BY <1>6, LegalEvents
<1>7. CASE h[j].kind = "Revoked"
  <2>1. HasPermission(h, p, j - 1)
    BY <1>7, LegalEvents
  <2>2. PICK g \in 1 .. (j - 1) : h[g].kind = "Granted" /\ h[g].plugin = p
    BY <2>1 DEF HasPermission
  <2>3. g \in 1 .. Len(h) /\ g - 1 \in Nat /\ j - 1 \in Nat /\ g - 1 <= j - 1
    BY <1>0
  <2>4. Happened(h, "InstallationPrepared", p, g - 1)
    BY <2>2, <2>3, LegalEvents
  <2> QED
    BY <1>7, <2>3, <2>4, HappenedGrows
<1>8. h[j].kind \in Kinds
  BY LegalEvents DEF Events
<1> QED
  BY <1>3, <1>4, <1>5, <1>6, <1>7, <1>8 DEF Kinds, Setup, Permissions

\* Before its preparation there is nothing of a plugin.
LEMMA NothingBefore ==
  ASSUME NEW h \in Seq(Events), Legal(h), NEW e \in 1 .. Len(h), NEW p, h[e].plugin = p,
         h[e].kind = "InstallationPrepared"
  PROVE  \A m \in 1 .. (e - 1) : h[m].plugin # p
<1> SUFFICES ASSUME NEW m \in 1 .. (e - 1), h[m].plugin = p PROVE FALSE
  OBVIOUS
<1>1. m \in 1 .. Len(h) /\ m - 1 \in Nat /\ e - 1 \in Nat /\ m - 1 <= e - 1 /\ m <= e - 1
  OBVIOUS
<1>2. Happened(h, "InstallationPrepared", p, e - 1)
  <2>1. CASE h[m].kind = "InstallationPrepared"
    BY <1>1, <2>1 DEF Happened
  <2>2. CASE h[m].kind # "InstallationPrepared"
    BY <1>1, <2>2, PreparedFirst, HappenedGrows
  <2> QED
    BY <2>1, <2>2
<1> QED
  BY <1>2, LegalEvents

-----------------------------------------------------------------------------
(* From one event to the next *)

LEMMA NextHappened ==
  ASSUME NEW h, NEW e \in Nat \ {0}, NEW p, NEW k
  PROVE  Happened(h, k, p, e) <=> Happened(h, k, p, e - 1) \/ (h[e].kind = k /\ h[e].plugin = p)
BY DEF Happened

LEMMA NextPermission ==
  ASSUME NEW h, NEW e \in Nat \ {0}, NEW p
  PROVE  HasPermission(h, p, e) <=>
           \/ h[e].kind = "Granted" /\ h[e].plugin = p
           \/ HasPermission(h, p, e - 1) /\ ~(h[e].kind = "Revoked" /\ h[e].plugin = p)
<1>1. ASSUME HasPermission(h, p, e), ~(h[e].kind = "Granted" /\ h[e].plugin = p)
      PROVE  HasPermission(h, p, e - 1) /\ ~(h[e].kind = "Revoked" /\ h[e].plugin = p)
  <2>1. PICK g \in 1 .. e : /\ h[g].kind = "Granted" /\ h[g].plugin = p
                            /\ \A r \in (g + 1) .. e : ~(h[r].kind = "Revoked" /\ h[r].plugin = p)
    BY <1>1 DEF HasPermission
  <2>2. g \in 1 .. (e - 1) /\ e \in (g + 1) .. e /\ \A r \in (g + 1) .. (e - 1) : r \in (g + 1) .. e
    BY <1>1, <2>1
  <2> QED
    BY <2>1, <2>2 DEF HasPermission
<1>2. ASSUME h[e].kind = "Granted" /\ h[e].plugin = p
      PROVE  HasPermission(h, p, e)
  BY <1>2 DEF HasPermission
<1>3. ASSUME HasPermission(h, p, e - 1), ~(h[e].kind = "Revoked" /\ h[e].plugin = p)
      PROVE  HasPermission(h, p, e)
  <2>1. PICK g \in 1 .. (e - 1) : /\ h[g].kind = "Granted" /\ h[g].plugin = p
               /\ \A r \in (g + 1) .. (e - 1) : ~(h[r].kind = "Revoked" /\ h[r].plugin = p)
    BY <1>3 DEF HasPermission
  <2>2. g \in 1 .. e /\ \A r \in (g + 1) .. e : r = e \/ r \in (g + 1) .. (e - 1)
    BY <2>1
  <2> QED
    BY <1>3, <2>1, <2>2 DEF HasPermission
<1> QED
  BY <1>1, <1>2, <1>3

LEMMA NextCreated ==
  ASSUME NEW h, NEW e \in Nat \ {0}, NEW p, NEW t
  PROVE  Created(h, p, t, e) <=>
           \/ Created(h, p, t, e - 1)
           \/ h[e].plugin = p /\ h[e].tx = t /\ h[e].kind \in Creations
BY DEF Created

\* Where there is no creation the last one stays.
LEMMA NextLatest ==
  ASSUME NEW h, NEW e \in Nat \ {0}, NEW p, NEW t, ~(h[e].plugin = p /\ h[e].kind \in Creations)
  PROVE  Latest(h, p, t, e) <=> Latest(h, p, t, e - 1)
BY NextCreated DEF Latest

LEMMA NextPending ==
  ASSUME NEW h \in Seq(Events), Legal(h), NEW e \in 1 .. Len(h), NEW p, h[e].plugin = p
  PROVE  /\ h[e].kind \notin Permissions \union {"UninstallationApplied"} =>
              (Pending(h, p, e) <=> Pending(h, p, e - 1))
         /\ h[e].kind \in {"Granted", "UninstallationApplied"} => ~Pending(h, p, e)
         /\ h[e].kind = "Revoked" => (Pending(h, p, e) <=> Uninstalls(h, p, e))
<1>0. Len(h) \in Nat /\ DOMAIN h = 1 .. Len(h) /\ e \in Nat
  OBVIOUS
<1>1. ASSUME h[e].kind \notin Permissions \union {"UninstallationApplied"}, Pending(h, p, e)
      PROVE  Pending(h, p, e - 1)
  <2>1. PICK r \in 1 .. e :
          /\ h[r].kind = "Revoked" /\ h[r].plugin = p
          /\ \A g \in (r + 1) .. e : ~(h[g].kind = "Granted" /\ h[g].plugin = p)
          /\ \E u \in DOMAIN h : /\ u > e /\ h[u].tx = h[r].tx
                                 /\ h[u].kind = "UninstallationApplied" /\ h[u].plugin = p
    BY <1>1 DEF Pending
  <2>2. r \in 1 .. (e - 1) /\ \A g \in (r + 1) .. (e - 1) : g \in (r + 1) .. e
    BY <1>0, <1>1, <2>1 DEF Permissions
  <2>3. \E u \in DOMAIN h : /\ u > e - 1 /\ h[u].tx = h[r].tx
                            /\ h[u].kind = "UninstallationApplied" /\ h[u].plugin = p
    BY <1>0, <2>1
  <2> QED
    BY <2>1, <2>2, <2>3 DEF Pending
<1>2. ASSUME h[e].kind \notin Permissions \union {"UninstallationApplied"}, Pending(h, p, e - 1)
      PROVE  Pending(h, p, e)
  <2>1. PICK r \in 1 .. (e - 1) :
          /\ h[r].kind = "Revoked" /\ h[r].plugin = p
          /\ \A g \in (r + 1) .. (e - 1) : ~(h[g].kind = "Granted" /\ h[g].plugin = p)
          /\ \E u \in DOMAIN h : /\ u > e - 1 /\ h[u].tx = h[r].tx
                                 /\ h[u].kind = "UninstallationApplied" /\ h[u].plugin = p
    BY <1>2 DEF Pending
  <2>2. r \in 1 .. e /\ \A g \in (r + 1) .. e : g = e \/ g \in (r + 1) .. (e - 1)
    BY <1>0, <2>1
  <2>3. h[e].kind # "Granted" /\ h[e].kind # "UninstallationApplied"
    BY <1>2 DEF Permissions
  <2>4. \E u \in DOMAIN h : /\ u > e /\ h[u].tx = h[r].tx
                            /\ h[u].kind = "UninstallationApplied" /\ h[u].plugin = p
    <3>1. PICK u \in DOMAIN h : /\ u > e - 1 /\ h[u].tx = h[r].tx
                                /\ h[u].kind = "UninstallationApplied" /\ h[u].plugin = p
      BY <2>1
    <3>2. u # e
      BY <2>3, <3>1
    <3> QED
      BY <1>0, <3>1, <3>2
  <2> QED
    BY <2>1, <2>2, <2>3, <2>4 DEF Pending
<1>3. ASSUME h[e].kind = "Granted" PROVE ~Pending(h, p, e)
  <2> SUFFICES ASSUME NEW r \in 1 .. e, h[r].kind = "Revoked",
                      \A g \in (r + 1) .. e : ~(h[g].kind = "Granted" /\ h[g].plugin = p)
               PROVE  FALSE
    BY DEF Pending
  <2>1. r # e
    BY <1>3
  <2>2. e \in (r + 1) .. e
    BY <1>0, <2>1
  <2> QED
    BY <1>3, <2>2
<1>4. ASSUME h[e].kind = "UninstallationApplied" PROVE ~Pending(h, p, e)
  <2> SUFFICES ASSUME NEW u \in 1 .. Len(h), u > e,
                      h[u].kind = "UninstallationApplied", h[u].plugin = p
               PROVE  FALSE
    BY <1>0 DEF Pending
  <2>1. ~Happened(h, "UninstallationApplied", p, u - 1)
    BY LegalEvents
  <2>2. e \in 1 .. (u - 1)
    BY <1>0
  <2> QED
    BY <1>4, <2>1, <2>2 DEF Happened
<1>5. ASSUME h[e].kind = "Revoked", Uninstalls(h, p, e) PROVE Pending(h, p, e)
  <2>1. \A g \in (e + 1) .. e : FALSE
    BY <1>0
  <2> QED
    BY <1>0, <1>5, <2>1 DEF Pending, Uninstalls
<1>6. ASSUME h[e].kind = "Revoked", Pending(h, p, e) PROVE Uninstalls(h, p, e)
  <2>1. PICK r \in 1 .. e :
          /\ h[r].kind = "Revoked" /\ h[r].plugin = p
          /\ \A g \in (r + 1) .. e : ~(h[g].kind = "Granted" /\ h[g].plugin = p)
          /\ \E u \in DOMAIN h : /\ u > e /\ h[u].tx = h[r].tx
                                 /\ h[u].kind = "UninstallationApplied" /\ h[u].plugin = p
    BY <1>6 DEF Pending
  <2>2. HasPermission(h, p, e - 1)
    BY <1>6, LegalEvents
  <2>3. PICK g \in 1 .. (e - 1) :
          /\ h[g].kind = "Granted" /\ h[g].plugin = p
          /\ \A x \in (g + 1) .. (e - 1) : ~(h[x].kind = "Revoked" /\ h[x].plugin = p)
    BY <2>2 DEF HasPermission
  <2>4. r = e
    <3>1. ~(g \in (r + 1) .. e) /\ ~(r \in (g + 1) .. (e - 1))
      BY <2>1, <2>3
    <3>2. r # g
      BY <2>1, <2>3
    <3> QED
      BY <1>0, <3>1, <3>2
  <2> QED
    BY <2>1, <2>4 DEF Uninstalls
<1> QED
  BY <1>1, <1>2, <1>3, <1>4, <1>5, <1>6

\* Whether a document is due, from one event to the next.
LEMMA NextDue ==
  ASSUME NEW h \in Seq(Events), Legal(h), NEW e \in 1 .. Len(h), NEW p, h[e].plugin = p
  PROVE  /\ h[e].kind = "InstallationPrepared" =>
              ~Due(h, p, e) /\ ~Due(h, p, e - 1) /\ ~Happened(h, "InstallationApplied", p, e)
         /\ h[e].kind = "InstallationApplied" => Due(h, p, e) /\ ~Due(h, p, e - 1)
         /\ h[e].kind \in {"UpdatePrepared", "UpdateApplied", "UninstallationPrepared"} =>
              (Due(h, p, e) <=> Due(h, p, e - 1))
         /\ h[e].kind = "UninstallationApplied" => ~Due(h, p, e)
         /\ h[e].kind = "Granted" => (Due(h, p, e) <=> Happened(h, "InstallationApplied", p, e - 1))
         /\ h[e].kind = "Revoked" =>
              /\ Due(h, p, e - 1) <=> Happened(h, "InstallationApplied", p, e - 1)
              /\ Due(h, p, e) <=> Due(h, p, e - 1) /\ Uninstalls(h, p, e)
         /\ h[e].kind # "InstallationApplied" =>
              (Happened(h, "InstallationApplied", p, e) <=> Happened(h, "InstallationApplied", p, e - 1))
<1>0. e \in Nat \ {0} /\ h[e] \in Events
  BY LegalEvents
<1>1. h[e].kind # "InstallationApplied" =>
        (Happened(h, "InstallationApplied", p, e) <=> Happened(h, "InstallationApplied", p, e - 1))
  BY <1>0, NextHappened
<1>2. CASE h[e].kind = "InstallationPrepared"
  <2>1. ~Happened(h, "InstallationApplied", p, e - 1)
    BY <1>2, NothingBefore DEF Happened
  <2> QED
    BY <1>1, <1>2, <2>1 DEF Due
<1>3. CASE h[e].kind = "InstallationApplied"
  <2>1. HasPermission(h, p, e - 1) /\ ~Happened(h, "InstallationApplied", p, e - 1)
    BY <1>3, LegalEvents
  <2>2. HasPermission(h, p, e) /\ Happened(h, "InstallationApplied", p, e)
    BY <1>0, <1>3, <2>1, NextPermission, NextHappened
  <2> QED
    BY <1>3, <2>1, <2>2 DEF Due
<1>4. CASE h[e].kind \in {"UpdatePrepared", "UpdateApplied", "UninstallationPrepared"}
  <2>1. HasPermission(h, p, e) <=> HasPermission(h, p, e - 1)
    BY <1>0, <1>4, NextPermission
  <2>2. Pending(h, p, e) <=> Pending(h, p, e - 1)
    BY <1>4, NextPending DEF Permissions
  <2> QED
    BY <1>1, <1>4, <2>1, <2>2 DEF Due
<1>5. CASE h[e].kind = "UninstallationApplied"
  <2>1. ~HasPermission(h, p, e - 1)
    BY <1>5, LegalEvents
  <2>2. ~HasPermission(h, p, e) /\ ~Pending(h, p, e)
    BY <1>0, <1>5, <2>1, NextPermission, NextPending
  <2> QED
    BY <1>1, <1>5, <2>2 DEF Due
<1>6. CASE h[e].kind = "Granted"
  <2>1. HasPermission(h, p, e)
    BY <1>0, <1>6, NextPermission
  <2> QED
    BY <1>1, <1>6, <2>1 DEF Due
<1>7. CASE h[e].kind = "Revoked"
  <2>1. HasPermission(h, p, e - 1)
    BY <1>7, LegalEvents
  <2>2. ~HasPermission(h, p, e) /\ (Pending(h, p, e) <=> Uninstalls(h, p, e))
    BY <1>0, <1>7, NextPermission, NextPending
  <2> QED
    BY <1>1, <1>7, <2>1, <2>2 DEF Due
<1> QED
  BY <1>0, <1>1, <1>2, <1>3, <1>4, <1>5, <1>6, <1>7 DEF Events, Kinds, Setup, Permissions

-----------------------------------------------------------------------------
(* Prefixes with the same events of a plugin *)

SameEvents(h, p, n, m) == \A i \in DOMAIN h : h[i].plugin = p => (i <= n <=> i <= m)

LEMMA SameGoes ==
  ASSUME NEW h \in Seq(Events), NEW p, NEW n \in 0 .. Len(h), NEW m \in 0 .. Len(h),
         SameEvents(h, p, n, m)
  PROVE  /\ \A k : Happened(h, k, p, n) => Happened(h, k, p, m)
         /\ HasPermission(h, p, n) => HasPermission(h, p, m)
         /\ Pending(h, p, n) => Pending(h, p, m)
         /\ \A t : Created(h, p, t, n) => Created(h, p, t, m)
<1>0. Len(h) \in Nat /\ DOMAIN h = 1 .. Len(h)
  OBVIOUS
<1>1. \A i \in 1 .. Len(h) : h[i].plugin = p => (i \in 1 .. n <=> i \in 1 .. m)
  BY <1>0 DEF SameEvents
<1>2. /\ \A i \in 1 .. n : i \in 1 .. Len(h)
      /\ \A i \in 1 .. m : i \in 1 .. Len(h)
  BY <1>0
<1>3. ASSUME NEW k, Happened(h, k, p, n) PROVE Happened(h, k, p, m)
  BY <1>1, <1>2, <1>3 DEF Happened
<1>4. ASSUME NEW i \in 1 .. Len(h), NEW x \in (i + 1) .. m, h[x].plugin = p
      PROVE  x \in (i + 1) .. n
  <2>1. x \in 1 .. Len(h) /\ x \in 1 .. m
    BY <1>0
  <2>2. x \in 1 .. n
    BY <1>1, <1>4, <2>1
  <2> QED
    BY <2>2
<1>5. ASSUME HasPermission(h, p, n) PROVE HasPermission(h, p, m)
  <2>1. PICK g \in 1 .. n : /\ h[g].kind = "Granted" /\ h[g].plugin = p
                            /\ \A r \in (g + 1) .. n : ~(h[r].kind = "Revoked" /\ h[r].plugin = p)
    BY <1>5 DEF HasPermission
  <2>2. g \in 1 .. m /\ g \in 1 .. Len(h)
    BY <1>1, <1>2, <2>1
  <2>3. \A r \in (g + 1) .. m : ~(h[r].kind = "Revoked" /\ h[r].plugin = p)
    BY <1>4, <2>1, <2>2
  <2> QED
    BY <2>1, <2>2, <2>3 DEF HasPermission
<1>6. ASSUME Pending(h, p, n) PROVE Pending(h, p, m)
  <2>1. PICK r \in 1 .. n :
          /\ h[r].kind = "Revoked" /\ h[r].plugin = p
          /\ \A g \in (r + 1) .. n : ~(h[g].kind = "Granted" /\ h[g].plugin = p)
          /\ \E u \in DOMAIN h : /\ u > n /\ h[u].tx = h[r].tx
                                 /\ h[u].kind = "UninstallationApplied" /\ h[u].plugin = p
    BY <1>6 DEF Pending
  <2>2. PICK u \in 1 .. Len(h) : /\ u > n /\ h[u].tx = h[r].tx
                                 /\ h[u].kind = "UninstallationApplied" /\ h[u].plugin = p
    BY <1>0, <2>1
  <2>3. u > m
    BY <1>0, <1>1, <2>2
  <2>4. r \in 1 .. m /\ r \in 1 .. Len(h)
    BY <1>1, <1>2, <2>1
  <2>5. \A g \in (r + 1) .. m : ~(h[g].kind = "Granted" /\ h[g].plugin = p)
    BY <1>4, <2>1, <2>4
  <2> QED
    BY <1>0, <2>1, <2>2, <2>3, <2>4, <2>5 DEF Pending
<1>7. ASSUME NEW t, Created(h, p, t, n) PROVE Created(h, p, t, m)
  BY <1>1, <1>2, <1>7 DEF Created
<1> QED
  BY <1>3, <1>5, <1>6, <1>7

LEMMA SameHistory ==
  ASSUME NEW h \in Seq(Events), NEW p, NEW n \in 0 .. Len(h), NEW m \in 0 .. Len(h),
         SameEvents(h, p, n, m)
  PROVE  /\ \A k : Happened(h, k, p, n) <=> Happened(h, k, p, m)
         /\ HasPermission(h, p, n) <=> HasPermission(h, p, m)
         /\ \A t : Created(h, p, t, n) <=> Created(h, p, t, m)
         /\ \A t : Latest(h, p, t, n) <=> Latest(h, p, t, m)
         /\ Due(h, p, n) <=> Due(h, p, m)
         /\ StatusOf(h, p, n) = StatusOf(h, p, m)
<1>0. Len(h) \in Nat /\ DOMAIN h = 1 .. Len(h)
  OBVIOUS
<1>1. SameEvents(h, p, m, n)
  BY DEF SameEvents
<1>2. /\ \A k : Happened(h, k, p, n) <=> Happened(h, k, p, m)
      /\ HasPermission(h, p, n) <=> HasPermission(h, p, m)
      /\ Pending(h, p, n) <=> Pending(h, p, m)
      /\ \A t : Created(h, p, t, n) <=> Created(h, p, t, m)
  BY <1>1, SameGoes
<1>3. \A i \in 1 .. Len(h) : h[i].plugin = p => (i \in 1 .. n <=> i \in 1 .. m)
  BY <1>0 DEF SameEvents
<1>4. /\ \A i \in 1 .. n : i \in 1 .. Len(h)
      /\ \A i \in 1 .. m : i \in 1 .. Len(h)
  BY <1>0
<1>5. \A t : Latest(h, p, t, n) <=> Latest(h, p, t, m)
  BY <1>2, <1>3, <1>4 DEF Latest
<1>6. Due(h, p, n) <=> Due(h, p, m)
  BY <1>2 DEF Due
<1>7. StatusOf(h, p, n) = StatusOf(h, p, m)
  BY <1>2, <1>6 DEF StatusOf
<1> QED
  BY <1>2, <1>5, <1>6, <1>7

\* Whoever shows it for one prefix has it for all.
LEMMA GoodOnce ==
  ASSUME TypeInv, UNCHANGED history, NEW p, NEW n, Reached(p, n)', Good(p, n)'
  PROVE  GoodAtReach(p)'
<1> SUFFICES ASSUME NEW m \in 0 .. Len(history'), Reached(p, m)' PROVE Good(p, m)'
  BY DEF GoodAtReach
<1>1. history \in Seq(Events) /\ n \in 0 .. Len(history) /\ m \in 0 .. Len(history)
  BY DEF TypeInv, TypeOK, Reached
<1>2. SameEvents(history, p, n, m)
  BY DEF Reached, SameEvents
<1>3. /\ \A k : Happened(history, k, p, n) <=> Happened(history, k, p, m)
      /\ \A t : Created(history, p, t, n) <=> Created(history, p, t, m)
      /\ \A t : Latest(history, p, t, n) <=> Latest(history, p, t, m)
      /\ Due(history, p, n) <=> Due(history, p, m)
      /\ StatusOf(history, p, n) = StatusOf(history, p, m)
  BY <1>1, <1>2, SameHistory
<1>4. DocsGood(p, m)'
  BY <1>3 DEF Good, DocsGood
<1>5. SupportGood(p, m)'
  BY <1>3 DEF Good, SupportGood
<1>6. SlugGood(p, m)' /\ AskedGood(p, m)'
  BY <1>3 DEF Good, SlugGood, AskedGood
<1> QED
  BY <1>4, <1>5, <1>6 DEF Good

-----------------------------------------------------------------------------
(* The versions of a plugin *)

LEMMA CreatedAt ==
  ASSUME NEW h \in Seq(Events), NEW n \in 0 .. Len(h), NEW p, NEW t, Created(h, p, t, n)
  PROVE  \E m \in 1 .. n : /\ m \in 1 .. Len(h) /\ h[m].plugin = p /\ h[m].tx = t
                           /\ h[m].kind \in Creations /\ t \in Nat
<1>1. PICK m \in 1 .. n : h[m].plugin = p /\ h[m].tx = t /\ h[m].kind \in Creations
  BY DEF Created
<1>2. m \in 1 .. Len(h) /\ m \in DOMAIN h
  OBVIOUS
<1>3. h[m] \in Events
  BY <1>2
<1> QED
  BY <1>1, <1>2, <1>3 DEF Events

LEMMA OnePreparation ==
  ASSUME NEW h \in Seq(Events), Legal(h), NEW p, NEW a \in 1 .. Len(h), NEW b \in 1 .. Len(h),
         h[a].plugin = p, h[b].plugin = p,
         h[a].kind = "InstallationPrepared", h[b].kind = "InstallationPrepared"
  PROVE  a = b
<1>1. ~(a \in 1 .. (b - 1)) /\ ~(b \in 1 .. (a - 1))
  BY NothingBefore
<1> QED
  BY <1>1

LEMMA LatestUnique ==
  ASSUME NEW h \in Seq(Events), NEW n \in 0 .. Len(h), NEW p, NEW s, NEW t,
         Latest(h, p, s, n), Latest(h, p, t, n)
  PROVE  s = t
<1>1. PICK a \in 1 .. n : h[a].plugin = p /\ h[a].tx = s /\ h[a].kind \in Creations /\ s \in Nat
  BY CreatedAt DEF Latest
<1>2. PICK b \in 1 .. n : h[b].plugin = p /\ h[b].tx = t /\ h[b].kind \in Creations /\ t \in Nat
  BY CreatedAt DEF Latest
<1>3. s <= t /\ t <= s
  BY <1>1, <1>2 DEF Latest
<1> QED
  BY <1>1, <1>2, <1>3

\* Without an update there is one version.
LEMMA OneVersion ==
  ASSUME NEW h \in Seq(Events), Legal(h), NEW n \in 0 .. Len(h), NEW p,
         ~Happened(h, "UpdateApplied", p, n), NEW t, Created(h, p, t, n)
  PROVE  Latest(h, p, t, n) /\ \A s : Created(h, p, s, n) => s = t
<1>1. PICK m \in 1 .. n : /\ m \in 1 .. Len(h) /\ h[m].plugin = p /\ h[m].tx = t
                          /\ h[m].kind \in Creations /\ t \in Nat
  BY CreatedAt
<1>2. \A a \in 1 .. n : h[a].plugin = p /\ h[a].kind \in Creations =>
        h[a].kind = "InstallationPrepared"
  BY DEF Happened, Creations
<1>3. ASSUME NEW a \in 1 .. n, h[a].plugin = p, h[a].kind \in Creations PROVE a = m
  <2>1. a \in 1 .. Len(h)
    OBVIOUS
  <2> QED
    BY <1>1, <1>2, <1>3, <2>1, OnePreparation
<1>4. \A s : Created(h, p, s, n) => s = t
  BY <1>1, <1>3, CreatedAt
<1>5. Latest(h, p, t, n)
  BY <1>1, <1>3 DEF Latest
<1> QED
  BY <1>4, <1>5

LEMMA PreparedCreated ==
  ASSUME NEW h \in Seq(Events), NEW n \in 0 .. Len(h), NEW p, Happened(h, "InstallationPrepared", p, n)
  PROVE  \E i \in DOMAIN h : Created(h, p, h[i].tx, n)
<1>1. PICK i \in 1 .. n : h[i].kind = "InstallationPrepared" /\ h[i].plugin = p
  BY DEF Happened
<1>2. i \in DOMAIN h
  OBVIOUS
<1> QED
  BY <1>1, <1>2 DEF Created, Creations

\* The first preparation makes the first version.
LEMMA FirstVersion ==
  ASSUME NEW h \in Seq(Events), Legal(h), NEW e \in 1 .. Len(h), NEW p, h[e].plugin = p,
         h[e].kind = "InstallationPrepared", NEW t
  PROVE  /\ ~Created(h, p, t, e - 1) /\ ~Latest(h, p, t, e - 1)
         /\ Created(h, p, t, e) <=> t = h[e].tx
         /\ Latest(h, p, t, e) <=> t = h[e].tx
<1>1. \A m \in 1 .. (e - 1) : h[m].plugin # p
  BY NothingBefore
<1>2. ~Created(h, p, t, e - 1)
  BY <1>1 DEF Created
<1>3. Created(h, p, t, e) <=> t = h[e].tx
  BY <1>2, NextCreated DEF Creations
<1>4. h[e].tx <= h[e].tx
  BY TxGrows
<1>5. ASSUME t = h[e].tx PROVE Latest(h, p, t, e)
  <2>1. \A m \in 1 .. e : h[m].plugin = p => m = e
    BY <1>1
  <2> QED
    BY <1>3, <1>4, <1>5, <2>1 DEF Latest
<1> QED
  BY <1>2, <1>3, <1>5 DEF Latest

\* The only update makes the last one.
LEMMA LastVersion ==
  ASSUME NEW h \in Seq(Events), Legal(h), NEW e \in 1 .. Len(h), NEW p, h[e].plugin = p,
         h[e].kind = "UpdateApplied", NEW t
  PROVE  /\ Created(h, p, t, e) <=> Created(h, p, t, e - 1) \/ t = h[e].tx
         /\ Latest(h, p, t, e) <=> t = h[e].tx
<1>1. Created(h, p, t, e) <=> Created(h, p, t, e - 1) \/ t = h[e].tx
  BY NextCreated DEF Creations
<1>2. \A m \in 1 .. e : h[m].tx <= h[e].tx
  BY TxGrows
<1>3. Latest(h, p, h[e].tx, e)
  <2>1. Created(h, p, h[e].tx, e)
    BY NextCreated DEF Creations
  <2> QED
    BY <1>2, <2>1 DEF Latest
<1> QED
  BY <1>1, <1>3, LatestUnique

OneUpdate(h, p) ==
  \A x \in DOMAIN h : h[x].plugin = p /\ h[x].kind = "UpdateApplied" =>
    ~Happened(h, "UpdateApplied", p, x - 1)

\* A plugin that was prepared has a last version.
LEMMA SomeLatest ==
  ASSUME NEW h \in Seq(Events), Legal(h), NEW n \in 0 .. Len(h), NEW p, OneUpdate(h, p),
         Happened(h, "InstallationPrepared", p, n)
  PROVE  \E i \in DOMAIN h : Latest(h, p, h[i].tx, n)
<1>0. Len(h) \in Nat /\ DOMAIN h = 1 .. Len(h)
  OBVIOUS
<1>1. CASE ~Happened(h, "UpdateApplied", p, n)
  BY <1>1, PreparedCreated, OneVersion
<1>2. CASE Happened(h, "UpdateApplied", p, n)
  <2>1. PICK x \in 1 .. n : h[x].kind = "UpdateApplied" /\ h[x].plugin = p
    BY <1>2 DEF Happened
  <2>2. x \in 1 .. Len(h)
    OBVIOUS
  <2>3. Latest(h, p, h[x].tx, x)
    BY <2>1, <2>2, LastVersion
  <2>4. ASSUME NEW m \in 1 .. n, h[m].plugin = p, h[m].kind \in Creations PROVE m \in 1 .. x
    <3>1. m \in 1 .. Len(h)
      OBVIOUS
    <3>2. CASE h[m].kind = "UpdateApplied"
      <4>1. ~(x \in 1 .. (m - 1))
        BY <1>0, <2>1, <2>4, <3>1, <3>2 DEF OneUpdate, Happened
      <4> QED
        BY <4>1
    <3>3. CASE h[m].kind = "InstallationPrepared"
      <4>1. ~(x \in 1 .. (m - 1))
        BY <2>1, <2>4, <3>1, <3>3, NothingBefore
      <4> QED
        BY <4>1
    <3> QED
      BY <2>4, <3>2, <3>3 DEF Creations
  <2>5. Latest(h, p, h[x].tx, n)
    BY <2>1, <2>3, <2>4 DEF Latest, Created
  <2> QED
    BY <1>0, <2>2, <2>5
<1> QED
  BY <1>1, <1>2

-----------------------------------------------------------------------------
(* What a step changes *)

\* A step of crawler c, of whatever kind.
StepOf(c) == Step(c) \/ Crash(c) \/ HandlerFails(c) \/ Redeliver(c)

LEMMA StepFrame ==
  ASSUME TypeInv, NEW c \in Crawlers, StepOf(c)
  PROVE  /\ UNCHANGED history
         /\ \A d \in Crawlers : d # c => /\ pc'[d] = pc[d] /\ pos'[d] = pos[d]
                                         /\ made'[d] = made[d] /\ held'[d] = held[d]
         /\ spoiled \subseteq spoiled' /\ logs \subseteq logs' /\ ran \subseteq ran'
         /\ ran' \subseteq ran \union {pos[c]}
         /\ pos[c] \in Nat /\ pos'[c] \in Nat /\ pos'[c] <= pos[c] + 1
         /\ pc'[c] = "idle" \/ pos'[c] = pos[c]
<1> USE DEF Goto, Done, TypeInv, TypeOK, database
<1>1. CASE Receive(c)
  BY <1>1 DEF Receive
<1>2. CASE StoreLog(c)
  BY <1>2 DEF StoreLog
<1>3. CASE QueryUpdate(c)
  BY <1>3 DEF QueryUpdate
<1>4. CASE CreatePlugin(c) \/ InstallPlugin(c) \/ WritePlugin(c)
  BY <1>4 DEF CreatePlugin, InstallPlugin, WritePlugin
<1>5. CASE FindPlugin(c)
  BY <1>5 DEF FindPlugin
<1>6. CASE KeepSlug(c) \/ ReserveSlug(c)
  BY <1>6 DEF KeepSlug, ReserveSlug, AfterSlug
<1>7. CASE Settings(c) \/ LogPermission(c)
  BY <1>7 DEF Settings, LogPermission
<1>8. CASE Crash(c) \/ HandlerFails(c)
  BY <1>8 DEF Crash, HandlerFails
<1>9. CASE Redeliver(c)
  BY <1>9 DEF Redeliver
<1> QED
  BY <1>1, <1>2, <1>3, <1>4, <1>5, <1>6, <1>7, <1>8, <1>9 DEF StepOf, Step

\* What the collections hold of p stays.
Untouched(p) ==
  /\ \A d \in Ids : d[1] = p => docs'[d] = docs[d] /\ (d \in supported' <=> d \in supported)
  /\ \A s : s[1] = p => (s \in slugs' <=> s \in slugs)
  /\ p \in asked' <=> p \in asked
  /\ \A m \in DOMAIN history : history[m].plugin = p => (m \in logs' <=> m \in logs)

LEMMA ForeignStep ==
  ASSUME TypeInv, OwnInv, NEW c \in Crawlers, StepOf(c), NEW p,
         pc[c] = "idle" \/ Event(c).plugin # p
  PROVE  Untouched(p)
<1> USE DEF Untouched, TypeInv, TypeOK
<1>1. CASE Receive(c) \/ Crash(c) \/ HandlerFails(c) \/ Redeliver(c) \/ QueryUpdate(c) \/ FindPlugin(c)
  BY <1>1 DEF Receive, Crash, HandlerFails, Redeliver, QueryUpdate, FindPlugin, database
<1>2. CASE StoreLog(c) \/ LogPermission(c)
  BY <1>2 DEF StoreLog, LogPermission, Event
<1>3. CASE CreatePlugin(c)
  <2>1. Event(c).plugin # p /\ UNCHANGED <<logs, supported, slugs, asked>>
    BY <1>3 DEF CreatePlugin
  <2>2. \A d \in Ids : d[1] = p => docs'[d] = docs[d]
    <3>1. CASE Event(c).kind = "InstallationPrepared"
      BY <1>3, <2>1, <3>1 DEF CreatePlugin
    <3>2. CASE Event(c).kind = "UpdateApplied"
      <4>1. \A d \in made[c] : d[1] # p
        BY <1>3, <2>1, <3>2 DEF CreatePlugin, OwnInv
      <4> QED
        BY <1>3, <3>2, <4>1 DEF CreatePlugin
    <3> QED
      BY <1>3, <3>1, <3>2 DEF CreatePlugin
  <2> QED
    BY <2>1, <2>2
<1>4. CASE InstallPlugin(c)
  BY <1>4 DEF InstallPlugin, Documents
<1>5. CASE WritePlugin(c)
  <2>1. Event(c).plugin # p /\ UNCHANGED <<logs, slugs, asked>>
    BY <1>5 DEF WritePlugin
  <2>2. \A d \in held[c] : d[1] # p
    BY <1>5, <2>1 DEF WritePlugin, OwnInv
  <2>3. Event(c).kind = "UpdateApplied" => \A d \in made[c] : d[1] # p
    BY <1>5, <2>1 DEF WritePlugin, OwnInv
  <2> QED
    BY <1>5, <2>1, <2>2, <2>3 DEF WritePlugin
<1>6. CASE KeepSlug(c)
  BY <1>6 DEF KeepSlug
<1>7. CASE ReserveSlug(c)
  <2>1. Event(c).plugin # p /\ UNCHANGED <<logs, docs, supported, asked>>
    BY <1>7 DEF ReserveSlug
  <2>2. \/ UNCHANGED slugs
        \/ slugs' = slugs \union {<<Event(c).plugin, suffix[c]>>}
    BY <1>7 DEF ReserveSlug
  <2> QED
    BY <2>1, <2>2
<1>8. CASE Settings(c)
  <2>1. Event(c).plugin # p /\ UNCHANGED <<logs, docs, slugs>>
    BY <1>8 DEF Settings
  <2>2. \A d \in ByAddress(Event(c).plugin) : d[1] # p
    BY <2>1 DEF ByAddress, Documents
  <2> QED
    BY <1>8, <2>1, <2>2 DEF Settings
<1> QED
  BY <1>1, <1>2, <1>3, <1>4, <1>5, <1>6, <1>7, <1>8 DEF StepOf, Step

-----------------------------------------------------------------------------
(* Handlers hold their own *)

LEMMA TargetOwn ==
  ASSUME NEW c \in Crawlers, Event(c).kind \in Changing
  PROVE  \A d \in Target(c) : d \in Ids /\ d[1] = Event(c).plugin
BY DEF Target, Changing, Permissions, ByAddress, Documents

LEMMA StepOwnInv ==
  ASSUME TypeInv, OwnInv, NEW c \in Crawlers, StepOf(c)
  PROVE  OwnInv'
<1>1. /\ UNCHANGED history
      /\ \A d \in Crawlers : d # c => /\ pc'[d] = pc[d] /\ pos'[d] = pos[d]
                                      /\ made'[d] = made[d] /\ held'[d] = held[d]
      /\ pc'[c] = "idle" \/ pos'[c] = pos[c]
  BY StepFrame
<1> SUFFICES ASSUME pc'[c] # "idle"
             PROVE  /\ pc'[c] \in PlacesOf(Event(c).kind)
                    /\ pc'[c] = "write" => \A d \in held'[c] : d[1] = Event(c).plugin
                    /\ Event(c).kind = "UpdateApplied" /\ pc'[c] \in {"create", "find", "write"} =>
                         \A d \in made'[c] : d[1] = Event(c).plugin
  BY <1>1 DEF OwnInv, Event
<1> USE DEF Goto, Done, TypeInv, TypeOK
<1>2. CASE Receive(c)
  <2>1. pos[c] <= Len(history) /\ pc'[c] = IF Event(c).kind \in Permissions THEN "find" ELSE "log"
    BY <1>2 DEF Receive
  <2>2. Event(c).kind \in Kinds
    BY <2>1, EventType
  <2> QED
    BY <2>1, <2>2 DEF PlacesOf, Kinds, Setup, Permissions
<1>3. CASE StoreLog(c)
  BY <1>3 DEF StoreLog, PlacesOf
<1>4. CASE QueryUpdate(c)
  <2>1. pc[c] \in PlacesOf(Event(c).kind) /\ pc[c] = "query"
    BY <1>4 DEF QueryUpdate, OwnInv
  <2>2. Event(c).kind = "UpdateApplied"
    <3>1. Event(c).kind \in Kinds
      BY <2>1, EventType
    <3> QED
      BY <2>1, <3>1 DEF PlacesOf, Kinds, Setup, Permissions
  <2>3. PICK d \in Pairs(Event(c).plugin, "UpdatePrepared", "UpdateApplied") :
          made' = [made EXCEPT ![c] = {d}] /\ pc' = [pc EXCEPT ![c] = "create"]
    BY <1>4 DEF QueryUpdate
  <2>4. d[1] = Event(c).plugin
    BY DEF Pairs
  <2> QED
    BY <2>2, <2>3, <2>4 DEF PlacesOf
<1>5. CASE CreatePlugin(c)
  BY <1>5 DEF CreatePlugin, PlacesOf, OwnInv
<1>6. CASE InstallPlugin(c)
  <2>1. pc[c] \in PlacesOf(Event(c).kind) /\ pc[c] = "install" /\ pc'[c] \in {"slug", "settings"}
    BY <1>6 DEF InstallPlugin, OwnInv
  <2>2. Event(c).kind \in Kinds
    BY <2>1, EventType
  <2>3. Event(c).kind = "InstallationApplied"
    BY <2>1, <2>2 DEF PlacesOf, Kinds, Setup, Permissions
  <2> QED
    BY <2>1, <2>3 DEF PlacesOf
<1>7. CASE FindPlugin(c)
  <2>1. pc[c] \in PlacesOf(Event(c).kind) /\ pc[c] = "find" /\ Event(c).kind \in Changing
    BY <1>7 DEF FindPlugin, OwnInv, PlacesFit
  <2>2. CASE pc'[c] = "write"
    <3>1. PICK d \in Target(c) : held' = [held EXCEPT ![c] = {d}]
      BY <1>7, <2>2 DEF FindPlugin
    <3>2. d[1] = Event(c).plugin
      BY <2>1, TargetOwn
    <3>3. \A x \in held'[c] : x[1] = Event(c).plugin
      BY <3>1, <3>2
    <3>4. "write" \in PlacesOf(Event(c).kind)
      BY <2>1 DEF PlacesOf, Changing, Permissions
    <3>5. made'[c] = made[c]
      BY <1>7 DEF FindPlugin
    <3> QED
      BY <2>1, <2>2, <3>3, <3>4, <3>5 DEF OwnInv
  <2>3. CASE pc'[c] # "write"
    <3>1. Event(c).kind \in Permissions /\ pc'[c] = "permission"
      BY <1>7, <2>3 DEF FindPlugin
    <3> QED
      BY <3>1 DEF PlacesOf, Permissions
  <2> QED
    BY <2>2, <2>3
<1>8. CASE WritePlugin(c)
  <2>1. Event(c).kind \in Changing /\ Event(c).kind # "UpdateApplied" /\ pc'[c] = "slug"
    BY <1>8 DEF WritePlugin, PlacesFit
  <2> QED
    BY <2>1 DEF PlacesOf, Changing, Permissions
<1>9. CASE KeepSlug(c)
  <2>1. pc'[c] = "reserve" => Event(c).kind \in {"InstallationApplied", "Granted"}
    BY <1>9 DEF KeepSlug, AfterSlug
  <2>2. pc'[c] = "settings" => Event(c).kind = "InstallationApplied"
    BY <1>9 DEF KeepSlug, AfterSlug
  <2>3. pc'[c] = "permission" => Event(c).kind \in Permissions
    BY <1>9 DEF KeepSlug, AfterSlug
  <2>4. pc'[c] \in {"reserve", "settings", "permission"}
    BY <1>9 DEF KeepSlug, AfterSlug
  <2> QED
    BY <2>1, <2>2, <2>3, <2>4 DEF PlacesOf, Permissions
<1>10. CASE ReserveSlug(c)
  <2>1. pc[c] \in PlacesOf(Event(c).kind) /\ pc[c] = "reserve" /\ Event(c).kind \in Kinds
    BY <1>10, EventType DEF ReserveSlug, OwnInv
  <2>2. Event(c).kind \in {"InstallationApplied", "Granted"}
    BY <2>1 DEF PlacesOf, Kinds, Setup, Permissions
  <2>3. pc'[c] = "settings" => Event(c).kind = "InstallationApplied"
    BY <1>10 DEF ReserveSlug, AfterSlug
  <2>4. pc'[c] = "permission" => Event(c).kind \in Permissions
    BY <1>10 DEF ReserveSlug, AfterSlug
  <2>5. pc'[c] \in {"slug", "settings", "permission"}
    BY <1>10 DEF ReserveSlug, AfterSlug
  <2> QED
    BY <2>2, <2>3, <2>4, <2>5 DEF PlacesOf, Permissions
<1>11. CASE HandlerFails(c)
  <2>1. pc'[c] \in Caught(c)
    BY <1>11 DEF HandlerFails
  <2> QED
    BY <2>1 DEF Caught, PlacesOf, Permissions
<1>12. CASE Settings(c) \/ LogPermission(c) \/ Crash(c) \/ Redeliver(c)
  BY <1>12 DEF Settings, LogPermission, Crash, Redeliver
<1> QED
  BY <1>2, <1>3, <1>4, <1>5, <1>6, <1>7, <1>8, <1>9, <1>10, <1>11, <1>12 DEF StepOf, Step

-----------------------------------------------------------------------------
(* The order in which an undisturbed plugin is handled *)

\* The kinds of event a place belongs to.
LEMMA KindsAt ==
  ASSUME TypeInv, OwnInv, NEW c \in Crawlers, pc[c] # "idle"
  PROVE  /\ Event(c).kind \in Kinds /\ Event(c).plugin \in Plugins
         /\ pc[c] = "log" => Event(c).kind \in Setup
         /\ pc[c] = "permission" => Event(c).kind \in Permissions
         /\ pc[c] = "query" => Event(c).kind = "UpdateApplied"
         /\ pc[c] = "create" => Event(c).kind \in {"InstallationPrepared", "UpdateApplied"}
         /\ pc[c] = "install" => Event(c).kind = "InstallationApplied"
         /\ pc[c] = "settings" => Event(c).kind \in {"InstallationPrepared", "InstallationApplied"}
         /\ pc[c] = "find" => Event(c).kind \in Changing
         /\ pc[c] = "write" => Event(c).kind \in Changing
         /\ pc[c] = "slug" =>
              Event(c).kind \in {"InstallationApplied", "UninstallationApplied"} \union Permissions
         /\ pc[c] = "reserve" => Event(c).kind \in {"InstallationApplied", "Granted"}
<1>1. Event(c).kind \in Kinds /\ Event(c).plugin \in Plugins /\ pc[c] \in PlacesOf(Event(c).kind)
  BY EventType DEF OwnInv
<1>2. CASE Event(c).kind \in {"InstallationPrepared", "InstallationApplied", "UpdatePrepared",
                              "UninstallationPrepared"}
  BY <1>1, <1>2 DEF PlacesOf, Setup, Permissions, Changing
<1>3. CASE Event(c).kind = "UpdateApplied"
  BY <1>1, <1>3 DEF PlacesOf, Setup, Permissions, Changing
<1>4. CASE Event(c).kind = "UninstallationApplied"
  BY <1>1, <1>4 DEF PlacesOf, Setup, Permissions, Changing
<1>5. CASE Event(c).kind = "Granted"
  BY <1>1, <1>5 DEF PlacesOf, Setup, Permissions, Changing
<1>6. CASE Event(c).kind = "Revoked"
  BY <1>1, <1>6 DEF PlacesOf, Setup, Permissions, Changing
<1> QED
  BY <1>1, <1>2, <1>3, <1>4, <1>5, <1>6 DEF Kinds, Setup, Permissions

\* A handler of an undisturbed plugin goes on, or ends with its log stored.
LEMMA OwnStep ==
  ASSUME TypeInv, OwnInv, NEW c \in Crawlers, StepOf(c), NEW p, p \notin spoiled', Orderly(p),
         pc[c] # "idle", Event(c).plugin = p
  PROVE  /\ Step(c) /\ ~Receive(c)
         /\ \/ pc'[c] # "idle" /\ pos' = pos /\ ran' = ran
            \/ pc'[c] = "idle" /\ pos'[c] = pos[c] + 1 /\ ran' = ran \union {pos[c]} /\ pos[c] \in logs'
         /\ pc'[c] # "log"
         /\ logs' = IF pc[c] \in {"log", "permission"} THEN logs \union {pos[c]} ELSE logs
         /\ pc[c] = "permission" => pc'[c] = "idle"
<1>1. Step(c) /\ ~Receive(c)
  BY DEF StepOf, Crash, HandlerFails, Redeliver, Receive
<1>2. LogFits(p, c) /\ c \in Busy(p)
  BY DEF Orderly, Busy
<1> USE DEF Goto, Done, TypeInv, TypeOK
<1>3. CASE StoreLog(c)
  <2>1. pc[c] = "log" /\ logs' = logs \union {pos[c]}
    BY <1>3 DEF StoreLog
  <2>2. Event(c).kind = "UninstallationApplied" => pos[c] \notin logs
    BY <1>2, <2>1 DEF LogFits
  <2>3. \/ pc'[c] \in {"create", "install", "query", "find"} /\ pos' = pos /\ ran' = ran
        \/ pc'[c] = "idle" /\ pos'[c] = pos[c] + 1 /\ ran' = ran \union {pos[c]}
    BY <1>3, <2>2 DEF StoreLog
  <2> QED
    BY <1>1, <2>1, <2>3
<1>4. CASE QueryUpdate(c)
  <2>1. Event(c).kind = "UpdateApplied" /\ pos[c] \in logs
    BY <1>2, <1>4, KindsAt DEF QueryUpdate, LogFits, Setup
  <2> QED
    BY <1>1, <1>4, <2>1 DEF QueryUpdate, database
<1>5. CASE CreatePlugin(c)
  BY <1>1, <1>5 DEF CreatePlugin
<1>6. CASE InstallPlugin(c)
  BY <1>1, <1>6 DEF InstallPlugin
<1>7. CASE FindPlugin(c)
  <2>1. Event(c).kind \notin Permissions => pos[c] \in logs
    BY <1>2, <1>7, KindsAt DEF FindPlugin, LogFits, Kinds
  <2> QED
    BY <1>1, <1>7, <2>1 DEF FindPlugin, database
<1>8. CASE WritePlugin(c)
  <2>1. Event(c).kind = "UpdateApplied" => pos[c] \in logs
    BY <1>2, <1>8 DEF WritePlugin, LogFits, Setup
  <2> QED
    BY <1>1, <1>8, <2>1 DEF WritePlugin
<1>9. CASE KeepSlug(c)
  <2>1. Event(c).kind = "UninstallationApplied" => pos[c] \in logs
    BY <1>2, <1>9 DEF KeepSlug, LogFits, Setup
  <2> QED
    BY <1>1, <1>9, <2>1 DEF KeepSlug, AfterSlug
<1>10. CASE ReserveSlug(c)
  <2>1. Event(c).kind \in {"InstallationApplied", "Granted"}
    BY <1>10, KindsAt DEF ReserveSlug
  <2> QED
    BY <1>1, <1>10, <2>1 DEF ReserveSlug, AfterSlug
<1>11. CASE Settings(c)
  <2>1. Event(c).kind \in {"InstallationPrepared", "InstallationApplied"}
    BY <1>11, KindsAt DEF Settings
  <2>2. pos[c] \in logs
    BY <1>2, <1>11, <2>1 DEF Settings, LogFits, Setup
  <2> QED
    BY <1>1, <1>11, <2>2 DEF Settings
<1>12. CASE LogPermission(c)
  BY <1>1, <1>12 DEF LogPermission
<1> QED
  BY <1>1, <1>3, <1>4, <1>5, <1>6, <1>7, <1>8, <1>9, <1>10, <1>11, <1>12 DEF Step

LEMMA OwnOrderly ==
  ASSUME TypeInv, OwnInv, NEW c \in Crawlers, StepOf(c), NEW p, p \notin spoiled', Orderly(p),
         pc[c] # "idle", Event(c).plugin = p
  PROVE  Orderly(p)'
<1>0. /\ history \in Seq(Events) /\ DOMAIN history = 1 .. Len(history) /\ Len(history) \in Nat
      /\ logs \subseteq DOMAIN history /\ ran \subseteq DOMAIN history
      /\ \A d \in Crawlers : pos[d] \in 1 .. (Len(history) + 1)
      /\ pos[c] \in 1 .. Len(history)
  BY EventType DEF TypeInv, TypeOK
<1>1. /\ UNCHANGED history
      /\ \A d \in Crawlers : d # c => pc'[d] = pc[d] /\ pos'[d] = pos[d]
  BY StepFrame
<1>2. Busy(p) = {c}
  BY DEF Orderly, AloneAt, Busy
<1>3. /\ \/ pc'[c] # "idle" /\ pos' = pos /\ ran' = ran
         \/ pc'[c] = "idle" /\ pos'[c] = pos[c] + 1 /\ ran' = ran \union {pos[c]} /\ pos[c] \in logs'
      /\ pc'[c] # "log"
      /\ logs' = IF pc[c] \in {"log", "permission"} THEN logs \union {pos[c]} ELSE logs
      /\ pc[c] = "permission" => pc'[c] = "idle"
  BY OwnStep
<1>4. history[pos[c]].plugin = p
  BY DEF Event
<1>5. \A d \in Crawlers : d # c => (d \in Busy(p)' <=> d \in Busy(p))
  BY <1>1 DEF Busy, Event
<1>6. Busy(p)' = IF pc'[c] = "idle" THEN {} ELSE {c}
  <2>1. Busy(p)' \subseteq {c}
    BY <1>2, <1>5 DEF Busy
  <2>2. c \in Busy(p)' <=> pc'[c] # "idle"
    BY <1>1, <1>3, <1>4 DEF Busy, Event
  <2> QED
    BY <2>1, <2>2
<1>7. AloneAt(p)'
  BY <1>6 DEF AloneAt
<1>8. \A m \in 1 .. pos[c] : history[m].plugin = p => m \in logs \/ m = pos[c]
  BY <1>0 DEF Orderly, BehindLogged
<1>9. BehindLogged(p)'
  <2> SUFFICES ASSUME NEW d \in Crawlers, NEW n \in 1 .. (pos'[d] - 1), history[n].plugin = p
               PROVE  n \in logs'
    BY <1>1 DEF BehindLogged
  <2>1. CASE n \in 1 .. (pos[d] - 1)
    BY <1>3, <2>1 DEF Orderly, BehindLogged
  <2>2. CASE n \notin 1 .. (pos[d] - 1)
    BY <1>0, <1>1, <1>3, <2>2
  <2> QED
    BY <2>1, <2>2
<1>10. LogsClosed(p)'
  <2> SUFFICES ASSUME NEW n \in logs', NEW m \in 1 .. n, history[n].plugin = p, history[m].plugin = p
               PROVE  m \in logs'
    BY <1>1 DEF LogsClosed
  <2>1. CASE n \in logs
    BY <1>3, <2>1 DEF Orderly, LogsClosed
  <2>2. CASE n \notin logs
    BY <1>3, <1>8, <2>2
  <2> QED
    BY <2>1, <2>2
<1>11. LogsRan(p)'
  <2> SUFFICES ASSUME NEW n \in logs', history[n].plugin = p
               PROVE  n \in ran' \/ \E d \in Busy(p)' : pos'[d] = n
    BY <1>1 DEF LogsRan
  <2>1. n \in ran \/ n = pos[c]
    BY <1>2, <1>3 DEF Orderly, LogsRan
  <2> QED
    BY <1>3, <1>6, <2>1
<1>12. RanLogged(p)'
  <2> SUFFICES ASSUME NEW n \in ran', NEW m \in 1 .. n, history[m].plugin = p
               PROVE  m \in logs'
    BY <1>1 DEF RanLogged
  <2>1. CASE n \in ran
    BY <1>3, <2>1 DEF Orderly, RanLogged
  <2>2. CASE n \notin ran
    BY <1>3, <1>8, <2>2
  <2> QED
    BY <2>1, <2>2
<1>13. ASSUME pc'[c] # "idle" PROVE LogFits(p, c)'
  <2>1. LogFits(p, c) /\ pos' = pos /\ pc[c] # "permission"
    BY <1>2, <1>3, <1>13 DEF Orderly
  <2>2. Event(c)' = Event(c)
    BY <1>1, <2>1 DEF Event
  <2>3. pc[c] = "log" => Event(c).kind \in Setup
    BY KindsAt
  <2>4. Event(c).kind \in Permissions => pos[c] \notin logs'
    BY <1>3, <2>1, <2>3 DEF LogFits, Setup, Permissions
  <2>5. Event(c).kind \in Setup => pos[c] \in logs'
    BY <1>3, <2>1 DEF LogFits
  <2>6. ASSUME Event(c).kind \in Setup \ {"InstallationPrepared"}, NEW m \in logs', history[m].plugin = p
        PROVE  m <= pos[c]
    BY <1>0, <1>3, <2>1, <2>6 DEF LogFits
  <2> QED
    BY <1>1, <1>3, <2>1, <2>2, <2>4, <2>5, <2>6 DEF LogFits
<1> QED
  BY <1>6, <1>7, <1>9, <1>10, <1>11, <1>12, <1>13 DEF Orderly

\* Nothing of p is handled in the step: c passes over what is done, or is at an
\* event of another plugin.
LEMMA OtherOrderly ==
  ASSUME TypeInv, NEW c \in Crawlers, NEW p, Orderly(p), UNCHANGED history,
         \A d \in Crawlers : d # c => pc'[d] = pc[d] /\ pos'[d] = pos[d],
         c \notin Busy(p), c \notin Busy(p)',
         \A m \in DOMAIN history : history[m].plugin = p => (m \in logs' <=> m \in logs),
         logs' \subseteq DOMAIN history, ran \subseteq ran', ran' \subseteq ran \union {pos[c]},
         pos'[c] \in Nat, pos'[c] <= pos[c] + 1,
         history[pos[c]].plugin = p =>
           ran' = ran /\ (pos'[c] = pos[c] + 1 => pos[c] \in logs)
  PROVE  Orderly(p)'
<1>0. /\ history \in Seq(Events) /\ DOMAIN history = 1 .. Len(history) /\ Len(history) \in Nat
      /\ logs \subseteq DOMAIN history /\ ran \subseteq DOMAIN history
      /\ \A d \in Crawlers : pos[d] \in 1 .. (Len(history) + 1)
  BY DEF TypeInv, TypeOK
<1>1. \A d \in Crawlers : d \in Busy(p)' <=> d \in Busy(p)
  BY DEF Busy, Event
<1>2. Busy(p)' = Busy(p) /\ \A d \in Busy(p) : d \in Crawlers /\ d # c
  BY <1>1 DEF Busy
<1>3. AloneAt(p)'
  BY <1>2 DEF Orderly, AloneAt
<1>4. \A m \in logs : history[m].plugin = p => m \in logs'
  BY <1>0
<1>5. BehindLogged(p)'
  <2> SUFFICES ASSUME NEW d \in Crawlers, NEW n \in 1 .. (pos'[d] - 1), history[n].plugin = p
               PROVE  n \in logs'
    BY DEF BehindLogged
  <2>1. CASE n \in 1 .. (pos[d] - 1)
    BY <1>4, <2>1 DEF Orderly, BehindLogged
  <2>2. CASE n \notin 1 .. (pos[d] - 1)
    <3>1. d = c
      BY <1>0, <2>2
    <3>2. n = pos[c] /\ pos'[c] = pos[c] + 1
      BY <1>0, <2>2, <3>1
    <3> QED
      BY <1>4, <3>2
  <2> QED
    BY <2>1, <2>2
<1>6. LogsClosed(p)'
  <2> SUFFICES ASSUME NEW n \in logs', NEW m \in 1 .. n, history[n].plugin = p, history[m].plugin = p
               PROVE  m \in logs'
    BY DEF LogsClosed
  <2>1. n \in logs
    BY <1>0
  <2> QED
    BY <1>4, <2>1 DEF Orderly, LogsClosed
<1>7. LogsRan(p)'
  <2> SUFFICES ASSUME NEW n \in logs', history[n].plugin = p
               PROVE  n \in ran' \/ \E d \in Busy(p)' : pos'[d] = n
    BY DEF LogsRan
  <2>1. n \in logs
    BY <1>0
  <2>2. n \in ran \/ \E d \in Busy(p) : pos[d] = n
    BY <2>1 DEF Orderly, LogsRan
  <2> QED
    BY <1>2, <2>2
<1>8. RanLogged(p)'
  <2> SUFFICES ASSUME NEW n \in ran', NEW m \in 1 .. n, history[m].plugin = p
               PROVE  m \in logs'
    BY DEF RanLogged
  <2>1. CASE n \in ran
    BY <1>4, <2>1 DEF Orderly, RanLogged
  <2>2. CASE n \notin ran
    <3>1. n = pos[c] /\ ran' # ran
      BY <2>2
    <3>2. m # pos[c]
      BY <3>1
    <3>3. m \in 1 .. (pos[c] - 1)
      BY <1>0, <3>1, <3>2
    <3> QED
      BY <1>4, <3>3 DEF Orderly, BehindLogged
  <2> QED
    BY <2>1, <2>2
<1>9. ASSUME NEW d \in Busy(p)' PROVE LogFits(p, d)'
  <2>1. LogFits(p, d) /\ d \in Crawlers /\ d # c /\ d \in Busy(p)
    BY <1>2, <1>9 DEF Orderly
  <2>2. pos'[d] = pos[d] /\ pc'[d] = pc[d] /\ pos[d] \in DOMAIN history /\ history[pos[d]].plugin = p
    BY <2>1, EventType DEF Busy, Event
  <2>3. Event(d)' = Event(d) /\ (pos[d] \in logs' <=> pos[d] \in logs)
    BY <2>2 DEF Event
  <2>4. \A m \in logs' : history[m].plugin = p => m \in logs
    BY <1>0
  <2> QED
    BY <2>1, <2>2, <2>3, <2>4 DEF LogFits
<1> QED
  BY <1>2, <1>3, <1>5, <1>6, <1>7, <1>8, <1>9 DEF Orderly

\* The handler of an event of p is called: nobody else is at work on p.
LEMMA CalledOrderly ==
  ASSUME TypeInv, NEW c \in Crawlers, NEW p \in Plugins, Orderly(p), Receive(c), p \notin spoiled',
         Event(c).plugin = p, ~Recognised(pos[c])
  PROVE  /\ Orderly(p)' /\ Busy(p) = {} /\ Busy(p)' = {c} /\ UNCHANGED <<history, database, pos>>
         /\ pc'[c] = IF Event(c).kind \in Permissions THEN "find" ELSE "log"
         /\ \A d \in Crawlers : d # c => pc'[d] = pc[d]
<1>0. /\ history \in Seq(Events) /\ DOMAIN history = 1 .. Len(history) /\ Len(history) \in Nat
      /\ logs \subseteq DOMAIN history /\ pos[c] \in 1 .. Len(history)
  BY EventType DEF Receive, TypeInv, TypeOK
<1>1. /\ pc' = [pc EXCEPT ![c] = IF Event(c).kind \in Permissions THEN "find" ELSE "log"]
      /\ Busy(p) = {} /\ UNCHANGED <<history, database, pos, ran>> /\ pc[c] = "idle"
  BY DEF Receive, Goto
<1>2. pc'[c] = IF Event(c).kind \in Permissions THEN "find" ELSE "log"
  BY <1>1 DEF TypeInv, TypeOK
<1>3. \A d \in Crawlers : d # c => pc'[d] = pc[d]
  BY <1>1 DEF TypeInv, TypeOK
<1>4. Event(c)' = Event(c) /\ history[pos[c]].plugin = p
  BY <1>1 DEF Event
<1>5. Busy(p)' = {c}
  <2>1. \A d \in Crawlers : d # c => d \notin Busy(p)'
    BY <1>1, <1>3 DEF Busy, Event
  <2>2. c \in Busy(p)'
    BY <1>2, <1>4 DEF Busy
  <2>3. Busy(p)' \subseteq Crawlers
    BY DEF Busy
  <2> QED
    BY <2>1, <2>2, <2>3
<1>6. AloneAt(p)' /\ BehindLogged(p)' /\ LogsClosed(p)' /\ RanLogged(p)'
  BY <1>1, <1>5 DEF Orderly, AloneAt, BehindLogged, LogsClosed, RanLogged, database
<1>7. LogsRan(p)'
  BY <1>1 DEF Orderly, LogsRan, database
<1>8. LogFits(p, c)'
  <2>1. logs' = logs /\ pos' = pos
    BY <1>1 DEF database
  <2>2. Event(c).kind # "InstallationPrepared" => pos[c] \notin logs
    BY DEF Recognised, Event
  <2>3. pc'[c] # "log" => Event(c).kind \in Permissions
    BY <1>2
  <2>4. pos[c] \notin logs => \A m \in logs : history[m].plugin = p => m <= pos[c]
    BY <1>0, <1>4 DEF Orderly, LogsClosed
  <2> QED
    BY <1>1, <1>4, <2>1, <2>2, <2>3, <2>4 DEF LogFits, Permissions, Setup
<1> QED
  BY <1>1, <1>2, <1>3, <1>5, <1>6, <1>7, <1>8 DEF Orderly

\* Every other step leaves p alone.
Aside(c, p) ==
  \/ pc[c] # "idle" /\ Event(c).plugin # p
  \/ pc[c] = "idle" /\ ~(Receive(c) /\ Event(c).plugin = p /\ ~Recognised(pos[c]))

LEMMA AsideOrderly ==
  ASSUME TypeInv, OwnInv, NEW c \in Crawlers, StepOf(c), NEW p, Orderly(p), Aside(c, p)
  PROVE  /\ Orderly(p)' /\ Untouched(p) /\ Busy(p)' = Busy(p) /\ c \notin Busy(p)
<1>1. /\ UNCHANGED history
      /\ \A d \in Crawlers : d # c => pc'[d] = pc[d] /\ pos'[d] = pos[d]
      /\ ran \subseteq ran' /\ ran' \subseteq ran \union {pos[c]}
      /\ pos[c] \in Nat /\ pos'[c] \in Nat /\ pos'[c] <= pos[c] + 1
      /\ pc'[c] = "idle" \/ pos'[c] = pos[c]
  BY StepFrame
<1>2. Untouched(p)
  BY ForeignStep DEF Aside
<1>3. TypeInv'
  <2>1. Next
    BY DEF Next, StepOf
  <2> QED
    BY <2>1, StepTypeInv
<1>4. c \notin Busy(p)
  BY DEF Aside, Busy
<1>5. c \notin Busy(p)'
  <2>1. CASE pc[c] # "idle" /\ Event(c).plugin # p
    BY <1>1, <2>1 DEF Busy, Event
  <2>2. CASE Receive(c)
    <3>1. pc[c] = "idle"
      BY <2>2 DEF Receive
    <3>2. CASE Recognised(pos[c])
      BY <2>2, <3>1, <3>2 DEF Receive, Busy
    <3>3. CASE Event(c).plugin # p
      BY <1>1, <3>3 DEF Busy, Event
    <3> QED
      BY <2>2, <3>1, <3>2, <3>3 DEF Aside
  <2>3. CASE Redeliver(c)
    BY <2>3 DEF Redeliver, Busy
  <2>4. CASE pc[c] = "idle" /\ ~Receive(c) /\ ~Redeliver(c)
    BY <2>4 DEF StepOf, Step, StoreLog, QueryUpdate, CreatePlugin, InstallPlugin, FindPlugin, WritePlugin,
                KeepSlug, ReserveSlug, Settings, LogPermission, Crash, HandlerFails
  <2> QED
    BY <2>1, <2>2, <2>3, <2>4 DEF Aside
<1>6. history[pos[c]].plugin = p => ran' = ran /\ (pos'[c] = pos[c] + 1 => pos[c] \in logs)
  <2>1. CASE pc[c] # "idle" /\ Event(c).plugin # p
    BY <2>1 DEF Event
  <2>2. CASE Receive(c)
    <3>1. pc[c] = "idle" /\ ran' = ran
      BY <2>2 DEF Receive, Goto
    <3>2. CASE Recognised(pos[c])
      BY <3>1, <3>2 DEF Recognised
    <3>3. CASE Event(c).plugin # p
      BY <3>3 DEF Event
    <3> QED
      BY <2>2, <3>1, <3>2, <3>3 DEF Aside
  <2>3. CASE Redeliver(c)
    BY <1>1, <2>3 DEF Redeliver, TypeInv, TypeOK
  <2>4. CASE pc[c] = "idle" /\ ~Receive(c) /\ ~Redeliver(c)
    BY <2>4 DEF StepOf, Step, StoreLog, QueryUpdate, CreatePlugin, InstallPlugin, FindPlugin, WritePlugin,
                KeepSlug, ReserveSlug, Settings, LogPermission, Crash, HandlerFails
  <2> QED
    BY <2>1, <2>2, <2>3, <2>4 DEF Aside
<1>7. /\ \A m \in DOMAIN history : history[m].plugin = p => (m \in logs' <=> m \in logs)
      /\ logs' \subseteq DOMAIN history
  BY <1>1, <1>2, <1>3 DEF Untouched, TypeInv, TypeOK
<1>8. Orderly(p)'
  BY <1>1, <1>4, <1>5, <1>6, <1>7, OtherOrderly
<1>9. Busy(p)' = Busy(p)
  <2>1. \A d \in Crawlers : d \in Busy(p)' <=> d \in Busy(p)
    BY <1>1, <1>4, <1>5 DEF Busy, Event
  <2> QED
    BY <2>1 DEF Busy
<1> QED
  BY <1>2, <1>4, <1>8, <1>9

LEMMA StepOrderInv ==
  ASSUME TypeInv, OwnInv, OrderInv, NEW c \in Crawlers, StepOf(c)
  PROVE  OrderInv'
<1> SUFFICES ASSUME NEW p \in Plugins, p \notin spoiled' PROVE Orderly(p)'
  BY DEF OrderInv
<1>1. Orderly(p)
  BY StepFrame DEF OrderInv
<1>2. CASE Aside(c, p)
  BY <1>1, <1>2, AsideOrderly
<1>3. CASE pc[c] # "idle" /\ Event(c).plugin = p
  BY <1>1, <1>3, OwnOrderly
<1>4. CASE Receive(c) /\ Event(c).plugin = p /\ ~Recognised(pos[c])
  BY <1>1, <1>4, CalledOrderly
<1> QED
  BY <1>2, <1>3, <1>4 DEF Aside

-----------------------------------------------------------------------------
(* The collections while nothing of p is handled *)

LEMMA PlainStays ==
  ASSUME UNCHANGED history, NEW p
  PROVE  Plain(p)' <=> Plain(p)
BY DEF Plain, InTransaction, GrantCounts

LEMMA UntouchedGood ==
  ASSUME UNCHANGED history, NEW p, Untouched(p), NEW n
  PROVE  /\ DocsGood(p, n)' <=> DocsGood(p, n)
         /\ SupportGood(p, n)' <=> SupportGood(p, n)
         /\ SlugGood(p, n)' <=> SlugGood(p, n)
         /\ AskedGood(p, n)' <=> AskedGood(p, n)
         /\ NoSlug(p)' <=> NoSlug(p)
         /\ Reached(p, n)' <=> Reached(p, n)
         /\ Good(p, n)' <=> Good(p, n)
<1>0. Ids' = Ids
  BY DEF Ids
<1>1. DocsGood(p, n)' <=> DocsGood(p, n)
  BY <1>0 DEF DocsGood, Untouched
<1>2. SupportGood(p, n)' <=> SupportGood(p, n)
  BY <1>0 DEF SupportGood, Untouched
<1>3. NoSlug(p)' <=> NoSlug(p)
  BY DEF NoSlug, Untouched
<1>4. SlugGood(p, n)' <=> SlugGood(p, n)
  BY <1>3 DEF SlugGood, Untouched
<1>5. AskedGood(p, n)' <=> AskedGood(p, n)
  BY DEF AskedGood, Untouched
<1>6. Reached(p, n)' <=> Reached(p, n)
  BY DEF Reached, Untouched
<1> QED
  BY <1>1, <1>2, <1>3, <1>4, <1>5, <1>6 DEF Good

LEMMA UntouchedReach ==
  ASSUME UNCHANGED history, NEW p, Untouched(p)
  PROVE  GoodAtReach(p)' <=> GoodAtReach(p)
BY UntouchedGood DEF GoodAtReach

LEMMA UntouchedWork ==
  ASSUME UNCHANGED history, NEW p, Untouched(p), NEW c \in Crawlers, NEW e, AtWork(p, c, e),
         pc'[c] = pc[c], made'[c] = made[c], held'[c] = held[c]
  PROVE  AtWork(p, c, e)'
<1>0. Ids' = Ids
  BY DEF Ids
<1> USE UntouchedGood, UntouchedReach
<1>1. AtPrepared(p, c, e)' <=> AtPrepared(p, c, e)
  BY DEF AtPrepared
<1>2. AtApplied(p, c, e)' <=> AtApplied(p, c, e)
  BY DEF AtApplied
<1>3. AtUpdate(p, c, e)' <=> AtUpdate(p, c, e)
  <2>1. (\A d \in Ids : d[1] = p => docs[d] = IF d = <<p, history[e].tx>> \/ Created(history, p, d[2], e - 1)
                                              THEN "installed" ELSE "none")
        <=> (\A d \in Ids : d[1] = p => docs'[d] = IF d = <<p, history[e].tx>> \/ Created(history, p, d[2], e - 1)
                                                   THEN "installed" ELSE "none")
    BY DEF Untouched
  <2> QED
    BY <1>0, <2>1 DEF AtUpdate
<1>4. AtChange(p, c, e)' <=> AtChange(p, c, e)
  BY <1>0 DEF AtChange
<1> QED
  BY <1>1, <1>2, <1>3, <1>4 DEF AtWork

LEMMA AsideFollows ==
  ASSUME TypeInv, OwnInv, NEW c \in Crawlers, StepOf(c), NEW p, Orderly(p), Aside(c, p), Follows(p)
  PROVE  Follows(p)'
<1>1. /\ UNCHANGED history
      /\ \A d \in Crawlers : d # c => /\ pc'[d] = pc[d] /\ pos'[d] = pos[d]
                                      /\ made'[d] = made[d] /\ held'[d] = held[d]
  BY StepFrame
<1>2. Untouched(p) /\ Busy(p)' = Busy(p) /\ c \notin Busy(p)
  BY AsideOrderly
<1>3. Busy(p)' = {} => GoodAtReach(p)'
  BY <1>1, <1>2, UntouchedReach DEF Follows
<1>4. ASSUME NEW d \in Busy(p)', NEW e \in DOMAIN history, e = pos'[d]
      PROVE  AtWork(p, d, e)'
  <2>1. d \in Busy(p) /\ d \in Crawlers /\ d # c
    BY <1>2 DEF Busy
  <2>2. AtWork(p, d, e)
    BY <1>1, <1>4, <2>1 DEF Follows
  <2> QED
    BY <1>1, <1>2, <2>1, <2>2, UntouchedWork
<1> QED
  BY <1>1, <1>3, <1>4 DEF Follows

-----------------------------------------------------------------------------
(* How far the handlers of p have come *)

LEMMA ReachedBefore ==
  ASSUME TypeInv, NEW c \in Crawlers, NEW p, Orderly(p), NEW e \in DOMAIN history, e = pos[c],
         history[e].plugin = p, e \notin logs
  PROVE  Reached(p, e - 1)
<1>0. /\ history \in Seq(Events) /\ DOMAIN history = 1 .. Len(history) /\ Len(history) \in Nat
      /\ logs \subseteq DOMAIN history
  BY DEF TypeInv, TypeOK
<1>1. ASSUME NEW m \in DOMAIN history, history[m].plugin = p, m \in logs PROVE m <= e - 1
  <2>1. ~(e \in 1 .. m)
    BY <1>1 DEF Orderly, LogsClosed
  <2> QED
    BY <1>0, <2>1
<1>2. ASSUME NEW m \in DOMAIN history, history[m].plugin = p, m <= e - 1 PROVE m \in logs
  BY <1>0, <1>2 DEF Orderly, BehindLogged
<1> QED
  BY <1>0, <1>1, <1>2 DEF Reached

\* A handler at work on an event of an undisturbed plugin, in a plain history.
Working(p, c, e) ==
  /\ TypeInv /\ OwnInv /\ Legal(history) /\ Orderly(p) /\ Plain(p)
  /\ c \in Crawlers /\ pc[c] # "idle" /\ e \in DOMAIN history /\ e = pos[c] /\ history[e].plugin = p
  /\ AtWork(p, c, e)

LEMMA WorkingFacts ==
  ASSUME NEW p, NEW c, NEW e, Working(p, c, e)
  PROVE  /\ history \in Seq(Events) /\ Legal(history) /\ e \in 1 .. Len(history) /\ e \in Nat \ {0}
         /\ e - 1 \in 0 .. Len(history) /\ e \in 0 .. Len(history) /\ e - 1 \in Nat
         /\ p \in Plugins /\ history[e].kind \in Kinds /\ Event(c) = history[e] /\ Event(c).plugin = p
         /\ <<p, history[e].tx>> \in Ids /\ OneUpdate(history, p) /\ c \in Busy(p) /\ LogFits(p, c)
<1>1. TypeInv /\ pos[c] \in DOMAIN history /\ c \in Crawlers /\ pc[c] # "idle"
  BY DEF Working
<1>2. history \in Seq(Events) /\ DOMAIN history = 1 .. Len(history) /\ Len(history) \in Nat
  BY <1>1 DEF TypeInv, TypeOK
<1>3. Event(c) = history[e] /\ Event(c).plugin = p
  BY DEF Working, Event
<1>4. OneUpdate(history, p)
  BY DEF Working, Plain, OneUpdate
<1>5. c \in Busy(p) /\ LogFits(p, c)
  BY <1>1, <1>3 DEF Working, Busy, Orderly
<1>6. /\ p \in Plugins /\ history[e].kind \in Kinds /\ <<p, history[e].tx>> \in Ids
  BY <1>1, <1>3, EventType
<1> QED
  BY <1>2, <1>3, <1>4, <1>5, <1>6 DEF Working

\* What the handler leaves when it ends.
LEMMA ReachedAfter ==
  ASSUME NEW p, NEW c, NEW e, Working(p, c, e), UNCHANGED history, e \in logs',
         logs' = logs \/ logs' = logs \union {e}, history[e].kind # "InstallationPrepared"
  PROVE  Reached(p, e)'
<1>0. /\ DOMAIN history = 1 .. Len(history) /\ Len(history) \in Nat
      /\ logs \subseteq DOMAIN history /\ e \in 1 .. Len(history)
  BY DEF Working, TypeInv, TypeOK
<1>1a. history[e].plugin = p /\ e = pos[c]
  BY DEF Working
<1>1b. LogFits(p, c) /\ Event(c) = history[e] /\ history[e].kind \in Kinds
  BY WorkingFacts
<1>1. history[e].plugin = p /\ LogFits(p, c) /\ Event(c) = history[e] /\ e = pos[c] /\ history[e].kind \in Kinds
  BY <1>1a, <1>1b
<1>2. ASSUME NEW m \in DOMAIN history, history[m].plugin = p, m \in logs' PROVE m <= e
  <2>1. CASE history[e].kind \in Setup
    BY <1>0, <1>1, <1>2, <2>1 DEF LogFits
  <2>2. CASE history[e].kind \in Permissions
    <3>1. e \notin logs
      BY <1>1, <2>2 DEF LogFits
    <3>2. m \in logs => ~(e \in 1 .. m)
      BY <1>1, <1>2, <3>1 DEF Working, Orderly, LogsClosed
    <3> QED
      BY <1>0, <1>2, <3>2
  <2> QED
    BY <1>1, <2>1, <2>2 DEF Kinds
<1>3. ASSUME NEW m \in DOMAIN history, history[m].plugin = p, m <= e PROVE m \in logs'
  BY <1>0, <1>3 DEF Working, Orderly, BehindLogged
<1> QED
  BY <1>0, <1>2, <1>3 DEF Reached

\* What is left to show of a step of the handler.
LEMMA OwnFollows ==
  ASSUME NEW p, NEW c, NEW e, Working(p, c, e), StepOf(c), p \notin spoiled',
         pc'[c] = "idle" => GoodAtReach(p)',
         pc'[c] # "idle" => AtWork(p, c, e)'
  PROVE  Follows(p)'
<1>1. /\ TypeInv /\ OwnInv /\ Orderly(p) /\ c \in Crawlers /\ pc[c] # "idle" /\ Event(c).plugin = p
      /\ e = pos[c] /\ history[e].plugin = p
  BY WorkingFacts DEF Working
<1>2. /\ UNCHANGED history
      /\ \A d \in Crawlers : d # c => pc'[d] = pc[d] /\ pos'[d] = pos[d]
  BY <1>1, StepFrame
<1>3. pc'[c] # "idle" => pos' = pos
  BY <1>1, OwnStep
<1>4. Busy(p) = {c}
  BY <1>1 DEF Orderly, AloneAt, Busy
<1>5. \A d \in Busy(p)' : d = c /\ pc'[c] # "idle"
  BY <1>2, <1>4 DEF Busy, Event
<1>6. pc'[c] # "idle" => c \in Busy(p)'
  BY <1>1, <1>2, <1>3 DEF Busy, Event
<1>7. Busy(p)' = {} => GoodAtReach(p)'
  BY <1>6
<1>8. ASSUME NEW d \in Busy(p)', NEW x \in DOMAIN history, x = pos'[d] PROVE AtWork(p, d, x)'
  <2>1. d = c /\ x = e
    BY <1>1, <1>3, <1>5, <1>8
  <2> QED
    BY <1>5, <2>1
<1> QED
  BY <1>2, <1>7, <1>8 DEF Follows

-----------------------------------------------------------------------------
(* The handler is called *)

\* What AtWork says of each kind of event.
LEMMA WorkAt ==
  ASSUME NEW p, NEW c, NEW e, NEW k, k = history[e].kind
  PROVE  /\ k = "InstallationPrepared" => (AtWork(p, c, e) <=> AtPrepared(p, c, e))
         /\ k = "InstallationApplied" => (AtWork(p, c, e) <=> AtApplied(p, c, e))
         /\ k = "UpdateApplied" => (AtWork(p, c, e) <=> AtUpdate(p, c, e))
         /\ k \in {"Granted", "Revoked", "UninstallationApplied"} =>
              (AtWork(p, c, e) <=> AtChange(p, c, e))
         /\ k \in {"UpdatePrepared", "UninstallationPrepared"} => (AtWork(p, c, e) <=> Good(p, e - 1))
BY DEF AtWork, Permissions

LEMMA WorkAfter ==
  ASSUME NEW p, NEW c, NEW e, NEW k, k = history[e].kind, UNCHANGED history
  PROVE  /\ k = "InstallationPrepared" => (AtWork(p, c, e)' <=> AtPrepared(p, c, e)')
         /\ k = "InstallationApplied" => (AtWork(p, c, e)' <=> AtApplied(p, c, e)')
         /\ k = "UpdateApplied" => (AtWork(p, c, e)' <=> AtUpdate(p, c, e)')
         /\ k \in {"Granted", "Revoked", "UninstallationApplied"} =>
              (AtWork(p, c, e)' <=> AtChange(p, c, e)')
         /\ k \in {"UpdatePrepared", "UninstallationPrepared"} => (AtWork(p, c, e)' <=> Good(p, e - 1)')
BY DEF AtWork, Permissions

LEMMA CalledFollows ==
  ASSUME TypeInv, NEW c \in Crawlers, NEW p \in Plugins, Orderly(p), Follows(p),
         Receive(c), p \notin spoiled', Event(c).plugin = p, ~Recognised(pos[c])
  PROVE  Follows(p)'
<1>1. /\ Busy(p) = {} /\ Busy(p)' = {c} /\ UNCHANGED <<history, database, pos>>
      /\ pc'[c] = IF Event(c).kind \in Permissions THEN "find" ELSE "log"
  BY CalledOrderly
<1>2. Untouched(p) /\ UNCHANGED history
  BY <1>1 DEF Untouched, database
<1>3. GoodAtReach(p) /\ GoodAtReach(p)'
  BY <1>1, <1>2, UntouchedReach DEF Follows
<1>4. ASSUME NEW e \in DOMAIN history, e = pos[c] PROVE AtWork(p, c, e)'
  <2>1. /\ pos[c] <= Len(history) /\ history[e] = Event(c) /\ history[e].plugin = p
        /\ history[e].kind # "InstallationPrepared" => e \notin logs
    BY <1>4 DEF Receive, Event, Recognised
  <2>2. e \in 1 .. Len(history) /\ Len(history) \in Nat /\ history[e].kind \in Kinds
    BY <1>4, <2>1, EventType
  <2>3. pc'[c] = IF history[e].kind \in Permissions THEN "find" ELSE "log"
    BY <1>1, <2>1
  <2>4. CASE history[e].kind = "InstallationPrepared"
    <3>1. pc'[c] = "log"
      BY <2>3, <2>4 DEF Permissions
    <3> QED
      BY <1>2, <1>3, <2>4, <3>1, WorkAfter DEF AtPrepared
  <2>5. CASE history[e].kind # "InstallationPrepared"
    <3>1. Reached(p, e - 1)
      BY <1>4, <2>1, <2>5, ReachedBefore
    <3>2. Good(p, e - 1)
      BY <1>3, <2>2, <3>1 DEF GoodAtReach
    <3>3. Good(p, e - 1)'
      BY <1>2, <3>2, UntouchedGood
    <3>4. CASE history[e].kind = "InstallationApplied"
      <4>1. pc'[c] = "log"
        BY <2>3, <3>4 DEF Permissions
      <4> QED
        BY <1>2, <3>3, <3>4, <4>1, WorkAfter DEF AtApplied
    <3>5. CASE history[e].kind = "UpdateApplied"
      <4>1. pc'[c] = "log"
        BY <2>3, <3>5 DEF Permissions
      <4> QED
        BY <1>2, <3>3, <3>5, <4>1, WorkAfter DEF AtUpdate, Good
    <3>6. CASE history[e].kind \in Permissions \union {"UninstallationApplied"}
      <4>1. pc'[c] \in {"log", "find"}
        BY <2>3
      <4>2. AtChange(p, c, e)'
        BY <1>2, <3>3, <4>1 DEF AtChange
      <4> QED
        BY <1>2, <3>6, <4>2, WorkAfter DEF Permissions
    <3>7. CASE history[e].kind \in {"UpdatePrepared", "UninstallationPrepared"}
      BY <1>2, <3>3, <3>7, WorkAfter
    <3> QED
      BY <2>2, <2>5, <3>4, <3>5, <3>6, <3>7 DEF Kinds, Setup
  <2> QED
    BY <2>4, <2>5
<1> QED
  BY <1>1, <1>2, <1>3, <1>4 DEF Follows

-----------------------------------------------------------------------------
(* The steps of a handler, up to its document *)

\* Nothing but the log.
LEMMA LogUntouched ==
  ASSUME UNCHANGED <<history, docs, supported, slugs, asked>>, NEW p, NEW n
  PROVE  /\ DocsGood(p, n)' <=> DocsGood(p, n)
         /\ SupportGood(p, n)' <=> SupportGood(p, n)
         /\ SlugGood(p, n)' <=> SlugGood(p, n)
         /\ AskedGood(p, n)' <=> AskedGood(p, n)
         /\ NoSlug(p)' <=> NoSlug(p)
         /\ Good(p, n)' <=> Good(p, n)
BY DEF Good, DocsGood, SupportGood, SlugGood, AskedGood, NoSlug, Ids

\* An event that changes nothing.
LEMMA IdleGood ==
  ASSUME NEW p, NEW c, NEW e, Working(p, c, e), Good(p, e - 1),
         history[e].kind \in {"UpdatePrepared", "UninstallationPrepared"}
  PROVE  Good(p, e)
<1>1. /\ history \in Seq(Events) /\ Legal(history) /\ e \in 1 .. Len(history) /\ e \in Nat \ {0}
      /\ history[e].plugin = p
  <2>1. Legal(history) /\ history[e].plugin = p
    BY DEF Working
  <2>2. history \in Seq(Events) /\ e \in 1 .. Len(history) /\ e \in Nat \ {0}
    BY ONLY Working(p, c, e), WorkingFacts
  <2> QED
    BY ONLY <2>1, <2>2
<1>2. history[e].kind \notin Creations
  BY DEF Creations
<1>3. \A t : (Created(history, p, t, e) <=> Created(history, p, t, e - 1))
             /\ (Latest(history, p, t, e) <=> Latest(history, p, t, e - 1))
  BY <1>1, <1>2, NextCreated, NextLatest
<1>4. /\ Due(history, p, e) <=> Due(history, p, e - 1)
      /\ Happened(history, "InstallationApplied", p, e) <=> Happened(history, "InstallationApplied", p, e - 1)
  BY <1>1, NextDue
<1>5. StatusOf(history, p, e) = StatusOf(history, p, e - 1)
  BY <1>4 DEF StatusOf
<1> QED
  BY <1>3, <1>4, <1>5 DEF Good, DocsGood, SupportGood, SlugGood, AskedGood

LEMMA StoreLogFollows ==
  ASSUME NEW p, NEW c, NEW e, Working(p, c, e), StoreLog(c), p \notin spoiled'
  PROVE  /\ pc'[c] = "idle" => GoodAtReach(p)'
         /\ pc'[c] # "idle" => AtWork(p, c, e)'
<1>1. /\ TypeInv /\ Orderly(p) /\ c \in Crawlers /\ pc[c] = "log" /\ e = pos[c] /\ history[e].plugin = p
      /\ AtWork(p, c, e) /\ e \in DOMAIN history
  BY DEF Working, StoreLog
<1>2. /\ Event(c) = history[e] /\ history[e].kind \in Kinds /\ LogFits(p, c)
      /\ e - 1 \in 0 .. Len(history) /\ e \in 0 .. Len(history) /\ history[e].plugin = p
  BY WorkingFacts, <1>1
<1>3. UNCHANGED <<history, docs, supported, slugs, asked, made, held>> /\ logs' = logs \union {e}
  BY <1>1 DEF StoreLog
<1>4. pc \in [Crawlers -> Places]
  BY <1>1 DEF TypeInv, TypeOK
<1> USE LogUntouched, <1>3
<1>5. CASE history[e].kind = "InstallationPrepared"
  <2>1. pc'[c] = "create"
    BY <1>1, <1>2, <1>4, <1>5 DEF StoreLog, Goto
  <2>2. GoodAtReach(p)
    BY <1>1, <1>5, WorkAt DEF AtPrepared
  <2>3. GoodAtReach(p)' \/ (Reached(p, e)' /\ Good(p, e - 1)')
    <3>1. CASE e \in logs
      <4>1. logs' = logs
        BY <3>1
      <4> QED
        BY <2>2, <4>1 DEF GoodAtReach, Reached
    <3>2. CASE e \notin logs
      <4>1. Reached(p, e - 1)
        BY <1>1, <3>2, ReachedBefore
      <4>2. Good(p, e - 1)
        BY <1>2, <2>2, <4>1 DEF GoodAtReach
      <4>3. e \in 1 .. Len(history) /\ Len(history) \in Nat /\ DOMAIN history = 1 .. Len(history)
        BY <1>1 DEF TypeInv, TypeOK
      <4>4. Reached(p, e)'
        BY <1>2, <4>1, <4>3 DEF Reached
      <4> QED
        BY <4>2, <4>4
    <3> QED
      BY <3>1, <3>2
  <2> QED
    BY <1>5, <2>1, <2>3, WorkAfter DEF AtPrepared
<1>6. CASE history[e].kind = "InstallationApplied"
  <2>1. pc'[c] = "install"
    BY <1>1, <1>2, <1>4, <1>6 DEF StoreLog, Goto
  <2> QED
    BY <1>1, <1>6, <2>1, WorkAt, WorkAfter DEF AtApplied
<1>7. CASE history[e].kind = "UpdateApplied"
  <2>1. pc'[c] = "query"
    BY <1>1, <1>2, <1>4, <1>7 DEF StoreLog, Goto
  <2> QED
    BY <1>1, <1>7, <2>1, WorkAt, WorkAfter DEF AtUpdate
<1>8. CASE history[e].kind = "UninstallationApplied"
  <2>0. e \notin logs
    BY <1>1, <1>2, <1>8 DEF LogFits
  <2>1. pc'[c] = "find"
    BY <1>1, <1>2, <1>4, <1>8, <2>0 DEF StoreLog, Goto
  <2> QED
    BY <1>1, <1>8, <2>1, WorkAt, WorkAfter DEF AtChange
<1>9. CASE history[e].kind \in {"UpdatePrepared", "UninstallationPrepared"}
  <2>1. pc'[c] = "idle"
    BY <1>1, <1>2, <1>4, <1>9 DEF StoreLog, Done
  <2>2. Good(p, e - 1)
    BY <1>1, <1>9, WorkAt
  <2>3. Good(p, e)'
    BY <1>9, <2>2, IdleGood
  <2>4. Reached(p, e)'
    BY <1>9, ReachedAfter
  <2> QED
    BY <1>1, <2>1, <2>3, <2>4, GoodOnce
<1>10. history[e].kind \in Setup
  BY <1>1, KindsAt, <1>2 DEF Working
<1> QED
  BY <1>5, <1>6, <1>7, <1>8, <1>9, <1>10 DEF Setup

-----------------------------------------------------------------------------
(* The documents of a plugin *)

LEMMA IdPairs == \A d \in Ids : d = <<d[1], d[2]>> /\ d[1] \in Plugins
BY DEF Ids

LEMMA StatusKinds ==
  ASSUME NEW h, NEW p, NEW n
  PROVE  StatusOf(h, p, n) \in {"preInstall", "installed", "uninstalled"}
BY DEF StatusOf

\* What is in the collection is what was created.
LEMMA CreatedDocs ==
  ASSUME NEW p, NEW n, DocsGood(p, n), NEW d \in Ids, d[1] = p
  PROVE  /\ docs[d] # "none" <=> Created(history, p, d[2], n)
         /\ d \in Documents(p) <=> Created(history, p, d[2], n)
<1>1. docs[d] # "none" <=> Created(history, p, d[2], n)
  BY StatusKinds DEF DocsGood
<1> QED
  BY <1>1 DEF Documents

\* One of them is the last.
LEMMA LastDoc ==
  ASSUME history \in Seq(Events), Legal(history), NEW p \in Plugins, NEW n \in 0 .. Len(history),
         OneUpdate(history, p), Happened(history, "InstallationPrepared", p, n), DocsGood(p, n)
  PROVE  \E l \in Ids :
           /\ l[1] = p /\ Latest(history, p, l[2], n) /\ docs[l] = StatusOf(history, p, n)
           /\ \A d \in Ids : d[1] = p /\ d # l =>
                docs[d] \in {"none", "deprecated"} /\ ~Latest(history, p, d[2], n)
<1>1. PICK i \in DOMAIN history : Latest(history, p, history[i].tx, n)
  BY SomeLatest
<1> DEFINE l == <<p, history[i].tx>>
<1>2. l \in Ids /\ l[1] = p /\ l[2] = history[i].tx
  BY DEF Ids
<1>3. Created(history, p, l[2], n)
  BY <1>1, <1>2 DEF Latest
<1>4. docs[l] = StatusOf(history, p, n)
  BY <1>1, <1>2, <1>3 DEF DocsGood
<1>5. ASSUME NEW d \in Ids, d[1] = p, d # l
      PROVE  docs[d] \in {"none", "deprecated"} /\ ~Latest(history, p, d[2], n)
  <2>1. d[2] # l[2]
    BY <1>2, <1>5, IdPairs
  <2>2. ~Latest(history, p, d[2], n)
    BY <1>1, <1>2, <2>1, LatestUnique
  <2> QED
    BY <1>5, <2>2 DEF DocsGood
<1> QED
  BY <1>1, <1>2, <1>4, <1>5

\* Before an update there is no other.
LEMMA OnlyDoc ==
  ASSUME history \in Seq(Events), Legal(history), NEW p, NEW n \in 0 .. Len(history),
         ~Happened(history, "UpdateApplied", p, n), DocsGood(p, n), NEW d \in Ids, d[1] = p,
         docs[d] # "none"
  PROVE  /\ Latest(history, p, d[2], n) /\ docs[d] = StatusOf(history, p, n)
         /\ \A x \in Ids : x[1] = p /\ docs[x] # "none" => x = d
<1>1. Created(history, p, d[2], n)
  BY CreatedDocs
<1>2. Latest(history, p, d[2], n) /\ \A s : Created(history, p, s, n) => s = d[2]
  BY <1>1, OneVersion
<1>3. docs[d] = StatusOf(history, p, n)
  BY <1>1, <1>2 DEF DocsGood
<1>4. ASSUME NEW x \in Ids, x[1] = p, docs[x] # "none" PROVE x = d
  <2>1. Created(history, p, x[2], n)
    BY <1>4, CreatedDocs
  <2> QED
    BY <1>2, <1>4, <2>1, IdPairs
<1> QED
  BY <1>2, <1>3, <1>4

-----------------------------------------------------------------------------
(* The steps up to the document: update, preparation, installation *)

\* How a handler ends whose work the collections show.
LEMMA EndFollows ==
  ASSUME NEW p, NEW c, NEW e, Working(p, c, e), UNCHANGED history, e \in logs',
         logs' = logs \/ logs' = logs \union {e}, history[e].kind # "InstallationPrepared",
         Good(p, e)'
  PROVE  GoodAtReach(p)'
BY ReachedAfter, GoodOnce DEF Working

LEMMA UpdatePairs ==
  ASSUME NEW p, NEW c, NEW e, Working(p, c, e), history[e].kind = "UpdateApplied", e \in logs
  PROVE  Pairs(p, "UpdatePrepared", "UpdateApplied") = {<<p, history[e].tx>>}
<1>1. /\ history \in Seq(Events) /\ Legal(history) /\ e \in 1 .. Len(history)
      /\ OneUpdate(history, p)
  BY WorkingFacts
<1>2. /\ e = pos[c] /\ history[e].plugin = p /\ Orderly(p) /\ c \in Crawlers
      /\ logs \subseteq DOMAIN history /\ DOMAIN history = 1 .. Len(history) /\ Len(history) \in Nat
  <2>1. e = pos[c] /\ history[e].plugin = p /\ Orderly(p) /\ c \in Crawlers /\ TypeInv
    BY DEF Working
  <2>2. logs \subseteq DOMAIN history
    BY ONLY <2>1 DEF TypeInv, TypeOK
  <2>3. DOMAIN history = 1 .. Len(history) /\ Len(history) \in Nat
    BY ONLY <1>1
  <2> QED
    BY ONLY <2>1, <2>2, <2>3
<1>3. PICK i \in 1 .. (e - 1) : /\ history[i].kind = "UpdatePrepared" /\ history[i].plugin = p
                                /\ history[i].setup = history[e].setup
  BY ONLY <1>1, <1>2, history[e].kind = "UpdateApplied", LegalEvents
<1>4. i \in logs
  BY <1>2, <1>3 DEF Orderly, BehindLogged
<1>5. ASSUME NEW x \in logs, history[x].kind = "UpdateApplied", history[x].plugin = p PROVE x = e
  <2>1. ~(x \in 1 .. (e - 1)) /\ ~(e \in 1 .. (x - 1))
    BY <1>1, <1>2, <1>5, history[e].kind = "UpdateApplied" DEF OneUpdate, Happened
  <2> QED
    BY <1>1, <1>2, <2>1
<1>6. Pairs(p, "UpdatePrepared", "UpdateApplied") \subseteq {<<p, history[e].tx>>}
  BY <1>5 DEF Pairs
<1>7. <<p, history[e].tx>> \in Pairs(p, "UpdatePrepared", "UpdateApplied")
  BY <1>2, <1>3, <1>4 DEF Pairs
<1> QED
  BY <1>6, <1>7

LEMMA QueryUpdateFollows ==
  ASSUME NEW p, NEW c, NEW e, Working(p, c, e), QueryUpdate(c), p \notin spoiled'
  PROVE  /\ pc'[c] = "idle" => GoodAtReach(p)'
         /\ pc'[c] # "idle" => AtWork(p, c, e)'
<1> DEFINE new == <<p, history[e].tx>>
<1>1. /\ TypeInv /\ c \in Crawlers /\ pc[c] = "query" /\ history[e].plugin = p /\ e = pos[c]
      /\ UNCHANGED <<history, database>> /\ OwnInv /\ AtWork(p, c, e)
  BY DEF Working, QueryUpdate
<1>2. /\ history \in Seq(Events) /\ Legal(history) /\ e \in 1 .. Len(history) /\ e \in Nat \ {0}
      /\ Event(c) = history[e] /\ new \in Ids /\ LogFits(p, c) /\ OneUpdate(history, p)
      /\ e - 1 \in 0 .. Len(history)
  BY WorkingFacts
<1>3. history[e].kind = "UpdateApplied"
  BY <1>1, <1>2, KindsAt
<1>4. e \in logs
  BY <1>1, <1>2, <1>3 DEF LogFits, Setup
<1>5. Pairs(Event(c).plugin, "UpdatePrepared", "UpdateApplied") = {new}
  BY <1>1, <1>2, <1>3, <1>4, UpdatePairs
<1>6. Good(p, e - 1)
  BY <1>1, <1>3, WorkAt DEF AtUpdate, Good
<1>7. UNCHANGED <<history, docs, supported, slugs, asked, logs>>
  BY <1>1 DEF database
<1>8. pc \in [Crawlers -> Places] /\ made \in [Crawlers -> SUBSET Ids]
  BY <1>1 DEF TypeInv, TypeOK
<1>9. CASE docs[new] = "none" /\ made' = [made EXCEPT ![c] = {new}] /\ Goto(c, "create")
  <2>1. ~Created(history, p, new[2], e - 1)
    BY <1>2, <1>6, <1>9, CreatedDocs DEF Good
  <2>2. pc'[c] = "create" /\ made'[c] = {new}
    BY <1>1, <1>8, <1>9 DEF Goto
  <2>3. Good(p, e - 1)'
    BY <1>6, <1>7, LogUntouched
  <2>4. AtUpdate(p, c, e)'
    BY <1>7, <2>1, <2>2, <2>3 DEF AtUpdate, Good
  <2> QED
    BY <1>3, <1>7, <2>2, <2>4, WorkAfter
<1>10. CASE docs[new] # "none" /\ Done(c)
  <2>1. ~Happened(history, "UpdateApplied", p, e - 1)
    BY <1>1, <1>2, <1>3 DEF OneUpdate
  <2>2. Created(history, p, new[2], e - 1)
    BY <1>2, <1>6, <1>10, CreatedDocs DEF Good
  <2>3. /\ Latest(history, p, history[e].tx, e - 1)
        /\ \A s : Created(history, p, s, e - 1) => s = history[e].tx
    BY <1>2, <2>1, <2>2, OneVersion
  <2>4. ASSUME NEW t
        PROVE  /\ Created(history, p, t, e) <=> Created(history, p, t, e - 1) \/ t = history[e].tx
               /\ Latest(history, p, t, e) <=> t = history[e].tx
    <3>1. history \in Seq(Events) /\ Legal(history) /\ e \in 1 .. Len(history)
      BY <1>2
    <3>2. history[e].plugin = p /\ history[e].kind = "UpdateApplied"
      BY <1>1, <1>3
    <3> QED
      BY ONLY <3>1, <3>2, LastVersion
  <2>5. \A t : Latest(history, p, t, e - 1) => Created(history, p, t, e - 1)
    BY DEF Latest
  <2>6. \A t : /\ Created(history, p, t, e) <=> Created(history, p, t, e - 1)
               /\ Latest(history, p, t, e) <=> Latest(history, p, t, e - 1)
    BY <2>2, <2>3, <2>4, <2>5
  <2>7. /\ Due(history, p, e) <=> Due(history, p, e - 1)
        /\ Happened(history, "InstallationApplied", p, e) <=> Happened(history, "InstallationApplied", p, e - 1)
    BY <1>1, <1>2, <1>3, NextDue
  <2>8. StatusOf(history, p, e) = StatusOf(history, p, e - 1)
    BY <2>7 DEF StatusOf
  <2>9. Good(p, e)
    BY <1>6, <2>6, <2>7, <2>8 DEF Good, DocsGood, SupportGood, SlugGood, AskedGood
  <2>10. Good(p, e)'
    BY <1>7, <2>9, LogUntouched
  <2>11. GoodAtReach(p)'
    BY <1>3, <1>4, <1>7, <2>10, EndFollows
  <2>12. pc'[c] = "idle"
    BY <1>1, <1>8, <1>10 DEF Done
  <2> QED
    BY <2>11, <2>12
<1> QED
  BY <1>5, <1>9, <1>10 DEF QueryUpdate

\* What a place says of an event.
LEMMA KindAt ==
  ASSUME NEW p, NEW c, NEW e, Working(p, c, e)
  PROVE  /\ pc[c] = "query" => history[e].kind = "UpdateApplied"
         /\ pc[c] = "create" => history[e].kind \in {"InstallationPrepared", "UpdateApplied"}
         /\ pc[c] = "install" => history[e].kind = "InstallationApplied"
         /\ pc[c] = "settings" => history[e].kind \in {"InstallationPrepared", "InstallationApplied"}
         /\ pc[c] \in {"find", "write"} =>
              history[e].kind \in {"UpdateApplied", "UninstallationApplied", "Granted", "Revoked"}
         /\ pc[c] = "slug" =>
              history[e].kind \in {"InstallationApplied", "UninstallationApplied", "Granted", "Revoked"}
         /\ pc[c] = "reserve" => history[e].kind \in {"InstallationApplied", "Granted"}
         /\ pc[c] = "permission" => history[e].kind \in {"Granted", "Revoked"}
         /\ history[e].kind \in Setup /\ pc[c] # "log" => e \in logs
         /\ history[e].kind \in Permissions => e \notin logs
<1>1. TypeInv /\ OwnInv /\ c \in Crawlers /\ pc[c] # "idle" /\ e = pos[c]
  BY DEF Working
<1>2. Event(c) = history[e] /\ LogFits(p, c)
  BY WorkingFacts
<1>3. /\ history[e].kind \in Setup /\ pc[c] # "log" => e \in logs
      /\ history[e].kind \in Permissions => e \notin logs
  BY <1>1, <1>2 DEF LogFits
<1> QED
  BY <1>1, <1>2, <1>3, KindsAt DEF Changing, Permissions

\* The first document, of which there was none before.
LEMMA CreateFirst ==
  ASSUME NEW p, NEW c, NEW e, Working(p, c, e), CreatePlugin(c), p \notin spoiled',
         history[e].kind = "InstallationPrepared"
  PROVE  pc'[c] = "settings" /\ AtWork(p, c, e)'
<1> DEFINE new == <<p, history[e].tx>>
<1>1. /\ TypeInv /\ c \in Crawlers /\ pc[c] = "create" /\ history[e].plugin = p /\ e = pos[c]
      /\ UNCHANGED <<history, logs, supported, slugs, asked>> /\ AtWork(p, c, e)
  BY DEF Working, CreatePlugin
<1>2. /\ history \in Seq(Events) /\ Legal(history) /\ e \in 1 .. Len(history) /\ e \in Nat \ {0}
      /\ Event(c) = history[e] /\ new \in Ids /\ DOMAIN history = 1 .. Len(history)
      /\ e \in 0 .. Len(history)
  BY WorkingFacts
<1>3. e \in logs
  BY <1>1, KindAt DEF Setup
<1>4. docs \in [Ids -> Statuses] /\ pc \in [Crawlers -> Places] /\ Ids' = Ids
  BY <1>1 DEF TypeInv, TypeOK, Ids
<1>5. /\ docs' = [docs EXCEPT ![new] = IF @ = "none" THEN "preInstall" ELSE @]
      /\ pc'[c] = "settings"
  BY <1>1, <1>2, <1>4 DEF CreatePlugin, Goto
<1>6. GoodAtReach(p) \/ (Reached(p, e) /\ Good(p, e - 1))
  BY <1>1, WorkAt DEF AtPrepared
<1>7. \A n : Reached(p, n)' <=> Reached(p, n)
  BY <1>1 DEF Reached
<1>8. CASE GoodAtReach(p)
  <2>1. ASSUME NEW n \in 0 .. Len(history), Reached(p, n)' PROVE Good(p, n)'
    <3>1. Good(p, n) /\ e <= n /\ n \in Nat
      BY <1>1, <1>2, <1>3, <1>7, <1>8, <2>1 DEF GoodAtReach, Reached
    <3>2. Created(history, p, new[2], n)
      BY <1>1, <1>2, <3>1 DEF Created, Creations
    <3>3. docs[new] # "none"
      BY <1>2, <3>1, <3>2, CreatedDocs DEF Good
    <3>4. docs' = docs
      BY <1>2, <1>4, <1>5, <3>3
    <3> QED
      BY <1>1, <3>1, <3>4, LogUntouched
  <2>2. GoodAtReach(p)'
    BY <1>1, <2>1 DEF GoodAtReach
  <2> QED
    BY <1>1, <1>5, <2>2, WorkAfter DEF AtPrepared
<1>9. CASE Reached(p, e) /\ Good(p, e - 1)
  <2>1. ASSUME NEW t
        PROVE  /\ ~Created(history, p, t, e - 1)
               /\ Created(history, p, t, e) <=> t = history[e].tx
               /\ Latest(history, p, t, e) <=> t = history[e].tx
    <3>1. history \in Seq(Events) /\ Legal(history) /\ e \in 1 .. Len(history)
      BY <1>2
    <3>2. history[e].plugin = p /\ history[e].kind = "InstallationPrepared"
      BY <1>1
    <3> QED
      BY ONLY <3>1, <3>2, FirstVersion
  <2>2. ~Due(history, p, e) /\ ~Due(history, p, e - 1) /\ ~Happened(history, "InstallationApplied", p, e)
    BY <1>1, <1>2, NextDue
  <2>3. StatusOf(history, p, e) = "preInstall"
    BY <2>2 DEF StatusOf
  <2>4. \A d \in Ids : d[1] = p => docs[d] = "none"
    BY <1>9, <2>1 DEF Good, DocsGood
  <2>5. \A d \in Ids : d[1] = p => (d[2] = history[e].tx <=> d = new)
    BY IdPairs
  <2>6. DocsGood(p, e)'
    BY <1>1, <1>2, <1>4, <1>5, <2>1, <2>3, <2>4, <2>5 DEF DocsGood
  <2>7. SupportGood(p, e - 1)'
    BY <1>1, <1>4, <1>9 DEF Good, SupportGood
  <2>8. SlugGood(p, e)' /\ AskedGood(p, e)'
    BY <1>1, <1>9, <2>2 DEF Good, SlugGood, NoSlug, AskedGood
  <2>9. Reached(p, e)'
    BY <1>7, <1>9
  <2> QED
    BY <1>1, <1>5, <2>6, <2>7, <2>8, <2>9, WorkAfter DEF AtPrepared
<1> QED
  BY <1>5, <1>6, <1>8, <1>9

\* The document of the version that an update makes.
LEMMA CreateUpdate ==
  ASSUME NEW p, NEW c, NEW e, Working(p, c, e), CreatePlugin(c), p \notin spoiled',
         history[e].kind = "UpdateApplied"
  PROVE  pc'[c] = "find" /\ AtWork(p, c, e)'
<1> DEFINE new == <<p, history[e].tx>>
<1>1. /\ TypeInv /\ c \in Crawlers /\ pc[c] = "create" /\ history[e].plugin = p /\ e = pos[c]
      /\ UNCHANGED <<history, logs, supported, slugs, asked, made>> /\ AtWork(p, c, e) /\ Plain(p)
  BY DEF Working, CreatePlugin
<1>2. /\ history \in Seq(Events) /\ Legal(history) /\ e \in 1 .. Len(history) /\ e \in Nat \ {0}
      /\ Event(c) = history[e] /\ new \in Ids /\ e \in DOMAIN history
      /\ e - 1 \in 0 .. Len(history) /\ OneUpdate(history, p)
  BY WorkingFacts
<1>4. docs \in [Ids -> Statuses] /\ pc \in [Crawlers -> Places] /\ Ids' = Ids
  BY <1>1 DEF TypeInv, TypeOK, Ids
<1>5. /\ docs' = [x \in Ids |-> IF x \in made[c] /\ docs[x] = "none" THEN "installed" ELSE docs[x]]
      /\ pc'[c] = "find"
  BY <1>1, <1>2, <1>4 DEF CreatePlugin, Goto
<1>6. /\ SupportGood(p, e - 1) /\ SlugGood(p, e - 1) /\ AskedGood(p, e - 1) /\ DocsGood(p, e - 1)
      /\ made[c] = {new} /\ ~Created(history, p, new[2], e - 1)
  BY <1>1, WorkAt DEF AtUpdate
<1>7. HasPermission(history, p, e) /\ ~Happened(history, "UpdateApplied", p, e - 1)
  BY <1>1, <1>2 DEF Plain
<1>8. Happened(history, "InstallationApplied", p, e - 1)
  BY <1>1, <1>2, PreparedFirst
<1>9. /\ Due(history, p, e) <=> Due(history, p, e - 1)
      /\ Happened(history, "InstallationApplied", p, e) <=> Happened(history, "InstallationApplied", p, e - 1)
  BY <1>1, <1>2, NextDue
<1>10. StatusOf(history, p, e - 1) = "installed"
  BY <1>7, <1>8, <1>9 DEF Due, StatusOf
<1>11. ASSUME NEW d \in Ids, d[1] = p
       PROVE  docs'[d] = IF d = new \/ Created(history, p, d[2], e - 1) THEN "installed" ELSE "none"
  <2>1. CASE Created(history, p, d[2], e - 1)
    <3>1. Latest(history, p, d[2], e - 1)
      BY <1>2, <1>7, <2>1, OneVersion
    <3>2. docs[d] = "installed"
      BY <1>6, <1>10, <1>11, <2>1, <3>1 DEF DocsGood
    <3> QED
      BY <1>5, <2>1, <3>2
  <2>2. CASE ~Created(history, p, d[2], e - 1)
    <3>1. docs[d] = "none"
      BY <1>6, <1>11, <2>2 DEF DocsGood
    <3> QED
      BY <1>5, <1>6, <2>2, <3>1
  <2> QED
    BY <2>1, <2>2
<1>12. SupportGood(p, e - 1)' /\ SlugGood(p, e - 1)' /\ AskedGood(p, e - 1)'
  BY <1>1, <1>4, <1>6 DEF SupportGood, SlugGood, NoSlug, AskedGood
<1>13. AtUpdate(p, c, e)'
  BY <1>1, <1>4, <1>5, <1>6, <1>11, <1>12 DEF AtUpdate
<1> QED
  BY <1>1, <1>5, <1>13, WorkAfter

LEMMA InstallFollows ==
  ASSUME NEW p, NEW c, NEW e, Working(p, c, e), InstallPlugin(c), p \notin spoiled'
  PROVE  pc'[c] = "slug" /\ AtWork(p, c, e)'
<1>1. /\ TypeInv /\ c \in Crawlers /\ pc[c] = "install" /\ history[e].plugin = p /\ e = pos[c]
      /\ UNCHANGED <<history, logs, supported, slugs, asked>> /\ AtWork(p, c, e)
  BY DEF Working, InstallPlugin
<1>2. /\ history \in Seq(Events) /\ Legal(history) /\ e \in 1 .. Len(history) /\ e \in Nat \ {0}
      /\ Event(c) = history[e] /\ e - 1 \in 0 .. Len(history) /\ OneUpdate(history, p)
      /\ p \in Plugins /\ Event(c).plugin = p
  BY WorkingFacts
<1>3. history[e].kind = "InstallationApplied"
  BY <1>1, KindAt
<1>4. docs \in [Ids -> Statuses] /\ pc \in [Crawlers -> Places] /\ Ids' = Ids
  BY <1>1 DEF TypeInv, TypeOK, Ids
<1>5. Good(p, e - 1)
  BY <1>1, <1>3, WorkAt DEF AtApplied
<1>6. /\ Happened(history, "InstallationPrepared", p, e - 1)
      /\ ~Happened(history, "InstallationApplied", p, e - 1)
  <2>1. history \in Seq(Events) /\ Legal(history) /\ e \in 1 .. Len(history)
    BY <1>2
  <2>2. history[e].plugin = p /\ history[e].kind = "InstallationApplied"
    BY <1>1, <1>3
  <2> QED
    BY ONLY <2>1, <2>2, LegalEvents
<1>7. ~Happened(history, "UpdateApplied", p, e - 1)
  <2>1. SUFFICES ASSUME NEW i \in 1 .. (e - 1), history[i].kind = "UpdateApplied", history[i].plugin = p
                 PROVE  FALSE
    BY DEF Happened
  <2>2. i \in 1 .. Len(history) /\ i - 1 \in Nat /\ e - 1 \in Nat /\ i - 1 <= e - 1
    BY <1>2
  <2>3. Happened(history, "InstallationApplied", p, i - 1)
    BY <1>2, <2>1, <2>2, PreparedFirst
  <2> QED
    BY <1>6, <2>2, <2>3, HappenedGrows
<1>8. StatusOf(history, p, e - 1) = "preInstall"
  BY <1>6 DEF StatusOf
<1>9. PICK l \in Ids : l[1] = p /\ Latest(history, p, l[2], e - 1) /\ docs[l] = "preInstall"
  BY <1>2, <1>5, <1>6, <1>8, LastDoc DEF Good
<1>10. Documents(p) = {l}
  BY <1>2, <1>5, <1>7, <1>9, OnlyDoc DEF Documents, Good
<1>11. docs' = [docs EXCEPT ![l] = "installed"] /\ pc'[c] = "slug"
  BY <1>1, <1>2, <1>4, <1>9, <1>10 DEF InstallPlugin, Goto
<1>12. ASSUME NEW t
       PROVE  /\ Created(history, p, t, e) <=> Created(history, p, t, e - 1)
              /\ Latest(history, p, t, e) <=> Latest(history, p, t, e - 1)
  BY <1>1, <1>2, <1>3, NextCreated, NextLatest DEF Creations
<1>13. Due(history, p, e) /\ ~Due(history, p, e - 1)
  BY <1>1, <1>2, <1>3, NextDue
<1>14. StatusOf(history, p, e) = "installed"
  BY <1>13 DEF StatusOf, Due
<1>15. DocsGood(p, e)'
  <2>1. SUFFICES ASSUME NEW d \in Ids, d[1] = p
                 PROVE  docs'[d] = IF ~Created(history, p, d[2], e) THEN "none"
                                   ELSE IF Latest(history, p, d[2], e) THEN StatusOf(history, p, e)
                                   ELSE "deprecated"
    BY <1>1, <1>4 DEF DocsGood
  <2>2. CASE d = l
    <3>1. Created(history, p, d[2], e) /\ Latest(history, p, d[2], e)
      BY <1>9, <1>12, <2>2 DEF Latest
    <3> QED
      BY <1>4, <1>11, <1>14, <2>2, <3>1
  <2>3. CASE d # l
    <3>1. docs[d] = "none"
      BY <1>10, <2>1, <2>3 DEF Documents
    <3>2. ~Created(history, p, d[2], e)
      BY <1>5, <1>12, <2>1, <3>1, CreatedDocs DEF Good
    <3> QED
      BY <1>4, <1>11, <2>3, <3>1, <3>2
  <2> QED
    BY <2>2, <2>3
<1>16. SupportGood(p, e)'
  BY <1>1, <1>4, <1>5, <1>12 DEF Good, SupportGood
<1>17. NoSlug(p)'
  BY <1>1, <1>5, <1>13 DEF Good, SlugGood, NoSlug
<1> QED
  BY <1>1, <1>3, <1>11, <1>15, <1>16, <1>17, WorkAfter DEF AtApplied

-----------------------------------------------------------------------------
(* The handler looks for the document it is to change *)

LEMMA WorkingAt ==
  ASSUME NEW p, NEW c, NEW e, Working(p, c, e)
  PROVE  /\ history \in Seq(Events) /\ Legal(history) /\ e \in 1 .. Len(history) /\ e \in Nat \ {0}
         /\ e \in DOMAIN history /\ e - 1 \in 0 .. Len(history) /\ e - 1 \in Nat
         /\ history[e].plugin = p /\ e = pos[c] /\ Event(c) = history[e] /\ Event(c).plugin = p
         /\ p \in Plugins /\ <<p, history[e].tx>> \in Ids /\ OneUpdate(history, p)
         /\ TypeInv /\ OwnInv /\ Orderly(p) /\ Plain(p) /\ c \in Crawlers /\ AtWork(p, c, e)
         /\ DOMAIN history = 1 .. Len(history)
<1>1. TypeInv /\ history[e].plugin = p /\ e = pos[c] /\ OwnInv /\ Orderly(p) /\ Plain(p)
      /\ c \in Crawlers /\ AtWork(p, c, e) /\ e \in DOMAIN history
  BY DEF Working
<1> QED
  BY <1>1, WorkingFacts

LEMMA WorkingTypes ==
  ASSUME NEW p, NEW c, NEW e, Working(p, c, e)
  PROVE  /\ docs \in [Ids -> Statuses] /\ supported \subseteq Ids /\ pc \in [Crawlers -> Places]
         /\ made \in [Crawlers -> SUBSET Ids] /\ held \in [Crawlers -> SUBSET Ids]
         /\ logs \subseteq DOMAIN history
BY DEF Working, TypeInv, TypeOK

\* An event that leaves what is due as it was.
LEMMA SameGood ==
  ASSUME NEW p, NEW c, NEW e, Working(p, c, e), Good(p, e - 1),
         history[e].kind \notin Creations \union {"InstallationApplied"},
         Due(history, p, e) <=> Due(history, p, e - 1)
  PROVE  Good(p, e)
<1>1. /\ history \in Seq(Events) /\ Legal(history) /\ e \in 1 .. Len(history) /\ e \in Nat \ {0}
      /\ history[e].plugin = p
  BY ONLY Working(p, c, e), WorkingAt
<1>2. \A t : (Created(history, p, t, e) <=> Created(history, p, t, e - 1))
             /\ (Latest(history, p, t, e) <=> Latest(history, p, t, e - 1))
  BY <1>1, NextCreated, NextLatest
<1>3. Happened(history, "InstallationApplied", p, e) <=> Happened(history, "InstallationApplied", p, e - 1)
  BY <1>1, NextDue
<1>4. StatusOf(history, p, e) = StatusOf(history, p, e - 1)
  BY <1>3 DEF StatusOf
<1> QED
  BY <1>2, <1>3, <1>4 DEF Good, DocsGood, SupportGood, SlugGood, AskedGood

LEMMA FindFacts ==
  ASSUME NEW p, NEW c, NEW e, Working(p, c, e), FindPlugin(c)
  PROVE  /\ pc[c] = "find" /\ UNCHANGED <<history, logs, docs, supported, slugs, asked, made>>
         /\ \/ \E d \in Target(c) : Changes(c, d) /\ held'[c] = {d} /\ pc'[c] = "write"
            \/ /\ Target(c) = {} \/ \E d \in Target(c) : ~Changes(c, d)
               /\ pc'[c] = IF history[e].kind \in Permissions THEN "permission" ELSE "idle"
<1>1. pc \in [Crawlers -> Places] /\ held \in [Crawlers -> SUBSET Ids] /\ c \in Crawlers
      /\ Event(c) = history[e]
  <2>1. pc \in [Crawlers -> Places] /\ held \in [Crawlers -> SUBSET Ids]
    BY ONLY Working(p, c, e), WorkingTypes
  <2>2. c \in Crawlers /\ Event(c) = history[e]
    BY DEF Working, Event
  <2> QED
    BY ONLY <2>1, <2>2
<1>2. pc[c] = "find" /\ UNCHANGED <<history, logs, docs, supported, slugs, asked, made>>
  BY DEF FindPlugin, database
<1>3. CASE \E d \in Target(c) : /\ Changes(c, d) /\ held' = [held EXCEPT ![c] = {d}]
                               /\ Goto(c, "write")
  <2>1. PICK d \in Target(c) : /\ Changes(c, d) /\ held' = [held EXCEPT ![c] = {d}]
                               /\ Goto(c, "write")
    BY <1>3
  <2>2. held'[c] = {d} /\ pc'[c] = "write"
    BY <1>1, <2>1 DEF Goto
  <2> QED
    BY <1>2, <2>1, <2>2
<1>4. CASE /\ Target(c) = {} \/ \E d \in Target(c) : ~Changes(c, d)
           /\ IF Event(c).kind \in Permissions THEN Goto(c, "permission") ELSE Done(c)
  <2>1. pc'[c] = IF history[e].kind \in Permissions THEN "permission" ELSE "idle"
    BY <1>1, <1>4 DEF Goto, Done
  <2> QED
    BY <1>2, <1>4, <2>1
<1> QED
  BY <1>3, <1>4 DEF FindPlugin

\* What is left of AtWork where it is the same for three kinds of event.
LEMMA ChangeAfter ==
  ASSUME NEW p, NEW c, NEW e, NEW l \in Ids, UNCHANGED <<history, docs, supported, slugs, asked>>,
         history[e].kind \in {"Granted", "Revoked", "UninstallationApplied"},
         \/ pc'[c] = "permission" /\ Good(p, e)
         \/ /\ pc'[c] = "write" /\ held'[c] = {l} /\ Good(p, e - 1)
            /\ l[1] = p /\ Latest(history, p, l[2], e - 1)
            /\ Happened(history, "InstallationApplied", p, e - 1)
            /\ Due(history, p, e) <=> history[e].kind = "Granted"
            /\ history[e].kind = "Granted" => ~Due(history, p, e - 1)
  PROVE  AtWork(p, c, e)'
<1>1. /\ Good(p, e)' <=> Good(p, e)
      /\ Good(p, e - 1)' <=> Good(p, e - 1)
  BY LogUntouched
<1>2. Ids' = Ids
  BY DEF Ids
<1>3. AtChange(p, c, e)'
  BY <1>1, <1>2 DEF AtChange
<1> QED
  BY <1>3, WorkAfter

LEMMA FindUpdate ==
  ASSUME NEW p, NEW c, NEW e, Working(p, c, e), FindPlugin(c), history[e].kind = "UpdateApplied"
  PROVE  pc'[c] = "write" /\ AtWork(p, c, e)'
<1> DEFINE new == <<p, history[e].tx>>
<1>1. /\ history \in Seq(Events) /\ Legal(history) /\ e \in 1 .. Len(history) /\ e \in Nat \ {0}
      /\ history[e].plugin = p /\ Event(c) = history[e] /\ new \in Ids /\ OneUpdate(history, p)
      /\ e - 1 \in 0 .. Len(history) /\ AtWork(p, c, e) /\ p \in Plugins
  BY ONLY Working(p, c, e), WorkingAt
<1>2. pc[c] = "find" /\ UNCHANGED <<history, logs, docs, supported, slugs, asked, made>>
  BY FindFacts
<1>3. /\ SupportGood(p, e - 1) /\ SlugGood(p, e - 1) /\ AskedGood(p, e - 1)
      /\ made[c] = {new} /\ ~Created(history, p, new[2], e - 1)
      /\ \A d \in Ids : d[1] = p =>
           docs[d] = IF d = new \/ Created(history, p, d[2], e - 1) THEN "installed" ELSE "none"
  BY <1>1, <1>2, WorkAt DEF AtUpdate
<1>4. ASSUME NEW d \in Ids, d[1] = p, Created(history, p, d[2], e - 1) PROVE d[2] < new[2]
  <2>0. history \in Seq(Events) /\ e - 1 \in 0 .. Len(history) /\ Created(history, p, d[2], e - 1)
    BY <1>1, <1>4
  <2>1. PICK m \in 1 .. (e - 1) : m \in 1 .. Len(history) /\ history[m].tx = d[2]
    BY ONLY <2>0, CreatedAt
  <2>2. d[2] <= history[e].tx /\ d[2] \in Nat /\ history[e].tx \in Nat
    BY <1>1, <2>1, TxGrows
  <2>3. d[2] # history[e].tx
    BY <1>3, <1>4
  <2> QED
    BY <2>2, <2>3
<1>5. ASSUME NEW d \in Ids, d[1] = p, Created(history, p, d[2], e - 1) PROVE d \in Target(c)
  <2>1. d \in Documents(p) /\ docs[d] = "installed"
    BY <1>3, <1>5 DEF Documents
  <2>2. d[2] < new[2]
    BY <1>4, <1>5
  <2> QED
    BY <1>1, <1>3, <2>1, <2>2 DEF Target
<1>6. ASSUME NEW d \in Target(c)
      PROVE  d \in Ids /\ d[1] = p /\ Created(history, p, d[2], e - 1) /\ Changes(c, d)
  <2>1. d \in Documents(p) /\ docs[d] = "installed" /\ d[2] < new[2]
    BY <1>1, <1>3, <1>6 DEF Target
  <2>2. d \in Ids /\ d[1] = p
    BY <2>1 DEF Documents
  <2>3. d # new
    <3>1. history[e].tx \in Nat
      BY <1>1, TxGrows
    <3> QED
      BY <2>1, <3>1
  <2>4. Created(history, p, d[2], e - 1)
    BY <1>3, <2>1, <2>2, <2>3
  <2> QED
    BY <1>1, <2>2, <2>4 DEF Changes
<1>7. Target(c) # {}
  <2>1. Happened(history, "InstallationPrepared", p, e - 1)
    BY <1>1, PreparedFirst
  <2>2. PICK i \in DOMAIN history : Created(history, p, history[i].tx, e - 1)
    BY <1>1, <2>1, PreparedCreated
  <2>3. <<p, history[i].tx>> \in Ids
    BY <1>1 DEF Ids
  <2> QED
    BY <1>5, <2>2, <2>3
<1>8. PICK d \in Target(c) : held'[c] = {d} /\ pc'[c] = "write"
  BY <1>6, <1>7, FindFacts
<1>9. SupportGood(p, e - 1)' /\ SlugGood(p, e - 1)' /\ AskedGood(p, e - 1)'
  BY <1>2, <1>3, LogUntouched
<1>10. Ids' = Ids
  BY <1>2 DEF Ids
<1>11. AtUpdate(p, c, e)'
  BY <1>2, <1>3, <1>6, <1>8, <1>9, <1>10 DEF AtUpdate
<1> QED
  BY <1>1, <1>2, <1>8, <1>11, WorkAfter

LEMMA FindUninstalled ==
  ASSUME NEW p, NEW c, NEW e, Working(p, c, e), FindPlugin(c), history[e].kind = "UninstallationApplied"
  PROVE  /\ pc'[c] = "idle" => GoodAtReach(p)'
         /\ pc'[c] # "idle" => AtWork(p, c, e)'
<1>1. /\ history \in Seq(Events) /\ Legal(history) /\ e \in 1 .. Len(history) /\ e \in Nat \ {0}
      /\ history[e].plugin = p /\ OneUpdate(history, p) /\ e - 1 \in 0 .. Len(history)
      /\ AtWork(p, c, e) /\ p \in Plugins
  BY ONLY Working(p, c, e), WorkingAt
<1>1b. Event(c) = history[e] /\ e = pos[c]
  <2>1. e = pos[c]
    BY DEF Working
  <2> QED
    BY <2>1 DEF Event
<1>1a. c \in Crawlers /\ Orderly(p) /\ logs \subseteq DOMAIN history
  BY WorkingAt, WorkingTypes
<1>2. pc[c] = "find" /\ UNCHANGED <<history, logs, docs, supported, slugs, asked, made>>
  BY FindFacts
<1>3. Good(p, e - 1)
  BY <1>1, <1>2, WorkAt DEF AtChange
<1>4. e \in logs
  BY <1>2, KindAt DEF Setup
<1>5. ~Due(history, p, e)
  BY <1>1, NextDue
<1>6. /\ Happened(history, "InstallationApplied", p, e - 1)
      /\ Happened(history, "InstallationPrepared", p, e - 1)
  BY <1>1, PreparedFirst
<1>7. Pairs(p, "UninstallationPrepared", "UninstallationApplied") # {}
  <2>1. PICK i \in 1 .. (e - 1) : /\ history[i].kind = "UninstallationPrepared" /\ history[i].plugin = p
                                  /\ history[i].setup = history[e].setup
    <3>1. history \in Seq(Events) /\ Legal(history) /\ e \in 1 .. Len(history)
      BY <1>1
    <3>2. history[e].plugin = p /\ history[e].kind = "UninstallationApplied"
      BY <1>1
    <3> QED
      BY ONLY <3>1, <3>2, LegalEvents
  <2>2. i \in logs
    BY <1>1a, <1>1b, <2>1 DEF Orderly, BehindLogged
  <2> QED
    BY <1>1, <1>1a, <1>4, <2>1, <2>2 DEF Pairs
<1>8. Target(c) = {d \in Documents(p) : docs[d] = "installed"}
  BY <1>1, <1>1b, <1>7 DEF Target
<1>9. PICK l \in Ids :
        /\ l[1] = p /\ Latest(history, p, l[2], e - 1) /\ docs[l] = StatusOf(history, p, e - 1)
        /\ \A d \in Ids : d[1] = p /\ d # l => docs[d] \in {"none", "deprecated"}
  BY <1>1, <1>3, <1>6, LastDoc DEF Good
<1>10. \A d : Changes(c, d)
  BY <1>1, <1>1b DEF Changes
<1>11. CASE Due(history, p, e - 1)
  <2>1. docs[l] = "installed"
    BY <1>9, <1>11 DEF StatusOf, Due
  <2>2. Target(c) = {l}
    BY <1>8, <1>9, <2>1 DEF Documents
  <2>3. held'[c] = {l} /\ pc'[c] = "write"
    BY <1>10, <2>2, FindFacts
  <2> QED
    BY <1>2, <1>3, <1>5, <1>6, <1>9, <2>3, ChangeAfter
<1>12. CASE ~Due(history, p, e - 1)
  <2>1. docs[l] = "uninstalled"
    BY <1>6, <1>9, <1>12 DEF StatusOf
  <2>2. Target(c) = {}
    BY <1>8, <1>9, <2>1 DEF Documents
  <2>3. pc'[c] = "idle"
    BY <2>2, FindFacts DEF Permissions
  <2>4. Good(p, e)
    BY <1>3, <1>5, <1>12, SameGood DEF Creations
  <2>5. Good(p, e)'
    BY <1>2, <2>4, LogUntouched
  <2>6. GoodAtReach(p)'
    BY <1>2, <1>4, <2>5, EndFollows
  <2> QED
    BY <2>3, <2>6
<1> QED
  BY <1>11, <1>12

LEMMA FindRevoked ==
  ASSUME NEW p, NEW c, NEW e, Working(p, c, e), FindPlugin(c), history[e].kind = "Revoked"
  PROVE  pc'[c] # "idle" /\ AtWork(p, c, e)'
<1>1. /\ history \in Seq(Events) /\ Legal(history) /\ e \in 1 .. Len(history) /\ e \in Nat \ {0}
      /\ history[e].plugin = p /\ Event(c) = history[e] /\ OneUpdate(history, p) /\ e = pos[c]
      /\ e - 1 \in 0 .. Len(history) /\ AtWork(p, c, e) /\ p \in Plugins /\ e \in DOMAIN history
      /\ <<p, history[e].tx>> \in Ids /\ Plain(p) /\ Event(c).kind = "Revoked" /\ e - 1 \in Nat
  <2>1. /\ Legal(history) /\ history[e].plugin = p /\ e = pos[c] /\ AtWork(p, c, e) /\ e \in DOMAIN history
        /\ Plain(p)
    BY DEF Working
  <2>2. Event(c) = history[e]
    BY DEF Working, Event
  <2>3. history \in Seq(Events)
    BY ONLY Working(p, c, e), WorkingAt
  <2>4. e \in 1 .. Len(history) /\ e \in Nat \ {0}
    BY ONLY Working(p, c, e), WorkingAt
  <2>5. e - 1 \in 0 .. Len(history) /\ e - 1 \in Nat
    BY ONLY Working(p, c, e), WorkingAt
  <2>6. OneUpdate(history, p) /\ p \in Plugins
    BY ONLY Working(p, c, e), WorkingAt
  <2>7. <<p, history[e].tx>> \in Ids
    BY ONLY Working(p, c, e), WorkingAt
  <2> QED
    BY ONLY <2>1, <2>2, <2>3, <2>4, <2>5, <2>6, <2>7, history[e].kind = "Revoked"
<1>2. pc[c] = "find" /\ UNCHANGED <<history, logs, docs, supported, slugs, asked, made>>
  BY FindFacts
<1>3. Good(p, e - 1)
  BY <1>1, <1>2, WorkAt DEF AtChange
<1>4. /\ Due(history, p, e - 1) <=> Happened(history, "InstallationApplied", p, e - 1)
      /\ Due(history, p, e) <=> Due(history, p, e - 1) /\ Uninstalls(history, p, e)
      /\ Happened(history, "InstallationApplied", p, e) <=> Happened(history, "InstallationApplied", p, e - 1)
  BY <1>1, NextDue
<1>5. \/ Uninstalls(history, p, e)
      \/ /\ Happened(history, "InstallationApplied", p, e)
         /\ ~Happened(history, "UpdateApplied", p, e)
         /\ ~InTransaction(e, {"UninstallationApplied", "InstallationPrepared"})
  BY <1>1 DEF Plain
<1>6. Uninstalls(history, p, e) => InTransaction(e, {"UninstallationApplied", "InstallationPrepared"})
  BY DEF Uninstalls, InTransaction
<1>7. CASE InTransaction(e, {"UninstallationApplied", "InstallationPrepared"})
  <2>1. Target(c) = {}
    BY <1>1, <1>7 DEF Target
  <2>2. pc'[c] = "permission"
    BY <2>1, FindFacts DEF Permissions
  <2>3. Good(p, e)
    BY <1>3, <1>4, <1>5, <1>7, SameGood DEF Creations
  <2> QED
    BY <1>1, <1>2, <2>2, <2>3, ChangeAfter
<1>8. CASE ~InTransaction(e, {"UninstallationApplied", "InstallationPrepared"})
  <2>1. /\ Happened(history, "InstallationApplied", p, e - 1) /\ Due(history, p, e - 1)
        /\ ~Due(history, p, e) /\ ~Happened(history, "UpdateApplied", p, e)
    BY <1>4, <1>5, <1>6, <1>8
  <2>2. ~Happened(history, "UpdateApplied", p, e - 1)
    BY <1>1, <2>1, NextHappened
  <2>3. Happened(history, "InstallationPrepared", p, e - 1)
    BY <1>1, PreparedFirst
  <2>4. StatusOf(history, p, e - 1) = "installed"
    BY <2>1 DEF StatusOf
  <2>5. PICK l \in Ids : l[1] = p /\ Latest(history, p, l[2], e - 1) /\ docs[l] = "installed"
    BY <1>1, <1>3, <2>3, <2>4, LastDoc DEF Good
  <2>6. Documents(p) = {l}
    BY <1>1, <1>3, <2>2, <2>5, OnlyDoc DEF Documents, Good
  <2>7. Target(c) = {l}
    BY <1>1, <1>8, <2>6 DEF Target
  <2>8. Changes(c, l)
    BY <1>1, <2>5 DEF Changes
  <2>9. held'[c] = {l} /\ pc'[c] = "write"
    BY <2>7, <2>8, FindFacts
  <2> QED
    BY <1>2, <1>3, <2>1, <2>5, <2>9, ChangeAfter
<1> QED
  BY <1>7, <1>8

LEMMA FindGranted ==
  ASSUME NEW p, NEW c, NEW e, Working(p, c, e), FindPlugin(c), history[e].kind = "Granted"
  PROVE  pc'[c] # "idle" /\ AtWork(p, c, e)'
<1>1. /\ history \in Seq(Events) /\ Legal(history) /\ e \in 1 .. Len(history) /\ e \in Nat \ {0}
      /\ history[e].plugin = p /\ Event(c) = history[e] /\ OneUpdate(history, p) /\ e = pos[c]
      /\ e - 1 \in 0 .. Len(history) /\ AtWork(p, c, e) /\ p \in Plugins /\ e \in DOMAIN history
      /\ <<p, history[e].tx>> \in Ids /\ Plain(p) /\ Event(c).kind = "Granted" /\ Event(c).plugin = p
  <2>1. /\ Legal(history) /\ history[e].plugin = p /\ e = pos[c] /\ AtWork(p, c, e) /\ e \in DOMAIN history
        /\ Plain(p)
    BY DEF Working
  <2>2. Event(c) = history[e]
    BY DEF Working, Event
  <2>3. history \in Seq(Events)
    BY ONLY Working(p, c, e), WorkingAt
  <2>4. e \in 1 .. Len(history) /\ e \in Nat \ {0}
    BY ONLY Working(p, c, e), WorkingAt
  <2>5. e - 1 \in 0 .. Len(history) /\ e - 1 \in Nat
    BY ONLY Working(p, c, e), WorkingAt
  <2>6. OneUpdate(history, p) /\ p \in Plugins
    BY ONLY Working(p, c, e), WorkingAt
  <2>7. <<p, history[e].tx>> \in Ids
    BY ONLY Working(p, c, e), WorkingAt
  <2> QED
    BY ONLY <2>1, <2>2, <2>3, <2>4, <2>5, <2>6, <2>7, history[e].kind = "Granted"
<1>2. pc[c] = "find" /\ UNCHANGED <<history, logs, docs, supported, slugs, asked, made>>
  BY FindFacts
<1>3. Good(p, e - 1)
  BY <1>1, <1>2, WorkAt DEF AtChange
<1>4. /\ Due(history, p, e) <=> Happened(history, "InstallationApplied", p, e - 1)
      /\ Happened(history, "InstallationApplied", p, e) <=> Happened(history, "InstallationApplied", p, e - 1)
  BY <1>1, NextDue
<1>5. Due(history, p, e - 1) => Happened(history, "InstallationApplied", p, e - 1)
  BY DEF Due
<1>6. Happened(history, "InstallationPrepared", p, e - 1)
  BY <1>1, PreparedFirst
<1>7. PICK l \in Ids :
        /\ l[1] = p /\ Latest(history, p, l[2], e - 1) /\ docs[l] = StatusOf(history, p, e - 1)
        /\ \A d \in Ids : d[1] = p /\ d # l =>
             docs[d] \in {"none", "deprecated"} /\ ~Latest(history, p, d[2], e - 1)
  BY <1>1, <1>3, <1>6, LastDoc DEF Good
<1>8. l \in Documents(p) /\ \A d \in Documents(p) : d \in Ids /\ d[1] = p
  BY <1>7, StatusKinds DEF Documents
<1>9. CASE ~Happened(history, "InstallationApplied", p, e - 1)
  <2>1. docs[l] = "preInstall"
    BY <1>7, <1>9 DEF StatusOf
  <2>2. \A d \in Target(c) : d \in Documents(p)
    BY <1>1 DEF Target, ByAddress
  <2>3. \A d \in Target(c) : ~Changes(c, d)
    BY <1>1, <1>7, <1>8, <2>1, <2>2 DEF Changes
  <2>4. pc'[c] = "permission"
    BY <2>3, FindFacts DEF Permissions
  <2>5. Good(p, e)
    BY <1>3, <1>4, <1>5, <1>9, SameGood DEF Creations
  <2> QED
    BY <1>1, <1>2, <2>4, <2>5, ChangeAfter
<1>10. CASE Happened(history, "InstallationApplied", p, e - 1)
  <2>1. GrantCounts(e)
    BY <1>1, <1>4, <1>10 DEF Plain
  <2>2. Documents(p) \intersect supported = {l}
    BY <1>3, <1>7, <1>8 DEF Good, SupportGood
  <2>3. Target(c) = {l}
    BY <1>1, <2>1, <2>2 DEF Target, ByAddress
  <2>4. CASE Due(history, p, e - 1)
    <3>1. ~Changes(c, l)
      BY <1>1, <1>7, <1>10, <2>4 DEF Changes, StatusOf
    <3>2. pc'[c] = "permission"
      BY <2>3, <3>1, FindFacts DEF Permissions
    <3>3. Good(p, e)
      BY <1>3, <1>4, <1>10, <2>4, SameGood DEF Creations
    <3> QED
      BY <1>1, <1>2, <3>2, <3>3, ChangeAfter
  <2>5. CASE ~Due(history, p, e - 1)
    <3>1. Changes(c, l)
      BY <1>1, <1>7, <1>10, <2>5 DEF Changes, StatusOf
    <3>2. held'[c] = {l} /\ pc'[c] = "write"
      BY <2>3, <3>1, FindFacts
    <3> QED
      BY <1>2, <1>3, <1>4, <1>7, <1>10, <2>5, <3>2, ChangeAfter
  <2> QED
    BY <2>4, <2>5
<1> QED
  BY <1>9, <1>10

-----------------------------------------------------------------------------
(* The document is changed, and the slug *)

LEMMA WriteUpdate ==
  ASSUME NEW p, NEW c, NEW e, Working(p, c, e), WritePlugin(c), history[e].kind = "UpdateApplied"
  PROVE  GoodAtReach(p)'
<1> DEFINE new == <<p, history[e].tx>>
<1>1. /\ history \in Seq(Events) /\ Legal(history) /\ e \in 1 .. Len(history) /\ e \in Nat \ {0}
      /\ history[e].plugin = p /\ Event(c) = history[e] /\ OneUpdate(history, p)
      /\ e - 1 \in 0 .. Len(history) /\ AtWork(p, c, e) /\ e \in DOMAIN history
  <2>1. history \in Seq(Events) /\ Legal(history) /\ e \in 1 .. Len(history) /\ e \in Nat \ {0}
    BY ONLY Working(p, c, e), WorkingAt
  <2>2. history[e].plugin = p /\ Event(c) = history[e]
    BY DEF Working, Event
  <2>4. OneUpdate(history, p)
    BY ONLY Working(p, c, e), WorkingAt
  <2>3. e - 1 \in 0 .. Len(history) /\ AtWork(p, c, e) /\ e \in DOMAIN history
    BY ONLY Working(p, c, e), WorkingAt
  <2> QED
    BY <2>1, <2>2, <2>3, <2>4
<1>1a. docs \in [Ids -> Statuses] /\ new \in Ids
  BY WorkingAt, WorkingTypes
<1>2. pc[c] = "write" /\ UNCHANGED <<history, logs, slugs, asked>> /\ new \in Ids /\ Ids' = Ids
  BY <1>1a DEF WritePlugin, Ids
<1>3. /\ SupportGood(p, e - 1) /\ SlugGood(p, e - 1) /\ AskedGood(p, e - 1)
      /\ made[c] = {new} /\ ~Created(history, p, new[2], e - 1)
      /\ \A d \in Ids : d[1] = p =>
           docs[d] = IF d = new \/ Created(history, p, d[2], e - 1) THEN "installed" ELSE "none"
      /\ \E d \in Ids : held[c] = {d} /\ d[1] = p /\ Created(history, p, d[2], e - 1)
  BY <1>1, <1>2, WorkAt DEF AtUpdate
<1>4. PICK d \in Ids : held[c] = {d} /\ d[1] = p /\ Created(history, p, d[2], e - 1)
  BY <1>3
<1>5. HasPermission(history, p, e) /\ ~Happened(history, "UpdateApplied", p, e - 1)
  BY <1>1, WorkingAt DEF Plain
<1>6. Latest(history, p, d[2], e - 1) /\ \A s : Created(history, p, s, e - 1) => s = d[2]
  BY <1>1, <1>4, <1>5, OneVersion
<1>7. d \in supported /\ d # new
  BY <1>3, <1>4, <1>6 DEF SupportGood
<1>8. supported' = (supported \ {d}) \union {new}
  BY <1>1, <1>3, <1>4, <1>7 DEF WritePlugin
<1>9. docs' = [x \in Ids |-> IF x = d THEN "deprecated" ELSE docs[x]]
  BY <1>1, <1>4 DEF WritePlugin, StatusAfter
<1>10. ASSUME NEW t
       PROVE  /\ Created(history, p, t, e) <=> Created(history, p, t, e - 1) \/ t = history[e].tx
              /\ Latest(history, p, t, e) <=> t = history[e].tx
  <2>1. history \in Seq(Events) /\ Legal(history) /\ e \in 1 .. Len(history)
    BY <1>1
  <2>2. history[e].plugin = p /\ history[e].kind = "UpdateApplied"
    BY <1>1
  <2> QED
    BY ONLY <2>1, <2>2, LastVersion
<1>11. /\ Due(history, p, e) <=> Due(history, p, e - 1)
       /\ Happened(history, "InstallationApplied", p, e) <=> Happened(history, "InstallationApplied", p, e - 1)
  BY <1>1, NextDue
<1>12. Happened(history, "InstallationApplied", p, e - 1)
  BY <1>1, PreparedFirst
<1>13. StatusOf(history, p, e) = "installed"
  BY <1>5, <1>11, <1>12 DEF StatusOf, Due
<1>14. ASSUME NEW x \in Ids, x[1] = p
       PROVE  /\ x[2] = history[e].tx <=> x = new
              /\ Created(history, p, x[2], e - 1) <=> x = d
  BY <1>4, <1>6, <1>14, IdPairs
<1>15. DocsGood(p, e)'
  <2>1. SUFFICES ASSUME NEW x \in Ids, x[1] = p
                 PROVE  docs'[x] = IF ~Created(history, p, x[2], e) THEN "none"
                                   ELSE IF Latest(history, p, x[2], e) THEN StatusOf(history, p, e)
                                   ELSE "deprecated"
    BY <1>2 DEF DocsGood
  <2>2. docs'[x] = IF x = d THEN "deprecated" ELSE IF x = new THEN "installed" ELSE "none"
    BY <1>3, <1>9, <1>14, <2>1
  <2>3. Created(history, p, x[2], e) <=> x = d \/ x = new
    BY <1>10, <1>14, <2>1
  <2>4. Latest(history, p, x[2], e) <=> x = new
    BY <1>10, <1>14, <2>1
  <2> QED
    BY <1>7, <1>13, <2>2, <2>3, <2>4
<1>16. SupportGood(p, e)'
  <2>1. SUFFICES ASSUME NEW x \in Ids, x[1] = p
                 PROVE  x \in supported' <=> Latest(history, p, x[2], e)
    BY <1>2 DEF SupportGood
  <2>2. Latest(history, p, x[2], e) <=> x = new
    BY <1>10, <1>14, <2>1
  <2>3. x \in supported => x = d
    BY <1>3, <1>6, <1>14, <2>1 DEF SupportGood, Latest
  <2> QED
    BY <1>8, <2>2, <2>3
<1>17. SlugGood(p, e)' /\ AskedGood(p, e)'
  BY <1>2, <1>3, <1>11 DEF SlugGood, NoSlug, AskedGood
<1>18. e \in logs
  BY <1>2, KindAt DEF Setup
<1>19. Good(p, e)'
  BY <1>15, <1>16, <1>17 DEF Good
<1> QED
  BY <1>2, <1>18, <1>19, EndFollows

LEMMA WriteChange ==
  ASSUME NEW p, NEW c, NEW e, Working(p, c, e), WritePlugin(c), history[e].kind # "UpdateApplied"
  PROVE  pc'[c] = "slug" /\ AtWork(p, c, e)'
<1>1. /\ history \in Seq(Events) /\ Legal(history) /\ e \in 1 .. Len(history) /\ e \in Nat \ {0}
      /\ history[e].plugin = p /\ Event(c) = history[e] /\ OneUpdate(history, p)
      /\ e - 1 \in 0 .. Len(history) /\ AtWork(p, c, e) /\ e \in DOMAIN history
  <2>1. history \in Seq(Events) /\ Legal(history) /\ e \in 1 .. Len(history) /\ e \in Nat \ {0}
    BY ONLY Working(p, c, e), WorkingAt
  <2>2. history[e].plugin = p /\ Event(c) = history[e]
    BY DEF Working, Event
  <2>4. OneUpdate(history, p)
    BY ONLY Working(p, c, e), WorkingAt
  <2>3. e - 1 \in 0 .. Len(history) /\ AtWork(p, c, e) /\ e \in DOMAIN history
    BY ONLY Working(p, c, e), WorkingAt
  <2> QED
    BY <2>1, <2>2, <2>3, <2>4
<1>1a. docs \in [Ids -> Statuses] /\ pc \in [Crawlers -> Places] /\ c \in Crawlers
  BY WorkingAt, WorkingTypes
<1>2. /\ pc[c] = "write" /\ UNCHANGED <<history, logs, supported, slugs, asked>> /\ Ids' = Ids
      /\ pc'[c] = "slug"
  BY <1>1, <1>1a DEF WritePlugin, Ids, Goto
<1>3. history[e].kind \in {"Granted", "Revoked", "UninstallationApplied"}
  BY <1>2, KindAt
<1>4. /\ Good(p, e - 1)
      /\ \E d \in Ids : held[c] = {d} /\ d[1] = p /\ Latest(history, p, d[2], e - 1)
      /\ Happened(history, "InstallationApplied", p, e - 1)
      /\ Due(history, p, e) <=> history[e].kind = "Granted"
      /\ history[e].kind = "Granted" => ~Due(history, p, e - 1)
  BY <1>1, <1>2, <1>3, WorkAt DEF AtChange
<1>5. PICK l \in Ids : held[c] = {l} /\ l[1] = p /\ Latest(history, p, l[2], e - 1)
  BY <1>4
<1>6. docs' = [x \in Ids |-> IF x = l THEN IF history[e].kind = "Granted" THEN "installed" ELSE "uninstalled"
                             ELSE docs[x]]
  BY <1>1, <1>3, <1>5 DEF WritePlugin, StatusAfter
<1>7. ASSUME NEW t
      PROVE  /\ Created(history, p, t, e) <=> Created(history, p, t, e - 1)
             /\ Latest(history, p, t, e) <=> Latest(history, p, t, e - 1)
  BY <1>1, <1>3, NextCreated, NextLatest DEF Creations
<1>8. Happened(history, "InstallationApplied", p, e) <=> Happened(history, "InstallationApplied", p, e - 1)
  BY <1>1, <1>3, NextDue
<1>9. StatusOf(history, p, e) = IF history[e].kind = "Granted" THEN "installed" ELSE "uninstalled"
  BY <1>4, <1>8 DEF StatusOf
<1>10. DocsGood(p, e)'
  <2>1. SUFFICES ASSUME NEW x \in Ids, x[1] = p
                 PROVE  docs'[x] = IF ~Created(history, p, x[2], e) THEN "none"
                                   ELSE IF Latest(history, p, x[2], e) THEN StatusOf(history, p, e)
                                   ELSE "deprecated"
    BY <1>2 DEF DocsGood
  <2>2. CASE x = l
    <3>1. Created(history, p, x[2], e) /\ Latest(history, p, x[2], e)
      BY <1>5, <1>7, <2>2 DEF Latest
    <3> QED
      BY <1>6, <1>9, <2>2, <3>1
  <2>3. CASE x # l
    <3>1. x[2] # l[2]
      BY <1>5, <2>1, <2>3, IdPairs
    <3>2. ~Latest(history, p, x[2], e - 1)
      BY <1>1, <1>5, <3>1, LatestUnique
    <3>3. docs[x] = IF ~Created(history, p, x[2], e - 1) THEN "none" ELSE "deprecated"
      BY <1>4, <2>1, <3>2 DEF Good, DocsGood
    <3> QED
      BY <1>6, <1>7, <2>3, <3>2, <3>3
  <2> QED
    BY <2>2, <2>3
<1>11. SupportGood(p, e)'
  BY <1>2, <1>4, <1>7 DEF Good, SupportGood
<1>12. AskedGood(p, e)'
  BY <1>2, <1>4, <1>8 DEF Good, AskedGood
<1>13. history[e].kind = "Granted" => NoSlug(p)'
  BY <1>2, <1>4 DEF Good, SlugGood, NoSlug
<1>14. AtChange(p, c, e)'
  BY <1>2, <1>4, <1>10, <1>11, <1>12, <1>13 DEF AtChange
<1> QED
  BY <1>2, <1>3, <1>14, WorkAfter

\* Only the slugs change.
LEMMA SlugUntouched ==
  ASSUME UNCHANGED <<history, docs, supported, asked>>, NEW p, NEW n
  PROVE  /\ DocsGood(p, n)' <=> DocsGood(p, n)
         /\ SupportGood(p, n)' <=> SupportGood(p, n)
         /\ AskedGood(p, n)' <=> AskedGood(p, n)
BY DEF DocsGood, SupportGood, AskedGood, Ids

LEMMA KeepSlugFollows ==
  ASSUME NEW p, NEW c, NEW e, Working(p, c, e), KeepSlug(c)
  PROVE  /\ pc'[c] = "idle" => GoodAtReach(p)'
         /\ pc'[c] # "idle" => AtWork(p, c, e)'
<1>1. /\ e \in 1 .. Len(history) /\ Event(c) = history[e] /\ AtWork(p, c, e)
      /\ c \in Crawlers /\ Event(c).plugin = p
  <2>1. AtWork(p, c, e) /\ c \in Crawlers
    BY DEF Working
  <2>2. Event(c) = history[e]
    BY DEF Working, Event
  <2>3. e \in 1 .. Len(history)
    BY ONLY Working(p, c, e), WorkingAt
  <2>4. Event(c).plugin = p
    BY ONLY Working(p, c, e), WorkingAt
  <2> QED
    BY ONLY <2>1, <2>2, <2>3, <2>4
<1>1a. pc \in [Crawlers -> Places]
  BY WorkingTypes
<1>2. pc[c] = "slug" /\ UNCHANGED <<history, logs, docs, supported, asked>>
  BY DEF KeepSlug
<1>3. history[e].kind \in {"InstallationApplied", "UninstallationApplied", "Granted", "Revoked"}
  BY <1>2, KindAt
<1>4. CASE history[e].kind \in {"InstallationApplied", "Granted"}
  <2>1. NoSlug(p)
    BY <1>1, <1>2, <1>4, WorkAt DEF AtApplied, AtChange
  <2>2. ~HasSlug(p)
    BY <2>1 DEF NoSlug, HasSlug
  <2>3. pc'[c] = "reserve" /\ slugs' = slugs
    BY <1>1, <1>1a, <1>4, <2>2 DEF KeepSlug, Goto
  <2>4. NoSlug(p)'
    BY <2>1, <2>3 DEF NoSlug
  <2>5. CASE history[e].kind = "InstallationApplied"
    <3>1. DocsGood(p, e) /\ SupportGood(p, e)
      BY <1>1, <1>2, <2>5, WorkAt DEF AtApplied
    <3>2. AtApplied(p, c, e)'
      BY <1>2, <2>3, <2>4, <3>1, SlugUntouched DEF AtApplied
    <3> QED
      BY <1>2, <2>3, <2>5, <3>2, WorkAfter
  <2>6. CASE history[e].kind = "Granted"
    <3>1. DocsGood(p, e) /\ SupportGood(p, e) /\ AskedGood(p, e) /\ Due(history, p, e)
      BY <1>1, <1>2, <2>6, WorkAt DEF AtChange
    <3>2. DocsGood(p, e)' /\ SupportGood(p, e)' /\ AskedGood(p, e)'
      BY <1>2, <3>1, SlugUntouched
    <3>3. AtChange(p, c, e)'
      BY <1>2, <2>3, <2>4, <2>6, <3>1, <3>2 DEF AtChange
    <3> QED
      BY <1>2, <2>3, <2>6, <3>3, WorkAfter
  <2> QED
    BY <1>4, <2>5, <2>6
<1>5. CASE history[e].kind \in {"UninstallationApplied", "Revoked"}
  <2>1. DocsGood(p, e) /\ SupportGood(p, e) /\ AskedGood(p, e) /\ ~Due(history, p, e)
    BY <1>1, <1>2, <1>5, WorkAt DEF AtChange
  <2>2. slugs' = {s \in slugs : s[1] # p} /\ AfterSlug(c)
    BY <1>1, <1>5 DEF KeepSlug
  <2>3. SlugGood(p, e)'
    BY <1>2, <2>1, <2>2 DEF SlugGood, NoSlug
  <2>4. Good(p, e)'
    BY <1>2, <2>1, <2>3, SlugUntouched DEF Good
  <2>5. CASE history[e].kind = "UninstallationApplied"
    <3>1. e \in logs
      BY <1>2, <2>5, KindAt DEF Setup
    <3>2. pc'[c] = "idle"
      BY <1>1, <1>1a, <2>2, <2>5 DEF AfterSlug, Done, Permissions
    <3>3. GoodAtReach(p)'
      BY <1>2, <2>4, <2>5, <3>1, EndFollows
    <3> QED
      BY <3>2, <3>3
  <2>6. CASE history[e].kind = "Revoked"
    <3>1. pc'[c] = "permission"
      BY <1>1, <1>1a, <2>2, <2>6 DEF AfterSlug, Goto, Permissions
    <3>2. AtChange(p, c, e)'
      BY <2>4, <3>1 DEF AtChange
    <3> QED
      BY <1>2, <2>6, <3>1, <3>2, WorkAfter
  <2> QED
    BY <1>5, <2>5, <2>6
<1> QED
  BY <1>3, <1>4, <1>5

LEMMA ReserveSlugFollows ==
  ASSUME NEW p, NEW c, NEW e, Working(p, c, e), ReserveSlug(c), p \notin spoiled'
  PROVE  pc'[c] # "idle" /\ AtWork(p, c, e)'
<1>1. /\ history \in Seq(Events) /\ Legal(history) /\ e \in 1 .. Len(history)
      /\ Event(c) = history[e] /\ AtWork(p, c, e) /\ history[e].plugin = p
      /\ c \in Crawlers /\ Event(c).plugin = p
  <2>1. Legal(history) /\ AtWork(p, c, e) /\ history[e].plugin = p /\ c \in Crawlers
    BY DEF Working
  <2>2. history \in Seq(Events)
    BY ONLY Working(p, c, e), WorkingAt
  <2>3. Event(c) = history[e]
    BY DEF Working, Event
  <2>4. e \in 1 .. Len(history)
    BY ONLY Working(p, c, e), WorkingAt
  <2>5. Event(c).plugin = p
    BY ONLY Working(p, c, e), WorkingAt
  <2> QED
    BY ONLY <2>1, <2>2, <2>3, <2>4, <2>5
<1>1a. pc \in [Crawlers -> Places]
  BY WorkingTypes
<1>2. pc[c] = "reserve" /\ UNCHANGED <<history, logs, docs, supported, asked>>
  BY DEF ReserveSlug
<1>3. history[e].kind \in {"InstallationApplied", "Granted"}
  BY <1>2, KindAt
<1>4. DocsGood(p, e) /\ SupportGood(p, e) /\ NoSlug(p) /\ Due(history, p, e)
  <2>1. CASE history[e].kind = "InstallationApplied"
    BY <1>1, <1>2, <2>1, WorkAt, NextDue DEF AtApplied
  <2>2. CASE history[e].kind = "Granted"
    BY <1>1, <1>2, <2>2, WorkAt DEF AtChange
  <2> QED
    BY <1>3, <2>1, <2>2
<1>5. history[e].kind = "Granted" => AskedGood(p, e)
  BY <1>1, <1>2, WorkAt DEF AtChange
<1>6. DocsGood(p, e)' /\ SupportGood(p, e)' /\ (history[e].kind = "Granted" => AskedGood(p, e)')
  BY <1>2, <1>4, <1>5, SlugUntouched
<1>7. CASE /\ slugs' = slugs \union {<<p, suffix[c]>>} /\ AfterSlug(c)
  <2>1. SlugGood(p, e)'
    BY <1>2, <1>4, <1>7 DEF SlugGood, NoSlug
  <2>2. pc'[c] = IF history[e].kind = "InstallationApplied" THEN "settings" ELSE "permission"
    BY <1>1, <1>1a, <1>3, <1>7 DEF AfterSlug, Goto, Permissions
  <2>3. CASE history[e].kind = "InstallationApplied"
    <3>1. AtApplied(p, c, e)'
      BY <1>6, <2>1, <2>2, <2>3 DEF AtApplied
    <3> QED
      BY <1>2, <2>2, <2>3, <3>1, WorkAfter
  <2>4. CASE history[e].kind = "Granted"
    <3>1. AtChange(p, c, e)'
      BY <1>6, <2>1, <2>2, <2>4 DEF AtChange, Good
    <3> QED
      BY <1>2, <2>2, <2>4, <3>1, WorkAfter
  <2> QED
    BY <1>3, <2>3, <2>4
<1>8. CASE Goto(c, "slug") /\ slugs' = slugs
  <2>1. pc'[c] = "slug"
    BY <1>1, <1>1a, <1>8 DEF Goto
  <2>2. NoSlug(p)'
    BY <1>4, <1>8 DEF NoSlug
  <2>3. CASE history[e].kind = "InstallationApplied"
    <3>1. AtApplied(p, c, e)'
      BY <1>6, <2>1, <2>2 DEF AtApplied
    <3> QED
      BY <1>2, <2>1, <2>3, <3>1, WorkAfter
  <2>4. CASE history[e].kind = "Granted"
    <3>1. AtChange(p, c, e)'
      BY <1>2, <1>4, <1>6, <2>1, <2>2, <2>4 DEF AtChange
    <3> QED
      BY <1>2, <2>1, <2>4, <3>1, WorkAfter
  <2> QED
    BY <1>3, <2>3, <2>4
<1>9. (slugs' = slugs \union {<<p, suffix[c]>>} /\ AfterSlug(c)) \/ (Goto(c, "slug") /\ slugs' = slugs)
  BY <1>1 DEF ReserveSlug
<1> QED
  BY <1>7, <1>8, <1>9

LEMMA LogPermissionFollows ==
  ASSUME NEW p, NEW c, NEW e, Working(p, c, e), LogPermission(c)
  PROVE  GoodAtReach(p)'
<1>1. e = pos[c] /\ AtWork(p, c, e)
  BY DEF Working
<1>2. /\ pc[c] = "permission" /\ UNCHANGED <<history, docs, supported, slugs, asked>>
      /\ logs' = logs \union {e}
  BY <1>1 DEF LogPermission
<1>3. history[e].kind \in {"Granted", "Revoked"}
  BY <1>2, KindAt
<1>4. Good(p, e)
  BY <1>1, <1>2, <1>3, WorkAt DEF AtChange
<1>5. Good(p, e)'
  BY <1>2, <1>4, LogUntouched
<1> QED
  BY <1>2, <1>3, <1>5, EndFollows

-----------------------------------------------------------------------------
(* The settings *)

\* A plugin's last document is the one its address leads to.
LEMMA LastByAddress ==
  ASSUME history \in Seq(Events), Legal(history), NEW p \in Plugins, NEW n \in 0 .. Len(history),
         OneUpdate(history, p), Happened(history, "InstallationPrepared", p, n),
         DocsGood(p, n), SupportGood(p, n)
  PROVE  ByAddress(p) # {} /\ ByAddress(p) \subseteq supported
<1>1. PICK l \in Ids : l[1] = p /\ Latest(history, p, l[2], n) /\ docs[l] = StatusOf(history, p, n)
  BY LastDoc
<1>2. l \in supported /\ l \in Documents(p)
  BY <1>1, StatusKinds DEF SupportGood, Documents
<1> QED
  BY <1>2 DEF ByAddress

LEMMA SettingsFollow ==
  ASSUME NEW p, NEW c, NEW e, Working(p, c, e), Settings(c)
  PROVE  GoodAtReach(p)'
<1> DEFINE new == <<p, history[e].tx>>
<1>1. /\ history \in Seq(Events) /\ Legal(history) /\ e \in 1 .. Len(history) /\ e \in Nat \ {0}
      /\ e \in 0 .. Len(history) /\ Event(c) = history[e] /\ AtWork(p, c, e) /\ history[e].plugin = p
      /\ p \in Plugins /\ OneUpdate(history, p) /\ new \in Ids /\ DOMAIN history = 1 .. Len(history)
  BY ONLY Working(p, c, e), WorkingAt
<1>2. /\ pc[c] = "settings" /\ UNCHANGED <<history, logs, docs, slugs>> /\ Ids' = Ids
      /\ Event(c).plugin = p
  BY <1>1 DEF Settings, Ids
<1>3. /\ \/ \E d \in ByAddress(p) : supported' = supported \union {d}
         \/ ByAddress(p) = {} /\ supported' = supported
      /\ asked' = IF history[e].kind = "InstallationApplied" /\ ByAddress(p) # {}
                  THEN asked \union {p} ELSE asked
  BY <1>1, <1>2 DEF Settings
<1>4. history[e].kind \in {"InstallationPrepared", "InstallationApplied"} /\ e \in logs
  BY <1>2, KindAt DEF Setup
<1>5. CASE history[e].kind = "InstallationApplied"
  <2>1. DocsGood(p, e) /\ SupportGood(p, e) /\ SlugGood(p, e)
    BY <1>1, <1>2, <1>5, WorkAt DEF AtApplied
  <2>2. Happened(history, "InstallationPrepared", p, e)
    <3>1. Happened(history, "InstallationPrepared", p, e - 1)
      BY <1>1, <1>5, PreparedFirst
    <3> QED
      BY <1>1, <3>1, NextHappened
  <2>3. ByAddress(p) # {} /\ ByAddress(p) \subseteq supported
    BY <1>1, <2>1, <2>2, LastByAddress
  <2>4. supported' = supported /\ p \in asked'
    BY <1>3, <1>5, <2>3
  <2>5. Good(p, e)'
    BY <1>2, <2>1, <2>4 DEF Good, DocsGood, SupportGood, SlugGood, NoSlug, AskedGood
  <2> QED
    BY <1>2, <1>4, <1>5, <2>5, EndFollows
<1>6. CASE history[e].kind = "InstallationPrepared"
  <2>0. asked' = asked
    BY <1>3, <1>6
  <2>1. \A n : Reached(p, n)' <=> Reached(p, n)
    BY <1>2 DEF Reached
  <2>2. CASE GoodAtReach(p)
    <3>1. ASSUME NEW n \in 0 .. Len(history), Reached(p, n)' PROVE Good(p, n)'
      <4>1. Good(p, n) /\ e <= n /\ n \in Nat
        BY <1>1, <1>4, <2>1, <2>2, <3>1 DEF GoodAtReach, Reached
      <4>2. Happened(history, "InstallationPrepared", p, n)
        BY <1>1, <1>6, <4>1 DEF Happened
      <4>3. ByAddress(p) # {} /\ ByAddress(p) \subseteq supported
        BY <1>1, <4>1, <4>2, LastByAddress DEF Good
      <4>4. supported' = supported
        BY <1>3, <4>3
      <4> QED
        BY <1>2, <2>0, <4>1, <4>4, LogUntouched
    <3> QED
      BY <1>2, <3>1 DEF GoodAtReach
  <2>3. CASE Reached(p, e) /\ DocsGood(p, e) /\ SupportGood(p, e - 1) /\ SlugGood(p, e) /\ AskedGood(p, e)
    <3>1. ASSUME NEW t
          PROVE  /\ ~Latest(history, p, t, e - 1)
                 /\ Created(history, p, t, e) <=> t = history[e].tx
                 /\ Latest(history, p, t, e) <=> t = history[e].tx
      <4>1. history \in Seq(Events) /\ Legal(history) /\ e \in 1 .. Len(history)
        BY <1>1
      <4>2. history[e].plugin = p /\ history[e].kind = "InstallationPrepared"
        BY <1>1, <1>6
      <4> QED
        BY ONLY <4>1, <4>2, FirstVersion
    <3>2. \A d \in Ids : d[1] = p => (d[2] = history[e].tx <=> d = new)
      BY IdPairs
    <3>3. \A d \in Ids : d[1] = p => d \notin supported
      BY <2>3, <3>1 DEF SupportGood
    <3>4. Documents(p) = {new}
      BY <1>1, <2>3, <3>1, <3>2, CreatedDocs DEF Documents
    <3>5. ByAddress(p) = {new}
      BY <3>3, <3>4, <1>1 DEF ByAddress
    <3>6. supported' = supported \union {new}
      BY <1>3, <3>5
    <3>7. SupportGood(p, e)'
      BY <1>2, <3>1, <3>2, <3>3, <3>6 DEF SupportGood
    <3>8. DocsGood(p, e)' /\ SlugGood(p, e)' /\ AskedGood(p, e)'
      BY <1>2, <2>0, <2>3 DEF DocsGood, SlugGood, NoSlug, AskedGood
    <3>9. Good(p, e)' /\ Reached(p, e)'
      BY <2>1, <2>3, <3>7, <3>8 DEF Good
    <3> QED
      BY <1>2, <3>9, GoodOnce DEF Working
  <2> QED
    BY <1>1, <1>2, <1>6, <2>2, <2>3, WorkAt DEF AtPrepared
<1> QED
  BY <1>4, <1>5, <1>6

-----------------------------------------------------------------------------
(* Every step *)

LEMMA OwnStepFollows ==
  ASSUME TypeInv, Legal(history), OwnInv, NEW p, NEW c \in Crawlers, StepOf(c), p \notin spoiled',
         Orderly(p), Plain(p), Follows(p), pc[c] # "idle", Event(c).plugin = p
  PROVE  Follows(p)'
<1>1. PICK e \in DOMAIN history : e = pos[c]
  BY EventType
<1>2. c \in Busy(p) /\ history[e].plugin = p
  BY <1>1 DEF Busy, Event
<1>3. Working(p, c, e)
  BY <1>1, <1>2 DEF Follows, Working
<1>4. Step(c) /\ ~Receive(c)
  BY OwnStep
<1>5. /\ pc'[c] = "idle" => GoodAtReach(p)'
      /\ pc'[c] # "idle" => AtWork(p, c, e)'
  <2>1. CASE StoreLog(c)
    BY <1>3, <2>1, StoreLogFollows
  <2>2. CASE QueryUpdate(c)
    BY <1>3, <2>2, QueryUpdateFollows
  <2>3. CASE CreatePlugin(c)
    <3>1. history[e].kind \in {"InstallationPrepared", "UpdateApplied"}
      BY <1>3, <2>3, KindAt DEF CreatePlugin
    <3> QED
      BY <1>3, <2>3, <3>1, CreateFirst, CreateUpdate
  <2>4. CASE InstallPlugin(c)
    BY <1>3, <2>4, InstallFollows
  <2>5. CASE FindPlugin(c)
    <3>1. history[e].kind \in {"UpdateApplied", "UninstallationApplied", "Granted", "Revoked"}
      BY <1>3, <2>5, KindAt DEF FindPlugin
    <3>2. CASE history[e].kind = "UpdateApplied"
      BY <1>3, <2>5, <3>2, FindUpdate
    <3>3. CASE history[e].kind = "UninstallationApplied"
      BY <1>3, <2>5, <3>3, FindUninstalled
    <3>4. CASE history[e].kind = "Granted"
      BY <1>3, <2>5, <3>4, FindGranted
    <3>5. CASE history[e].kind = "Revoked"
      BY <1>3, <2>5, <3>5, FindRevoked
    <3> QED
      BY <3>1, <3>2, <3>3, <3>4, <3>5
  <2>6. CASE WritePlugin(c)
    <3>1. CASE history[e].kind = "UpdateApplied"
      <4>1. pc'[c] = "idle"
        <5>1. Event(c) = history[e] /\ pc \in [Crawlers -> Places]
          BY <1>1 DEF TypeInv, TypeOK, Event
        <5> QED
          BY <2>6, <3>1, <5>1 DEF WritePlugin, Done
      <4> QED
        BY <1>3, <2>6, <3>1, <4>1, WriteUpdate
    <3>2. CASE history[e].kind # "UpdateApplied"
      BY <1>3, <2>6, <3>2, WriteChange
    <3> QED
      BY <3>1, <3>2
  <2>7. CASE KeepSlug(c)
    BY <1>3, <2>7, KeepSlugFollows
  <2>8. CASE ReserveSlug(c)
    BY <1>3, <2>8, ReserveSlugFollows
  <2>9. CASE Settings(c)
    <3>1. pc'[c] = "idle"
      BY <2>9 DEF TypeInv, TypeOK, Settings, Done
    <3> QED
      BY <1>3, <2>9, <3>1, SettingsFollow
  <2>10. CASE LogPermission(c)
    <3>1. pc'[c] = "idle"
      BY <2>10 DEF TypeInv, TypeOK, LogPermission, Done
    <3> QED
      BY <1>3, <2>10, <3>1, LogPermissionFollows
  <2> QED
    BY <1>4, <2>1, <2>2, <2>3, <2>4, <2>5, <2>6, <2>7, <2>8, <2>9, <2>10 DEF Step
<1> QED
  BY <1>3, <1>5, OwnFollows

LEMMA StepFollowInv ==
  ASSUME TypeInv, Legal(history), OwnInv, OrderInv, FollowInv, NEW c \in Crawlers, StepOf(c)
  PROVE  FollowInv'
<1>1. UNCHANGED history /\ spoiled \subseteq spoiled'
  BY StepFrame
<1>2. ASSUME NEW p \in Plugins, p \notin spoiled', Plain(p) PROVE Follows(p)'
  <2>1. Orderly(p) /\ Follows(p)
    BY <1>1, <1>2 DEF OrderInv, FollowInv
  <2>2. CASE Aside(c, p)
    BY <2>1, <2>2, AsideFollows
  <2>3. CASE Receive(c) /\ Event(c).plugin = p /\ ~Recognised(pos[c])
    BY <1>2, <2>1, <2>3, CalledFollows
  <2>4. CASE pc[c] # "idle" /\ Event(c).plugin = p
    BY <1>2, <2>1, <2>4, OwnStepFollows
  <2> QED
    BY <2>2, <2>3, <2>4 DEF Aside
<1>3. \A p \in Plugins : Plain(p)' <=> Plain(p)
  BY <1>1, PlainStays
<1> QED
  BY <1>2, <1>3 DEF FollowInv

\* No two slugs are the same.
LEMMA StepSlugsApart ==
  ASSUME TypeInv, SlugsApart, NEW c \in Crawlers, StepOf(c)
  PROVE  SlugsApart'
<1>1. slugs \subseteq Plugins \X (0 .. MaxSuffix)
  BY DEF TypeInv, TypeOK
<1>2. CASE slugs' \subseteq slugs
  BY <1>2 DEF SlugsApart
<1>3. CASE ~Taken(suffix[c]) /\ slugs' = slugs \union {<<Event(c).plugin, suffix[c]>>}
  <2>1. \A s \in slugs : s[2] # suffix[c]
    BY <1>1, <1>3 DEF Taken
  <2> QED
    BY <1>3, <2>1 DEF SlugsApart
<1>4. (slugs' \subseteq slugs) \/ (~Taken(suffix[c]) /\ slugs' = slugs \union {<<Event(c).plugin, suffix[c]>>})
  <2>1. CASE ReserveSlug(c)
    BY <2>1 DEF ReserveSlug
  <2>2. CASE KeepSlug(c)
    BY <2>2 DEF KeepSlug
  <2>3. CASE ~ReserveSlug(c) /\ ~KeepSlug(c)
    BY <2>3 DEF StepOf, Step, Receive, StoreLog, QueryUpdate, CreatePlugin, InstallPlugin, FindPlugin,
                WritePlugin, Settings, LogPermission, Crash, HandlerFails, Redeliver, database
  <2> QED
    BY <2>1, <2>2, <2>3
<1> QED
  BY <1>2, <1>3, <1>4

LifecycleInv == TypeInv /\ Legal(history) /\ OwnInv /\ OrderInv /\ FollowInv /\ SlugsApart

LEMMA InitLifecycleInv == Init => LifecycleInv
<1> SUFFICES ASSUME Init PROVE LifecycleInv
  OBVIOUS
<1>1. TypeInv
  BY InitTypeInv
<1>2. Legal(history)
  BY LifecycleConstants DEF Init
<1>3. /\ logs = {} /\ supported = {} /\ slugs = {} /\ ran = {} /\ \A d \in Ids : docs[d] = "none"
      /\ \A c \in Crawlers : pc[c] = "idle" /\ pos[c] = 1
  BY DEF Init
<1>4. \A p : Busy(p) = {}
  BY <1>3 DEF Busy
<1>5. OwnInv
  BY <1>3 DEF OwnInv
<1>6. ASSUME NEW p PROVE Orderly(p)
  BY <1>3, <1>4 DEF Orderly, AloneAt, BehindLogged, LogsClosed, LogsRan, RanLogged
<1>7. ASSUME NEW p PROVE Follows(p)
  <2>1. SUFFICES ASSUME NEW n \in 0 .. Len(history), Reached(p, n) PROVE Good(p, n)
    BY <1>4 DEF Follows, GoodAtReach
  <2>2. DOMAIN history = 1 .. Len(history) /\ Len(history) \in Nat
    BY <1>1 DEF TypeInv, TypeOK
  <2>3. \A m \in 1 .. n : history[m].plugin # p
    BY <1>3, <2>1, <2>2 DEF Reached
  <2>4. \A t : ~Created(history, p, t, n) /\ ~Latest(history, p, t, n)
    BY <2>3 DEF Created, Latest
  <2>5. ~Happened(history, "InstallationApplied", p, n)
    BY <2>3 DEF Happened
  <2> QED
    BY <1>3, <2>4, <2>5 DEF Good, DocsGood, SupportGood, SlugGood, NoSlug, AskedGood, Due
<1>8. SlugsApart
  BY <1>3 DEF SlugsApart
<1> QED
  BY <1>1, <1>2, <1>5, <1>6, <1>7, <1>8 DEF LifecycleInv, OrderInv, FollowInv

LEMMA StutterLifecycle ==
  ASSUME LifecycleInv, UNCHANGED vars
  PROVE  (OwnInv /\ OrderInv /\ FollowInv /\ SlugsApart /\ Legal(history))'
<1>1. UNCHANGED <<history, logs, docs, supported, slugs, asked, pos, pc, made, held, ran, spoiled>>
  BY DEF vars, database
<1>2. OwnInv' /\ SlugsApart' /\ Legal(history)'
  BY <1>1 DEF LifecycleInv, OwnInv, SlugsApart, Event
<1>3. \A p : Busy(p)' = Busy(p)
  BY <1>1 DEF Busy, Event
<1>4. \A p : Orderly(p)' <=> Orderly(p)
  BY <1>1, <1>3 DEF Orderly, AloneAt, BehindLogged, LogsClosed, LogsRan, RanLogged, LogFits, Event
<1>5. ASSUME NEW p, Follows(p) PROVE Follows(p)'
  <2>1. Untouched(p)
    BY <1>1 DEF Untouched
  <2>2. ASSUME NEW c \in Busy(p)', NEW e \in DOMAIN history, e = pos'[c] PROVE AtWork(p, c, e)'
    <3>1. c \in Busy(p) /\ c \in Crawlers
      BY <1>3 DEF Busy
    <3>2. AtWork(p, c, e)
      BY <1>1, <1>5, <2>2, <3>1 DEF Follows
    <3> QED
      BY <1>1, <2>1, <3>1, <3>2, UntouchedWork
  <2>3. Busy(p)' = {} => GoodAtReach(p)'
    BY <1>1, <1>3, <1>5, <2>1, UntouchedReach DEF Follows
  <2> QED
    BY <1>1, <2>2, <2>3 DEF Follows
<1>6. OrderInv'
  BY <1>1, <1>4 DEF LifecycleInv, OrderInv
<1>7. FollowInv'
  <2>1. \A p : Plain(p)' <=> Plain(p)
    BY <1>1, PlainStays
  <2> QED
    BY <1>1, <1>5, <2>1 DEF LifecycleInv, FollowInv
<1> QED
  BY <1>2, <1>6, <1>7

LEMMA StepLifecycleInv ==
  ASSUME LifecycleInv, [Next]_vars
  PROVE  LifecycleInv'
<1>1. TypeInv'
  BY StepTypeInv DEF LifecycleInv
<1>2. CASE UNCHANGED vars
  BY <1>1, <1>2, StutterLifecycle DEF LifecycleInv
<1>3. CASE Next
  <2>1. PICK c \in Crawlers : StepOf(c)
    BY <1>3 DEF Next, StepOf
  <2>2. Legal(history)'
    BY <2>1, StepFrame DEF LifecycleInv
  <2>3. OwnInv'
    BY <2>1, StepOwnInv DEF LifecycleInv
  <2>4. OrderInv'
    BY <2>1, StepOrderInv DEF LifecycleInv
  <2>5. FollowInv'
    BY <2>1, StepFollowInv DEF LifecycleInv
  <2>6. SlugsApart'
    BY <2>1, StepSlugsApart DEF LifecycleInv
  <2> QED
    BY <1>1, <2>2, <2>3, <2>4, <2>5, <2>6 DEF LifecycleInv
<1> QED
  BY <1>2, <1>3

-----------------------------------------------------------------------------
(* What is seen when a plugin is at rest *)

\* A set of positions has a last one.
LEMMA Greatest ==
  ASSUME NEW n \in Nat, NEW S \in SUBSET (1 .. n), S # {}
  PROVE  \E m \in S : \A i \in S : i <= m
<1> DEFINE R == {ss \in Nat \X Nat : ss[1] < ss[2]}
           T == {n - i : i \in S}
<1>1. IsWellFoundedOn(R, Nat)
  BY NatLessThanWellFounded DEF OpToRel
<1>2. T \subseteq Nat /\ T # {}
  <2>1. PICK s \in S : TRUE
    OBVIOUS
  <2>2. n - s \in T
    OBVIOUS
  <2>3. ASSUME NEW i \in S PROVE n - i \in Nat
    OBVIOUS
  <2> QED
    BY <2>2, <2>3
<1>3. PICK x \in T : \A y \in T : ~(<<y, x>> \in R)
  <2> HIDE DEF R, T
  <2> QED
    BY <1>1, <1>2, WFMin
<1>4. PICK m \in S : x = n - m
  BY <1>3
<1>5. ASSUME NEW i \in S PROVE i <= m
  <2>1. n - i \in T /\ n - i \in Nat /\ x \in Nat
    BY <1>2, <1>3
  <2>2. ~(n - i < x)
    BY <1>3, <2>1
  <2> QED
    BY <1>4, <2>2
<1> QED
  BY <1>5

LEMMA ProgressLast ==
  ASSUME TypeInv
  PROVE  /\ Progress \in 0 .. Len(history) /\ Progress \in ran \union {0}
         /\ \A m \in ran : m <= Progress
<1>1. DOMAIN history = 1 .. Len(history) /\ Len(history) \in Nat /\ ran \subseteq 1 .. Len(history)
  BY DEF TypeInv, TypeOK
<1>2. \E n \in ran \union {0} : \A m \in ran : m <= n
  <2>1. CASE ran = {}
    BY <2>1
  <2>2. CASE ran # {}
    BY <1>1, <2>2, Greatest
  <2> QED
    BY <2>1, <2>2
<1>3. Progress \in ran \union {0} /\ \A m \in ran : m <= Progress
  BY <1>2 DEF Progress
<1> QED
  BY <1>1, <1>3

\* The collections hold what the events up to the last one handled make.
LEMMA RestGood ==
  ASSUME LifecycleInv, NEW p \in Plugins, AtRest(p), Plain(p)
  PROVE  /\ Good(p, Progress)
         /\ Due(history, p, Progress) <=> Installed(p, Progress)
<1>1. TypeInv /\ Legal(history) /\ Orderly(p) /\ Follows(p) /\ Busy(p) = {}
  BY DEF LifecycleInv, OrderInv, FollowInv, AtRest
<1>2. /\ history \in Seq(Events) /\ DOMAIN history = 1 .. Len(history) /\ Len(history) \in Nat
      /\ logs \subseteq DOMAIN history /\ ran \subseteq DOMAIN history
  BY <1>1 DEF TypeInv, TypeOK
<1>3. PICK n \in 0 .. Len(history) : n = Progress /\ n \in ran \union {0} /\ \A m \in ran : m <= n
  BY <1>1, ProgressLast
<1>4. ASSUME NEW m \in DOMAIN history, history[m].plugin = p PROVE m \in logs <=> m <= n
  <2>1. m \in logs => m \in ran
    BY <1>1, <1>4 DEF Orderly, LogsRan
  <2>2. m <= n => n \in ran /\ m \in 1 .. n
    BY <1>2, <1>3
  <2>3. m <= n => m \in logs
    BY <1>1, <1>4, <2>2 DEF Orderly, RanLogged
  <2> QED
    BY <1>3, <2>1, <2>3
<1>5. Reached(p, n)
  BY <1>4 DEF Reached
<1>6. Good(p, n)
  BY <1>1, <1>5 DEF Follows, GoodAtReach
<1>7. ~Pending(history, p, n)
  <2>1. SUFFICES ASSUME NEW r \in 1 .. n, NEW u \in DOMAIN history, u > n, history[u].tx = history[r].tx
                 PROVE  FALSE
    BY DEF Pending
  <2>2. n \in 1 .. Len(history) /\ r \in 1 .. Len(history) /\ u \in 1 .. Len(history)
        /\ r <= n /\ n <= u
    BY <1>2, <2>1
  <2>3. history[r].tx <= history[n].tx /\ history[n].tx <= history[u].tx
        /\ history[r].tx \in Nat /\ history[n].tx \in Nat /\ history[u].tx \in Nat
    BY <1>1, <1>2, <2>2, TxGrows
  <2>4. history[u].tx = history[n].tx
    BY <2>1, <2>3
  <2> QED
    BY <1>3, <2>1, <2>2, <2>4 DEF AtRest
<1> QED
  BY <1>3, <1>6, <1>7 DEF Due, Installed

LEMMA RestStatus ==
  ASSUME LifecycleInv
  PROVE  StatusFollows
<1> SUFFICES ASSUME NEW p \in Plugins, AtRest(p), Plain(p)
             PROVE  LET current == {d \in Documents(p) : docs[d] = "installed"}
                    IN IF Installed(p, Progress)
                       THEN /\ \E d \in current : current = {d} /\ \A x \in Documents(p) : x[2] <= d[2]
                            /\ p \in asked
                       ELSE current = {}
  BY DEF StatusFollows
<1> DEFINE current == {d \in Documents(p) : docs[d] = "installed"}
<1>1. TypeInv /\ Legal(history)
  BY DEF LifecycleInv
<1>2. history \in Seq(Events) /\ OneUpdate(history, p)
  BY <1>1 DEF TypeInv, TypeOK, Plain, OneUpdate
<1>3. PICK n \in 0 .. Len(history) : n = Progress
  BY <1>1, ProgressLast
<1>4. Good(p, n) /\ (Due(history, p, n) <=> Installed(p, n))
  BY <1>3, RestGood
<1>5. CASE Installed(p, n)
  <2>1. StatusOf(history, p, n) = "installed" /\ p \in asked
    BY <1>4, <1>5 DEF StatusOf, Due, Good, AskedGood
  <2>2. Happened(history, "InstallationPrepared", p, n)
    <3>1. PICK j \in 1 .. n : history[j].kind = "InstallationApplied" /\ history[j].plugin = p
      BY <1>5 DEF Installed, Happened
    <3>2. j \in 1 .. Len(history) /\ j - 1 \in Nat /\ n \in Nat /\ j - 1 <= n
      BY <1>3, <3>1
    <3>3. Happened(history, "InstallationPrepared", p, j - 1)
      BY <1>1, <1>2, <3>1, <3>2, PreparedFirst
    <3> QED
      BY <3>2, <3>3, HappenedGrows
  <2>3. PICK l \in Ids :
          /\ l[1] = p /\ Latest(history, p, l[2], n) /\ docs[l] = "installed"
          /\ \A d \in Ids : d[1] = p /\ d # l => docs[d] \in {"none", "deprecated"}
    BY <1>1, <1>2, <1>4, <2>1, <2>2, LastDoc DEF Good
  <2>4. current = {l}
    BY <2>3 DEF Documents
  <2>5. ASSUME NEW x \in Documents(p) PROVE x[2] <= l[2]
    <3>1. Created(history, p, x[2], n)
      BY <1>4, <2>5, CreatedDocs DEF Documents, Good
    <3> QED
      BY <2>3, <3>1 DEF Latest, Created
  <2> QED
    BY <1>3, <1>5, <2>1, <2>4, <2>5
<1>6. CASE ~Installed(p, n)
  <2>1. StatusOf(history, p, n) # "installed"
    BY <1>4, <1>6 DEF StatusOf
  <2>2. \A d \in Documents(p) : docs[d] # "installed"
    BY <1>4, <2>1 DEF Documents, Good, DocsGood
  <2> QED
    BY <1>3, <1>6, <2>2
<1> QED
  BY <1>5, <1>6

LEMMA RestSlugs ==
  ASSUME LifecycleInv
  PROVE  SlugFollows
<1> SUFFICES ASSUME NEW p \in Plugins, AtRest(p), Plain(p)
             PROVE  LET mine == {s \in slugs : s[1] = p}
                    IN IF Installed(p, Progress)
                       THEN \E s \in mine : mine = {s} /\ \A t \in slugs : t[2] = s[2] => t = s
                       ELSE mine = {}
  BY DEF SlugFollows
<1>1. SlugGood(p, Progress) /\ (Due(history, p, Progress) <=> Installed(p, Progress))
  BY RestGood DEF Good
<1>2. CASE Installed(p, Progress)
  <2>1. PICK s \in slugs : s[1] = p /\ \A t \in slugs : t[1] = p => t = s
    BY <1>1, <1>2 DEF SlugGood
  <2>2. \A t \in slugs : t[2] = s[2] => t = s
    BY DEF LifecycleInv, SlugsApart
  <2> QED
    BY <1>2, <2>1, <2>2
<1>3. CASE ~Installed(p, Progress)
  BY <1>1, <1>3 DEF SlugGood, NoSlug
<1> QED
  BY <1>2, <1>3

LEMMA LifecycleInvariant == Spec => []LifecycleInv
BY InitLifecycleInv, StepLifecycleInv, PTL DEF Spec

\* When nobody is at work on a plugin, its one installed document is the latest
\* version, if the chain has it installed, and none is if not.
THEOREM StatusAlwaysFollows == Spec => []StatusFollows
BY LifecycleInvariant, RestStatus, PTL

\* It has its one slug then, that no other plugin has, or none.
THEOREM SlugsAlwaysFollow == Spec => []SlugFollows
BY LifecycleInvariant, RestSlugs, PTL
=============================================================================
