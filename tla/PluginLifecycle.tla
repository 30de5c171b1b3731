---------------------------- MODULE PluginLifecycle ----------------------------
(***************************************************************************)
(* The plugins of a DAO, as pluginSetupProcessorHandler.ts, pluginHandler.ts *)
(* and permissionHandler.ts make them from the events of the plugin setup    *)
(* processor and the DAO's EXECUTE_PERMISSION, and the slugs they carry.     *)
(*                                                                          *)
(* Crawlers give the events to the handlers in the order of the chain, and   *)
(* again from an earlier one on; two of them are at work when a lease        *)
(* expires (TaskLock). An event is named by its place in the history, and    *)
(* so is the log stored for it; a Plugin document by its plugin and          *)
(* transaction, which is its id. The plugins are of a kind that has settings *)
(* and a slug, and have no sub-plugins.                                      *)
(***************************************************************************)
EXTENDS Integers, Sequences

CONSTANTS
  Plugins,
  Histories,    \* the events the chain may hold: sequences
  Crawlers,
  MaxSuffix,    \* the last suffix a slug may get
  FaultKinds,   \* of "crash", "fail" (a call in a handler), "redeliver"
  MaxFaults     \* bound: how many faults

Setup == {"InstallationPrepared", "InstallationApplied", "UpdatePrepared", "UpdateApplied",
          "UninstallationPrepared", "UninstallationApplied"}
Permissions == {"Granted", "Revoked"}
Kinds == Setup \union Permissions
Events == [kind : Kinds, plugin : Plugins, setup : Nat, tx : Nat]

\* The plugin has the EXECUTE_PERMISSION after the first n events.
HasPermission(h, p, n) ==
  \E g \in 1 .. n : /\ h[g].kind = "Granted" /\ h[g].plugin = p
                    /\ \A r \in (g + 1) .. n : ~(h[r].kind = "Revoked" /\ h[r].plugin = p)

Happened(h, k, p, n) == \E i \in 1 .. n : h[i].kind = k /\ h[i].plugin = p

\* What the contracts emit. The setup processor grants the permission before
\* InstallationApplied, and revokes it before UninstallationApplied.
Legal(h) ==
  /\ \A i, j \in DOMAIN h : i < j => h[i].tx <= h[j].tx
  /\ \A j \in DOMAIN h :
       LET e == h[j]
           before(k) == \E i \in 1 .. (j - 1) :
             h[i].kind = k /\ h[i].plugin = e.plugin /\ h[i].setup = e.setup
           ever(k) == Happened(h, k, e.plugin, j - 1)
       IN CASE e.kind = "InstallationPrepared" -> ~ever("InstallationPrepared")
            [] e.kind = "InstallationApplied" ->
                 /\ before("InstallationPrepared") /\ ~ever("InstallationApplied")
                 /\ HasPermission(h, e.plugin, j - 1)
            [] e.kind \in {"UpdatePrepared", "UninstallationPrepared"} ->
                 /\ ever("InstallationApplied") /\ ~ever("UninstallationApplied")
                 /\ \A i \in 1 .. (j - 1) : h[i].plugin = e.plugin => h[i].setup # e.setup
            [] e.kind = "UpdateApplied" ->
                 before("UpdatePrepared") /\ ~ever("UninstallationApplied")
            [] e.kind = "UninstallationApplied" ->
                 /\ before("UninstallationPrepared") /\ ~ever("UninstallationApplied")
                 /\ ~HasPermission(h, e.plugin, j - 1)
            [] e.kind = "Granted" -> ever("InstallationPrepared") /\ ~HasPermission(h, e.plugin, j - 1)
            [] e.kind = "Revoked" -> HasPermission(h, e.plugin, j - 1)

ASSUME LifecycleConstants ==
  /\ Histories \subseteq Seq(Events)
  /\ \A h \in Histories : Legal(h)
  /\ MaxSuffix \in Nat
  /\ FaultKinds \subseteq {"crash", "fail", "redeliver"} /\ MaxFaults \in Nat

VARIABLES
  history,     \* the events of the chain
  logs,        \* the events whose log is stored, LogPluginSetupProcessor or DaoPermission
  docs,        \* status of each Plugin document, or "none"
  supported,   \* the documents with isSupported
  slugs,       \* the PluginSlug documents: pairs of a plugin and a suffix
  asked,       \* plugins whose synchronisation was asked for over the queue
  pos,         \* the event each crawler gives to its handler next
  pc,          \* where the handler is
  made,        \* the new version's document, of a handler that updates: {} or {id}
  held,        \* the document a handler has read and is about to change
  suffix,      \* the suffix of the slug a handler tries next
  ran,         \* events whose handler ran from its start to its end
  failed,      \* events whose handler failed once and passed them for handled
  spoiled,     \* plugins one of whose handlers was cut short, overlapped another's,
               \* or found no suffix that is free
  faults

database == <<logs, docs, supported, slugs, asked>>
vars == <<history, database, pos, pc, made, held, suffix, ran, failed, spoiled, faults>>

Ids == Plugins \X {history[i].tx : i \in DOMAIN history}
Statuses == {"none", "preInstall", "installed", "deprecated", "uninstalled"}
Places == {"idle", "log", "query", "create", "find", "write", "install", "slug",
           "reserve", "settings", "permission"}

Fault(k) == k \in FaultKinds /\ faults < MaxFaults /\ faults' = faults + 1

Init ==
  /\ history \in Histories
  /\ logs = {} /\ docs = [d \in Ids |-> "none"] /\ supported = {}
  /\ slugs = {} /\ asked = {}
  /\ pos = [c \in Crawlers |-> 1]
  /\ pc = [c \in Crawlers |-> "idle"]
  /\ made = [c \in Crawlers |-> {}]
  /\ held = [c \in Crawlers |-> {}]
  /\ suffix = [c \in Crawlers |-> 0]
  /\ ran = {} /\ failed = {} /\ spoiled = {} /\ faults = 0

-----------------------------------------------------------------------------
(* Queries *)

Event(c) == history[pos[c]]

Documents(p) == {d \in Ids : d[1] = p /\ docs[d] # "none"}

\* Plugin.findByAddress: one that is supported, if there is one.
ByAddress(p) ==
  LET mine == Documents(p)
  IN IF mine \intersect supported # {} THEN mine \intersect supported ELSE mine

\* _queryGetPlugin: the setups of a plugin whose preparation and application
\* are stored, as the document's id: the transaction is that of the second.
\* The code takes the first, and the groups have no order.
Pairs(p, prepared, applied) ==
  {<<p, history[a].tx>> : a \in {x \in logs :
     /\ history[x].kind = applied /\ history[x].plugin = p
     /\ \E b \in logs : /\ history[b].kind = prepared /\ history[b].plugin = p
                        /\ history[b].setup = history[x].setup}}

\* The transaction of event n has an event of one of these kinds.
InTransaction(n, kinds) ==
  \E i \in DOMAIN history : history[i].tx = history[n].tx /\ history[i].kind \in kinds

\* installPluginOnPermissionGranted: if the transaction installed something, a
\* permission must have changed after that.
GrantCounts(n) ==
  LET applied == {i \in DOMAIN history :
        history[i].tx = history[n].tx /\ history[i].kind = "InstallationApplied"}
  IN applied # {} =>
       \E i \in DOMAIN history : /\ history[i].tx = history[n].tx
                                 /\ history[i].kind \in Permissions
                                 /\ \A a \in applied : a < i

-----------------------------------------------------------------------------
(* The handler at work for a crawler *)

Goto(c, place) == pc' = [pc EXCEPT ![c] = place] /\ UNCHANGED <<pos, ran>>

Done(c) ==
  /\ pc' = [pc EXCEPT ![c] = "idle"]
  /\ pos' = [pos EXCEPT ![c] = @ + 1]
  /\ ran' = ran \union {pos[c]}

Busy(p) == {c \in Crawlers : pc[c] # "idle" /\ Event(c).plugin = p}

\* Mutant: a preparation whose log is stored is taken for done, as the others are.
RecognisedAll(n) == n \in logs

\* findExistingLog; installationPrepared does not ask.
Recognised(n) == n \in logs /\ history[n].kind # "InstallationPrepared"

\* The handler is called, and asks whether the event's log is stored.
Receive(c) ==
  /\ pc[c] = "idle" /\ pos[c] <= Len(history)
  /\ IF Recognised(pos[c])
     THEN /\ pos' = [pos EXCEPT ![c] = @ + 1]
          /\ UNCHANGED <<pc, ran, spoiled>>
     ELSE /\ Goto(c, IF Event(c).kind \in Permissions THEN "find" ELSE "log")
          /\ spoiled' = IF Busy(Event(c).plugin) # {}
                        THEN spoiled \union {Event(c).plugin} ELSE spoiled
  /\ UNCHANGED <<history, database, made, held, failed, faults, suffix>>

\* The log of a setup event. Its id is unique: where a transaction meets a
\* duplicate it goes on with the stored log, but uninstallationApplied throws.
StoreLog(c) ==
  LET k == Event(c).kind IN
  /\ pc[c] = "log"
  /\ logs' = logs \union {pos[c]}
  /\ \/ k = "InstallationPrepared" /\ Goto(c, "create")
     \/ k = "InstallationApplied" /\ Goto(c, "install")
     \/ k = "UpdateApplied" /\ Goto(c, "query")
     \/ k = "UninstallationApplied" /\ pos[c] \notin logs /\ Goto(c, "find")
     \/ k = "UninstallationApplied" /\ pos[c] \in logs /\ Goto(c, "idle")
     \/ k \in {"UpdatePrepared", "UninstallationPrepared"} /\ Done(c)
  /\ UNCHANGED <<history, docs, supported, slugs, asked, made, held, failed, spoiled, faults, suffix>>

\* updatePlugin: the setup's events, and whether the document exists.
QueryUpdate(c) ==
  LET pairs == Pairs(Event(c).plugin, "UpdatePrepared", "UpdateApplied") IN
  /\ pc[c] = "query"
  /\ \/ \E d \in pairs : /\ docs[d] = "none"
                         /\ made' = [made EXCEPT ![c] = {d}]
                         /\ Goto(c, "create")
     \/ /\ pairs = {} \/ \E d \in pairs : docs[d] # "none"
        /\ Done(c) /\ UNCHANGED made
  /\ UNCHANGED <<history, database, held, failed, spoiled, faults, suffix>>

\* preInstallPlugin, _createPlugin; a document that is there is kept.
CreatePlugin(c) ==
  LET d == <<Event(c).plugin, Event(c).tx>> IN
  /\ pc[c] = "create"
  /\ \/ /\ Event(c).kind = "InstallationPrepared"
        /\ docs' = [docs EXCEPT ![d] = IF @ = "none" THEN "preInstall" ELSE @]
        /\ Goto(c, "settings")
     \/ /\ Event(c).kind = "UpdateApplied"
        /\ docs' = [x \in Ids |-> IF x \in made[c] /\ docs[x] = "none" THEN "installed"
                                  ELSE docs[x]]
        /\ Goto(c, "find")
  /\ UNCHANGED <<history, logs, supported, slugs, asked, made, held, failed, spoiled, faults, suffix>>

\* installPlugin: any document of the address, and only if it awaits this.
InstallPlugin(c) ==
  LET mine == Documents(Event(c).plugin) IN
  /\ pc[c] = "install"
  /\ \/ \E d \in mine : /\ docs[d] = "preInstall"
                        /\ docs' = [docs EXCEPT ![d] = "installed"]
                        /\ Goto(c, "slug")
     \/ /\ mine = {} \/ \E d \in mine : docs[d] # "preInstall"
        /\ Goto(c, "settings") /\ UNCHANGED docs
  /\ UNCHANGED <<history, logs, supported, slugs, asked, made, held, failed, spoiled, faults, suffix>>

\* The document the event changes, if there is one.
Target(c) ==
  LET e == Event(c) IN
  CASE e.kind = "UpdateApplied" ->
         {d \in Documents(e.plugin) :
            docs[d] = "installed" /\ \A new \in made[c] : d[2] < new[2]}
    [] e.kind = "UninstallationApplied" ->
         {d \in Documents(e.plugin) :
            /\ docs[d] = "installed"
            /\ Pairs(e.plugin, "UninstallationPrepared", "UninstallationApplied") # {}}
    [] e.kind = "Revoked" ->
         IF InTransaction(pos[c], {"UninstallationApplied", "InstallationPrepared"})
         THEN {} ELSE Documents(e.plugin)
    [] e.kind = "Granted" ->
         IF GrantCounts(pos[c]) THEN ByAddress(e.plugin) ELSE {}

\* A revocation leaves alone what is uninstalled; a grant, what is not.
Changes(c, d) ==
  /\ Event(c).kind = "Revoked" => docs[d] # "uninstalled"
  /\ Event(c).kind = "Granted" => docs[d] = "uninstalled"

FindPlugin(c) ==
  /\ pc[c] = "find"
  /\ \/ \E d \in Target(c) : /\ Changes(c, d)
                             /\ held' = [held EXCEPT ![c] = {d}]
                             /\ Goto(c, "write")
     \/ /\ Target(c) = {} \/ \E d \in Target(c) : ~Changes(c, d)
        /\ IF Event(c).kind \in Permissions THEN Goto(c, "permission") ELSE Done(c)
        /\ UNCHANGED held
  /\ UNCHANGED <<history, database, made, failed, spoiled, faults, suffix>>

\* Mutant: the previous version stays as it is.
StatusAfterKept(k) == IF k \in {"UpdateApplied", "Granted"} THEN "installed" ELSE "uninstalled"

StatusAfter(k) ==
  CASE k = "UpdateApplied" -> "deprecated"
    [] k = "Granted" -> "installed"
    [] k \in {"Revoked", "UninstallationApplied"} -> "uninstalled"

\* The document read before is changed, whatever it has become. A version that
\* is replaced hands its support on.
WritePlugin(c) ==
  LET k == Event(c).kind IN
  /\ pc[c] = "write"
  /\ docs' = [d \in Ids |-> IF d \in held[c] THEN StatusAfter(k) ELSE docs[d]]
  /\ IF k = "UpdateApplied"
     THEN /\ supported' = IF held[c] \subseteq supported
                          THEN (supported \ held[c]) \union made[c] ELSE supported \ made[c]
          /\ Done(c)
     ELSE Goto(c, "slug") /\ UNCHANGED supported
  /\ UNCHANGED <<history, logs, slugs, asked, made, held, failed, spoiled, faults, suffix>>

\* generateSlug, deleteSlug: what comes behind them.
AfterSlug(c) ==
  LET k == Event(c).kind IN
  /\ suffix' = [suffix EXCEPT ![c] = 0]
  /\ \/ k = "InstallationApplied" /\ Goto(c, "settings")
     \/ k \in Permissions /\ Goto(c, "permission")
     \/ k = "UninstallationApplied" /\ Done(c)

HasSlug(p) == \E s \in slugs : s[1] = p

\* A plugin that is installed keeps the slug it has, or is to get one; one that
\* is not loses it.
KeepSlug(c) ==
  LET e == Event(c)
      install == e.kind \in {"InstallationApplied", "Granted"}
  IN
  /\ pc[c] = "slug"
  /\ \/ /\ install /\ ~HasSlug(e.plugin)
        /\ Goto(c, "reserve") /\ UNCHANGED <<slugs, suffix>>
     \/ /\ install /\ HasSlug(e.plugin)
        /\ AfterSlug(c) /\ UNCHANGED slugs
     \/ /\ ~install
        /\ slugs' = {s \in slugs : s[1] # e.plugin} /\ AfterSlug(c)
  /\ UNCHANGED <<history, logs, docs, supported, asked, made, held, failed, spoiled, faults>>

Taken(s) == \E p \in Plugins : <<p, s>> \in slugs

\* Mutant: no other suffix is tried.
ReserveSlugOnce(c) ==
  /\ pc[c] = "reserve"
  /\ slugs' = IF Taken(suffix[c]) THEN slugs ELSE slugs \union {<<Event(c).plugin, suffix[c]>>}
  /\ AfterSlug(c)
  /\ UNCHANGED <<history, logs, docs, supported, asked, made, held, failed, spoiled, faults>>

\* _createSlugWithRetries: a transaction that has found no slug of the plugin
\* inserts one. No two slugs of a DAO may be the same: the next suffix is tried.
ReserveSlug(c) ==
  /\ pc[c] = "reserve"
  /\ \/ /\ ~Taken(suffix[c])
        /\ slugs' = slugs \union {<<Event(c).plugin, suffix[c]>>}
        /\ AfterSlug(c) /\ UNCHANGED spoiled
     \/ /\ Taken(suffix[c]) /\ suffix[c] < MaxSuffix
        /\ suffix' = [suffix EXCEPT ![c] = @ + 1]
        /\ Goto(c, "slug") /\ UNCHANGED <<slugs, spoiled>>
     \/ /\ Taken(suffix[c]) /\ suffix[c] = MaxSuffix
        /\ spoiled' = spoiled \union {Event(c).plugin}
        /\ AfterSlug(c) /\ UNCHANGED slugs
  /\ UNCHANGED <<history, logs, docs, supported, asked, made, held, failed, faults>>

\* The settings make the plugin supported; InstallationApplied then asks for
\* the synchronisation.
Settings(c) ==
  LET e == Event(c) IN
  /\ pc[c] = "settings"
  /\ \/ \E d \in ByAddress(e.plugin) : supported' = supported \union {d}
     \/ ByAddress(e.plugin) = {} /\ UNCHANGED supported
  /\ asked' = IF e.kind = "InstallationApplied" /\ ByAddress(e.plugin) # {}
              THEN asked \union {e.plugin} ELSE asked
  /\ Done(c)
  /\ UNCHANGED <<history, logs, docs, slugs, made, held, failed, spoiled, faults, suffix>>

\* handleGrantOnDao, handleRevokeOnDao: the log comes last.
LogPermission(c) ==
  /\ pc[c] = "permission"
  /\ logs' = logs \union {pos[c]}
  /\ Done(c)
  /\ UNCHANGED <<history, docs, supported, slugs, asked, made, held, failed, spoiled, faults, suffix>>

-----------------------------------------------------------------------------
(* Faults *)

\* Where the handler throws: outside of every catch.
Throws(c) ==
  /\ pc[c] \in {"log", "query", "install", "settings"}
  /\ Event(c).kind \notin Permissions \union {"InstallationPrepared"}

\* The process dies, or the handler throws: the crawler comes back to the event.
Crash(c) ==
  /\ pc[c] # "idle"
  /\ \/ Fault("crash")
     \/ Throws(c) /\ Fault("fail")
  /\ spoiled' = spoiled \union {Event(c).plugin}
  /\ suffix' = [suffix EXCEPT ![c] = 0]
  /\ Goto(c, "idle")
  /\ UNCHANGED <<history, database, made, held, failed>>

\* The place behind the plugin's part, whose errors are caught there.
Caught(c) ==
  LET k == Event(c).kind IN
  CASE k = "InstallationPrepared" /\ pc[c] = "create" -> {"settings"}
    [] k = "InstallationApplied" /\ pc[c] \in {"install", "slug", "reserve"} -> {"settings"}
    [] k \in Permissions /\ pc[c] # "permission" -> {"permission"}
    [] OTHER -> {}

\* An error is caught: in the plugin's part, and the handler goes on behind it,
\* or in the handler, and the event passes for handled.
HandlerFails(c) ==
  LET k == Event(c).kind IN
  /\ pc[c] # "idle" /\ Fault("fail")
  /\ spoiled' = spoiled \union {Event(c).plugin}
  /\ failed' = failed \union {pos[c]}
  /\ suffix' = [suffix EXCEPT ![c] = 0]
  /\ \/ \E place \in Caught(c) : Goto(c, place)
     \/ /\ Caught(c) = {}
        /\ \/ k \in Permissions \union {"InstallationPrepared"}
           \/ k \in {"UpdateApplied", "UninstallationApplied"} /\ pc[c] # "log"
        /\ pc' = [pc EXCEPT ![c] = "idle"]
        /\ pos' = [pos EXCEPT ![c] = @ + 1]
        /\ UNCHANGED ran
  /\ UNCHANGED <<history, database, made, held>>

\* A crawl starts at an earlier event.
Redeliver(c) ==
  /\ pc[c] = "idle" /\ Fault("redeliver")
  /\ \E n \in 1 .. (pos[c] - 1) : pos' = [pos EXCEPT ![c] = n]
  /\ UNCHANGED <<history, database, pc, made, held, ran, failed, spoiled, suffix>>

-----------------------------------------------------------------------------

Step(c) ==
  \/ Receive(c) \/ StoreLog(c) \/ QueryUpdate(c) \/ CreatePlugin(c) \/ InstallPlugin(c)
  \/ FindPlugin(c) \/ WritePlugin(c) \/ KeepSlug(c) \/ ReserveSlug(c)
  \/ Settings(c) \/ LogPermission(c)

Next == \E c \in Crawlers : Step(c) \/ Crash(c) \/ HandlerFails(c) \/ Redeliver(c)

Spec == Init /\ [][Next]_vars

-----------------------------------------------------------------------------
(* Properties *)

TypeOK ==
  /\ history \in Seq(Events)
  /\ logs \subseteq DOMAIN history
  /\ docs \in [Ids -> Statuses] /\ supported \subseteq Ids
  /\ slugs \subseteq Plugins \X (0 .. MaxSuffix)
  /\ asked \subseteq Plugins
  /\ pos \in [Crawlers -> 1 .. (Len(history) + 1)]
  /\ pc \in [Crawlers -> Places]
  /\ \A c \in Crawlers : pc[c] # "idle" => pos[c] \in DOMAIN history
  /\ suffix \in [Crawlers -> 0 .. MaxSuffix]
  /\ made \in [Crawlers -> SUBSET Ids] /\ held \in [Crawlers -> SUBSET Ids]
  /\ ran \subseteq DOMAIN history /\ failed \subseteq DOMAIN history
  /\ spoiled \subseteq Plugins
  /\ faults \in Nat

\* A plugin is installed on the chain after the first n events.
Installed(p, n) == Happened(history, "InstallationApplied", p, n) /\ HasPermission(history, p, n)

\* The plugin's own uninstallation is applied later in the transaction of event x.
Uninstalls(h, p, x) ==
  \E u \in DOMAIN h : /\ u > x /\ h[u].tx = h[x].tx
                     /\ h[u].kind = "UninstallationApplied" /\ h[u].plugin = p

\* The histories it is promised for. Of two updates one may be lost
\* (_queryGetPlugin); a revocation after an update may meet the version that was
\* replaced, and one before the installation makes the next grant install; an
\* update installs also what has no permission. A revocation is passed over in
\* the transaction of any preparation or uninstallation, a grant in that of an
\* installation applied behind it, be they of another plugin.
Plain(p) ==
  \A x \in DOMAIN history : history[x].plugin = p =>
    /\ history[x].kind = "UpdateApplied" =>
         HasPermission(history, p, x) /\ ~Happened(history, "UpdateApplied", p, x - 1)
    /\ history[x].kind = "Revoked" =>
         \/ Uninstalls(history, p, x)
         \/ /\ Happened(history, "InstallationApplied", p, x)
            /\ ~Happened(history, "UpdateApplied", p, x)
            /\ ~InTransaction(x, {"UninstallationApplied", "InstallationPrepared"})
    /\ history[x].kind = "Granted" /\ Happened(history, "InstallationApplied", p, x) =>
         GrantCounts(x)

\* The last event whose handler ran.
Progress == CHOOSE n \in ran \union {0} : \A m \in ran : m <= n

\* Nobody is at work on the plugin, nobody was cut short or disturbed at it, and
\* the events of a transaction have all been handled.
AtRest(p) ==
  /\ p \notin spoiled /\ Busy(p) = {}
  /\ \A n \in DOMAIN history : n > Progress /\ Progress > 0 => history[n].tx # history[Progress].tx

\* A plugin has one installed document, the latest, while it is installed on
\* the chain, and its synchronisation was asked for; otherwise none: whatever
\* was delivered again, by whichever crawler, as long as no two handlers of the
\* plugin met and none was cut short.
StatusFollows ==
  \A p \in Plugins : AtRest(p) /\ Plain(p) =>
    LET current == {d \in Documents(p) : docs[d] = "installed"}
    IN IF Installed(p, Progress)
       THEN /\ \E d \in current : current = {d} /\ \A x \in Documents(p) : x[2] <= d[2]
            /\ p \in asked
       ELSE current = {}

\* Under the same condition a plugin has exactly one slug while it is installed,
\* which no other plugin of the DAO has, and none otherwise. Two handlers that
\* meet may leave it two: their transactions insert different slugs.
SlugFollows ==
  \A p \in Plugins : AtRest(p) /\ Plain(p) =>
    LET mine == {s \in slugs : s[1] = p}
    IN IF Installed(p, Progress)
       THEN \E s \in mine : mine = {s} /\ \A t \in slugs : t[2] = s[2] => t = s
       ELSE mine = {}

\* A preparation that a crawler has left behind without an error has left the
\* plugin's document, also when an earlier attempt died after the log was stored.
PreparedHasPlugin ==
  \A c \in Crawlers : \A n \in 1 .. (pos[c] - 1) :
    history[n].kind = "InstallationPrepared" /\ n \notin failed =>
      docs[<<history[n].plugin, history[n].tx>>] # "none"
=============================================================================
