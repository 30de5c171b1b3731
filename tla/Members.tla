-------------------------------- MODULE Members --------------------------------
(***************************************************************************)
(* What the handlers of the governance events keep of the members of one    *)
(* plugin: voting power (TokenMember of an ERC20 token, LockToVoteMember of *)
(* a lock manager), the locks of a voting escrow (Lock), and the members of *)
(* a multisig (PluginMember).                                               *)
(*                                                                          *)
(* The poller and the synchronisation of the plugin, a job, handle the same *)
(* events, each in the order of the chain and each again from an earlier    *)
(* one on. The job takes the DelegateVotesChanged of a range at once. A     *)
(* transaction is one step. An event of several members stands for as many  *)
(* events of one. The plugin, its token and its base members are there.     *)
(***************************************************************************)
EXTENDS Integers, Sequences

CONSTANTS
  Accounts, Tokens, Nobody,
  Histories,    \* the events the chain may come to hold: sequences
  Crawlers, Jobs,
  FaultKinds,   \* of "crash", "fail" (a call in a handler), "redeliver"
  MaxFaults     \* bound: how many faults

PowerKinds == {"VotesChanged", "Locked", "Unlocked"}
LockKinds == {"Deposit", "Delegated", "Undelegated", "ExitQueued", "Withdraw"}
ListKinds == {"Added", "Removed"}
Subjects == Accounts \union Tokens

\* who: the account or the escrow's token id; to: who a token is delegated to;
\* amount: what is locked or unlocked; total: the power or balance after it.
Events == [kind : PowerKinds \union LockKinds \union ListKinds, who : Subjects,
           to : Accounts \union {Nobody}, amount : Nat, total : Nat, block : Nat \ {0}]

\* The events that make up one history: those of a token, of a lock manager,
\* of an escrow's locks, or of a multisig.
Families == {{"VotesChanged"}, {"Locked", "Unlocked"}, LockKinds, ListKinds}

\* What the contracts emit: in blocks, about accounts or tokens, and about an
\* escrow's token nothing before its deposit.
Legal(h) ==
  /\ \A i, j \in DOMAIN h : i < j => h[i].block <= h[j].block
  /\ \A i \in DOMAIN h : IF h[i].kind \in LockKinds THEN h[i].who \in Tokens ELSE h[i].who \in Accounts
  /\ \E F \in Families : \A i \in DOMAIN h : h[i].kind \in F
  /\ \A i \in DOMAIN h : h[i].kind \in LockKinds =>
       \E j \in 1 .. i : h[j].kind = "Deposit" /\ h[j].who = h[i].who

ASSUME MembersConstants ==
  /\ Accounts \intersect Tokens = {} /\ Nobody \notin Accounts
  /\ Histories \subseteq Seq(Events)
  /\ \A h \in Histories : Legal(h)
  /\ Jobs \subseteq Crawlers
  /\ FaultKinds \subseteq {"crash", "fail", "redeliver"} /\ MaxFaults \in Nat

VARIABLES
  history,   \* the events the chain comes to hold
  head,      \* how many of them it holds
  power,     \* TokenMember or LockToVoteMember of each account, or NoPower
  locks,     \* Lock of each token, or NoLock
  list,      \* accounts with a PluginMember
  dirty,     \* members have changed since the DAO's metrics were asked for
  pos,       \* the event each crawler gives to its handler next
  upto,      \* the last event the handler at work was given
  pc,        \* where it is
  value,     \* the power it has read or computed
  batch,     \* the events of a batch it has still to write
  reached,   \* the furthest event any handler was given
  begun,     \* crawlers that have given an event to a handler
  failed,    \* accounts and tokens a write of which failed
  guessed,   \* accounts whose balance could not be read once
  silent,    \* a handler ended without its message
  faults

records == <<power, locks, list>>
ghosts == <<failed, guessed, silent>>
vars == <<history, head, records, dirty, pos, upto, pc, value, batch, reached, begun, ghosts, faults>>

NoPower == [vp |-> 0, block |-> -1]
NoLock == [here |-> FALSE, exit |-> FALSE, out |-> FALSE, to |-> Nobody]
Places == {"idle", "read", "guess", "member", "find", "update", "write",
           "bulk", "metrics", "fallback", "message"}

Fault(k) == k \in FaultKinds /\ faults < MaxFaults /\ faults' = faults + 1

Init ==
  /\ history \in Histories /\ head = 0
  /\ power = [a \in Accounts |-> NoPower]
  /\ locks = [t \in Tokens |-> NoLock]
  /\ list = {} /\ dirty = FALSE
  /\ pos = [c \in Crawlers |-> 1] /\ upto = [c \in Crawlers |-> 0]
  /\ pc = [c \in Crawlers |-> "idle"]
  /\ value = [c \in Crawlers |-> 0] /\ batch = [c \in Crawlers |-> {}]
  /\ reached = 0 /\ begun = {}
  /\ failed = {} /\ guessed = {} /\ silent = FALSE /\ faults = 0

-----------------------------------------------------------------------------

Event(c) == history[pos[c]]

\* The event is the last of its block, as far as the chain goes.
ClosesBlock(n) == n < Len(history) => history[n + 1].block > history[n].block

\* The chain gets its next block.
Emit ==
  /\ \E n \in (head + 1) .. Len(history) :
       /\ ClosesBlock(n) /\ history[n].block = history[head + 1].block
       /\ head' = n
  /\ UNCHANGED <<history, records, dirty, pos, upto, pc, value, batch, reached, begun, ghosts, faults>>

\* The last of the first n events that is about x, or 0.
LastOf(x, n) ==
  LET about == {i \in 1 .. n : history[i].who = x}
  IN IF about = {} THEN 0 ELSE CHOOSE i \in about : \A j \in about : j <= i

\* getLockedBalance, as of the first n events.
Balance(a, n) == IF LastOf(a, n) = 0 THEN 0 ELSE history[LastOf(a, n)].total

Goto(c, place) == pc' = [pc EXCEPT ![c] = place] /\ UNCHANGED <<pos, upto>>

Done(c) ==
  /\ pc' = [pc EXCEPT ![c] = "idle"]
  /\ pos' = [pos EXCEPT ![c] = upto[c] + 1]
  /\ UNCHANGED upto

Begin(c, last, place) ==
  /\ pc[c] = "idle"
  /\ pc' = [pc EXCEPT ![c] = place] /\ upto' = [upto EXCEPT ![c] = last]
  /\ reached' = IF last > reached THEN last ELSE reached
  /\ begun' = begun \union {c}
  /\ UNCHANGED <<history, head, records, dirty, pos, value, ghosts, faults>>

Batched(c) == c \in Jobs /\ Event(c).kind = "VotesChanged"

\* The handler of one event is called.
Receive(c) ==
  /\ pos[c] <= head /\ ~Batched(c)
  /\ LET k == Event(c).kind
     IN Begin(c, pos[c], CASE k \in {"Locked", "Unlocked"} -> "read"
                           [] k \in {"ExitQueued", "Withdraw", "Added"} -> "find"
                           [] OTHER -> "update")
  /\ UNCHANGED batch

\* Mutant: the logs are sorted the other way round.
LatestReversed(from, to) ==
  {n \in from .. to : \A m \in from .. to : history[m].who = history[n].who =>
     history[m].block > history[n].block \/ (history[m].block = history[n].block /\ m >= n)}

\* filterLogs: of a member's events in a range, the first of the last block.
Latest(from, to) ==
  {n \in from .. to : \A m \in from .. to : history[m].who = history[n].who =>
     history[m].block < history[n].block \/ (history[m].block = history[n].block /\ m >= n)}

\* The handler of a range of events is called; a range is of whole blocks.
ReceiveRange(c) ==
  /\ pos[c] <= head /\ Batched(c)
  /\ \E to \in pos[c] .. head :
       /\ ClosesBlock(to) /\ Begin(c, to, "bulk")
       /\ batch' = [batch EXCEPT ![c] = Latest(pos[c], to)]

-----------------------------------------------------------------------------
(* Voting power *)

\* Mutant: the block of the record is not compared.
StampedAlways(old, v, b) == [vp |-> v, block |-> b]

\* update: a record of the block, or of a later one, is left as it is.
Stamped(old, v, b) == IF old.block >= b THEN old ELSE [vp |-> v, block |-> b]

\* The balance is asked of the chain, as it is by then.
ReadBalance(c) ==
  LET a == Event(c).who IN
  /\ pc[c] = "read"
  /\ \/ /\ value' = [value EXCEPT ![c] = Balance(a, head)]
        /\ Goto(c, "member") /\ UNCHANGED <<guessed, faults>>
     \/ /\ Fault("fail")
        /\ guessed' = guessed \union {a}
        /\ Goto(c, "guess") /\ UNCHANGED value
  /\ UNCHANGED <<history, head, records, dirty, batch, reached, begun, failed, silent>>

Known(a) == IF power[a] = NoPower THEN [vp |-> 0, block |-> 0] ELSE power[a]

\* The chain does not answer: the record's power, and the amount of the event.
GuessBalance(c) ==
  LET e == Event(c) IN
  /\ pc[c] = "guess"
  /\ \/ /\ e.kind = "Locked"
        /\ power' = [power EXCEPT ![e.who] = Known(e.who)]
        /\ value' = [value EXCEPT ![c] = Known(e.who).vp + e.amount]
        /\ Goto(c, "update")
     \/ /\ e.kind = "Unlocked" /\ power[e.who] # NoPower
        /\ value' = [value EXCEPT ![c] =
             IF power[e.who].vp > e.amount THEN power[e.who].vp - e.amount ELSE 0]
        /\ Goto(c, "member") /\ UNCHANGED power
     \/ /\ e.kind = "Unlocked" /\ power[e.who] = NoPower
        /\ Done(c) /\ UNCHANGED <<power, value>>
  /\ UNCHANGED <<history, head, locks, list, dirty, batch, reached, begun, ghosts, faults>>

\* getOrCreate, before the power is written.
CreateMember(c) ==
  /\ pc[c] = "member"
  /\ power' = [power EXCEPT ![Event(c).who] = Known(Event(c).who)]
  /\ Goto(c, "update")
  /\ UNCHANGED <<history, head, locks, list, dirty, value, batch, reached, begun, ghosts, faults>>

\* Mutant: a record that is not older ends the handler.
UpdatePowerQuietly(c) ==
  LET e == Event(c) IN
  /\ pc[c] = "update" /\ e.kind \in PowerKinds
  /\ power' = [power EXCEPT ![e.who] =
       Stamped(@, IF e.kind = "VotesChanged" THEN e.total ELSE value[c], e.block)]
  /\ dirty' = (dirty \/ power' # power)
  /\ IF power' # power THEN Goto(c, "message") ELSE Done(c)
  /\ UNCHANGED <<history, head, locks, list, value, batch, reached, begun, ghosts, faults>>

UpdatePower(c) ==
  LET e == Event(c) IN
  /\ pc[c] = "update" /\ e.kind \in PowerKinds
  /\ power' = [power EXCEPT ![e.who] =
       Stamped(@, IF e.kind = "VotesChanged" THEN e.total ELSE value[c], e.block)]
  /\ dirty' = (dirty \/ power' # power)
  /\ Goto(c, "message")
  /\ UNCHANGED <<history, head, locks, list, value, batch, reached, begun, ghosts, faults>>

\* updateTokenMemberVPBatchNoTx: whatever the records hold. An error after some
\* of them is swallowed.
BulkWrite(c) ==
  /\ pc[c] = "bulk"
  /\ \E written \in SUBSET batch[c] :
       /\ \/ written = batch[c] /\ UNCHANGED <<failed, faults>>
          \/ /\ written # batch[c] /\ Fault("fail")
             /\ failed' = failed \union {history[n].who : n \in batch[c] \ written}
       /\ power' = [a \in Accounts |->
            IF \E n \in written : history[n].who = a
            THEN LET n == CHOOSE n \in written : history[n].who = a
                 IN [vp |-> history[n].total, block |-> history[n].block]
            ELSE power[a]]
  /\ dirty' = (dirty \/ power' # power)
  /\ Goto(c, "metrics")
  /\ UNCHANGED <<history, head, locks, list, value, batch, reached, begun, guessed, silent>>

\* updatePluginMetricsBatchNoTx, and where its error leads to.
BulkMetrics(c) ==
  /\ pc[c] = "metrics"
  /\ \/ Goto(c, "message") /\ UNCHANGED faults
     \/ Fault("fail") /\ Goto(c, "fallback")
  /\ batch' = IF pc'[c] = "fallback" THEN batch ELSE [batch EXCEPT ![c] = {}]
  /\ UNCHANGED <<history, head, records, dirty, value, reached, begun, ghosts>>

\* The members of the batch one by one; no message at the end.
Fallback(c) ==
  /\ pc[c] = "fallback"
  /\ \/ \E n \in batch[c] :
          /\ power' = [power EXCEPT ![history[n].who] = Stamped(@, history[n].total, history[n].block)]
          /\ batch' = [batch EXCEPT ![c] = @ \ {n}]
          /\ dirty' = (dirty \/ power' # power)
          /\ Goto(c, "fallback") /\ UNCHANGED silent
     \/ /\ batch[c] = {} /\ silent' = TRUE
        /\ Done(c) /\ UNCHANGED <<power, batch, dirty>>
  /\ UNCHANGED <<history, head, locks, list, value, reached, begun, failed, guessed, faults>>

\* updateDaoMetrics: the last thing most handlers do.
AskMetrics(c) ==
  /\ pc[c] = "message" /\ dirty' = FALSE /\ Done(c)
  /\ UNCHANGED <<history, head, records, value, batch, reached, begun, ghosts, faults>>

-----------------------------------------------------------------------------
(* Locks of a voting escrow *)

\* deposit. No message.
CreateLock(c) ==
  LET t == Event(c).who IN
  /\ pc[c] = "update" /\ Event(c).kind = "Deposit"
  /\ locks' = [locks EXCEPT ![t] = IF @.here THEN @ ELSE [NoLock EXCEPT !.here = TRUE]]
  /\ Done(c)
  /\ UNCHANGED <<history, head, power, list, dirty, value, batch, reached, begun, ghosts, faults>>

\* delegateTokens, unDelegateTokens: the locks that are there.
DelegateLock(c) ==
  LET e == Event(c) IN
  /\ pc[c] = "update" /\ e.kind \in {"Delegated", "Undelegated"}
  /\ locks' = [locks EXCEPT ![e.who] = IF @.here THEN [@ EXCEPT !.to = e.to] ELSE @]
  /\ dirty' = (dirty \/ locks' # locks)
  /\ Goto(c, "message")
  /\ UNCHANGED <<history, head, power, list, value, batch, reached, begun, ghosts, faults>>

\* exitQueued, lockWithdrawn: a lock that is not marked yet.
FindLock(c) ==
  LET e == Event(c)
      l == locks[e.who]
  IN
  /\ pc[c] = "find" /\ e.kind \in {"ExitQueued", "Withdraw"}
  /\ IF l.here /\ ~(IF e.kind = "ExitQueued" THEN l.exit ELSE l.out)
     THEN Goto(c, "write") ELSE Done(c)
  /\ UNCHANGED <<history, head, records, dirty, value, batch, reached, begun, ghosts, faults>>

\* Mutant: the withdrawal replaces what the lock held.
MarkedAnew(l, k) ==
  IF k = "ExitQueued" THEN [l EXCEPT !.exit = TRUE] ELSE [NoLock EXCEPT !.here = TRUE, !.out = TRUE]

\* A withdrawn lock is delegated to nobody.
Marked(l, k) ==
  IF k = "ExitQueued" THEN [l EXCEPT !.exit = TRUE] ELSE [l EXCEPT !.out = TRUE, !.to = Nobody]

WriteLock(c) ==
  LET e == Event(c) IN
  /\ pc[c] = "write" /\ e.kind \in {"ExitQueued", "Withdraw"}
  /\ locks' = [locks EXCEPT ![e.who] = Marked(@, e.kind)]
  /\ Done(c)
  /\ UNCHANGED <<history, head, power, list, dirty, value, batch, reached, begun, ghosts, faults>>

-----------------------------------------------------------------------------
(* Members of a multisig *)

FindMember(c) ==
  /\ pc[c] = "find" /\ Event(c).kind = "Added"
  /\ Goto(c, IF Event(c).who \in list THEN "message" ELSE "write")
  /\ UNCHANGED <<history, head, records, dirty, value, batch, reached, begun, ghosts, faults>>

AddMember(c) ==
  /\ pc[c] = "write" /\ Event(c).kind = "Added"
  /\ list' = list \union {Event(c).who}
  /\ dirty' = (dirty \/ list' # list)
  /\ Goto(c, "message")
  /\ UNCHANGED <<history, head, power, locks, value, batch, reached, begun, ghosts, faults>>

\* Mutant: a member that is removed stays.
RemoveMemberNot(c) ==
  /\ pc[c] = "update" /\ Event(c).kind = "Removed"
  /\ Goto(c, "message")
  /\ UNCHANGED <<history, head, records, dirty, value, batch, reached, begun, ghosts, faults>>

RemoveMember(c) ==
  /\ pc[c] = "update" /\ Event(c).kind = "Removed"
  /\ list' = list \ {Event(c).who}
  /\ dirty' = (dirty \/ list' # list)
  /\ Goto(c, "message")
  /\ UNCHANGED <<history, head, power, locks, value, batch, reached, begun, ghosts, faults>>

-----------------------------------------------------------------------------
(* Faults *)

Cut(c) == batch' = [batch EXCEPT ![c] = {}]

\* The process dies, or the handler throws: the crawler comes back to the events.
Crash(c) ==
  /\ pc[c] # "idle" /\ Fault("crash")
  /\ Goto(c, "idle") /\ Cut(c)
  /\ UNCHANGED <<history, head, records, dirty, value, reached, begun, ghosts>>

\* Handlers that end with updateDaoMetrics.
Asks(k) == k \in PowerKinds \union ListKinds \union {"Delegated", "Undelegated"}

\* An error is caught where the record is written, and the handler goes on, or
\* around the handler, and the event passes for handled.
HandlerFails(c) ==
  LET k == Event(c).kind IN
  /\ pc[c] \in {"member", "guess", "find", "update", "write", "message"}
  /\ ~Batched(c) /\ Fault("fail")
  /\ failed' = failed \union {Event(c).who}
  /\ \/ /\ Asks(k) /\ pc[c] \in {"find", "update", "write"}
        /\ Goto(c, "message") /\ UNCHANGED silent
     \/ /\ k \notin ListKinds
        /\ Done(c) /\ silent' = TRUE
  /\ UNCHANGED <<history, head, records, dirty, value, batch, reached, begun, guessed>>

\* A crawl starts at an earlier event.
Redeliver(c) ==
  /\ pc[c] = "idle" /\ Fault("redeliver")
  /\ \E n \in 1 .. (pos[c] - 1) : pos' = [pos EXCEPT ![c] = n]
  /\ UNCHANGED <<history, head, records, dirty, upto, pc, value, batch, reached, begun, ghosts>>

-----------------------------------------------------------------------------

PowerStep(c) ==
  \/ ReadBalance(c) \/ GuessBalance(c) \/ CreateMember(c) \/ UpdatePower(c)
  \/ BulkWrite(c) \/ BulkMetrics(c) \/ Fallback(c)
LockStep(c) == CreateLock(c) \/ DelegateLock(c) \/ FindLock(c) \/ WriteLock(c)
ListStep(c) == FindMember(c) \/ AddMember(c) \/ RemoveMember(c)

Next ==
  \/ Emit
  \/ \E c \in Crawlers :
       \/ Receive(c) \/ ReceiveRange(c) \/ AskMetrics(c)
       \/ PowerStep(c) \/ LockStep(c) \/ ListStep(c)
       \/ Crash(c) \/ HandlerFails(c) \/ Redeliver(c)

Spec == Init /\ [][Next]_vars

-----------------------------------------------------------------------------
(* Properties *)

Records == [vp : Nat, block : Nat] \union {NoPower}

TypeOK ==
  /\ history \in Seq(Events) /\ head \in 0 .. Len(history)
  /\ power \in [Accounts -> Records]
  /\ locks \in [Tokens -> [here : BOOLEAN, exit : BOOLEAN, out : BOOLEAN, to : Accounts \union {Nobody}]]
  /\ list \subseteq Accounts /\ dirty \in BOOLEAN
  /\ pos \in [Crawlers -> 1 .. (head + 1)] /\ upto \in [Crawlers -> 0 .. head]
  /\ pc \in [Crawlers -> Places]
  /\ \A c \in Crawlers : pc[c] # "idle" => pos[c] <= upto[c]
  /\ value \in [Crawlers -> Nat] /\ batch \in [Crawlers -> SUBSET (1 .. head)]
  /\ reached \in 0 .. head /\ begun \subseteq Crawlers
  /\ failed \subseteq Subjects /\ guessed \subseteq Accounts /\ silent \in BOOLEAN
  /\ faults \in Nat

\* The crawler is through with every event that any handler was given.
Through(c) == pc[c] = "idle" /\ pos[c] > reached

AllThrough == reached > 0 /\ \A c \in begun : Through(c)

\* What the record of an account may hold: the power of an event of its last
\* block, or a balance the chain has had since.
Admitted(a) ==
  LET last == LastOf(a, reached)
      b == history[last].block
  IN IF last = 0 THEN {}
     ELSE IF history[last].kind = "VotesChanged"
     THEN {[vp |-> history[n].total, block |-> b] :
             n \in {i \in 1 .. head : history[i].who = a /\ history[i].block = b}}
     ELSE {[vp |-> Balance(a, n), block |-> b] :
             n \in {i \in last .. head : ClosesBlock(i)}}

\* Once one crawler is through, every account has the power of its last block,
\* however far back the others go over events again; only a job writes over
\* newer records, and must be through as well.
PowerFollows ==
  (\E c \in begun : Through(c)) /\ (\A c \in Jobs \intersect begun : Through(c)) =>
    \A a \in Accounts \ (failed \union guessed) :
      LastOf(a, reached) > 0 /\ history[LastOf(a, reached)].kind \in PowerKinds =>
        power[a] \in Admitted(a)

\* A record never goes back to an earlier block, whoever writes it, except where
\* a job writes a range.
NeverBack ==
  [][\A a \in Accounts :
       \/ power'[a].block >= power[a].block
       \/ \E c \in Jobs : pc[c] = "bulk" /\ pc'[c] = "metrics"]_vars

\* The last of the first n events of one of these kinds about x, or 0.
LastOfKind(x, kinds, n) ==
  LET about == {i \in 1 .. n : history[i].who = x /\ history[i].kind \in kinds}
  IN IF about = {} THEN 0 ELSE CHOOSE i \in about : \A j \in about : j <= i

\* Locks are marked as the chain has them, and no mark is lost by handlers that
\* meet; the receiver of a lock that is not withdrawn is the last one.
LocksFollow ==
  AllThrough => \A t \in Tokens \ failed :
    LET happened(k) == LastOfKind(t, {k}, reached) > 0
        delegation == LastOfKind(t, {"Delegated", "Undelegated"}, reached)
    IN /\ locks[t].here = happened("Deposit")
       /\ locks[t].exit = happened("ExitQueued")
       /\ locks[t].out = happened("Withdraw")
       /\ ~locks[t].out => locks[t].to = IF delegation = 0 THEN Nobody ELSE history[delegation].to

\* The members of a multisig are those the chain has.
MembershipFollows ==
  AllThrough => \A a \in Accounts \ failed :
    LET last == LastOfKind(a, ListKinds, reached)
    IN a \in list <=> last > 0 /\ history[last].kind = "Added"

\* A change of the members is followed by the message that makes the DAO's
\* metrics be computed anew, also where a crash came between the two.
MetricsAsked == AllThrough /\ ~silent => ~dirty
=============================================================================
