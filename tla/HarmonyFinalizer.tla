--------------------------- MODULE HarmonyFinalizer ---------------------------
(***************************************************************************)
(* HarmonyVotingFinalizer: the task that ends the proposals of a Harmony    *)
(* voting plugin on the chain. A run reads every proposal of the contract   *)
(* and, when its voting is over, sets the Merkle root of those who may      *)
(* vote, submits the power of those who did, and closes it. Runs repeat;    *)
(* one may die half-way with a transaction sent, and two may overlap when   *)
(* the lease of the task expires (TaskLock).                                *)
(*                                                                          *)
(* One target in validators mode: those who may vote are the operators in   *)
(* the opt-in registry at the snapshot, or, if nobody opted in, whoever is  *)
(* elected now. A Merkle root is the set of addresses it is computed from.  *)
(* The contract is external: it is modelled as far as the code relies on it.*)
(***************************************************************************)
EXTENDS Integers, Sequences

CONSTANTS
  Runners,      \* the runs that may be under way at a time
  Count,        \* the contract's proposalCount
  Voters,
  MaxBlock,     \* bound: length of the chain
  Timestamp,    \* of a block, [0 .. MaxBlock -> times]
  EndDate,      \* of a proposal
  Period,       \* FINALIZATION_PERIOD
  Snapshot,     \* snapshotBlock of a proposal
  Registries,   \* the registry's possible histories: sequences of opt-ins and outs
  Ballots,      \* in which block a voter votes, or 0: [1 .. Count -> [Voters -> blocks]]
  Others,       \* with each of the Ballots: who voted on another plugin's proposals
  Delays,       \* FINALIZE_BLOCKS_AFTER_ENDDATE
  FaultKinds,
  MaxFaults     \* bound: number of faults

Proposals == 1 .. Count
Blocks == 0 .. MaxBlock
OptEvents == [block : Blocks, voter : Voters, into : BOOLEAN]

ASSUME FinalizerConstants ==
  /\ Count \in Nat /\ MaxBlock \in Nat
  /\ Timestamp \in [Blocks -> Nat \ {0}]
  /\ \A a, b \in Blocks : a <= b => Timestamp[a] <= Timestamp[b]
  /\ EndDate \in [Proposals -> Nat] /\ Period \in Nat
  /\ Snapshot \in [Proposals -> Blocks]
  /\ Registries \subseteq Seq(OptEvents)
  /\ Ballots \subseteq [Proposals -> [Voters -> Blocks]]
  /\ \A votes \in Ballots : \A p \in Proposals : \A v \in Voters :
       votes[p][v] > 0 => Timestamp[votes[p][v]] < EndDate[p]
  /\ Others \in [Ballots -> SUBSET Voters]
  /\ Delays \subseteq Nat
  /\ FaultKinds \subseteq {"rpc", "transaction", "crash", "election"}
  /\ MaxFaults \in Nat

VARIABLES
  registry, votes,   \* the history
  delay, revalidate, \* the settings, REVALIDATE_BLOCKED the second
  head,       \* the chain's last block
  elected,    \* the validators elected at the moment
  root,       \* of a proposal on the contract: {}, or {S} with the set S
  submitted,  \* pairs of a proposal and a voter whose power is on the contract
  closed,     \* proposals closed on the contract
  early,      \* those closed by oracleCloseProposal
  sent,       \* the oracle's transactions on their way, in the order of their nonces
  pc,         \* where each run is
  latest,     \* its latestBlock
  now,        \* its nowTs
  next,       \* the proposal it is at
  known,      \* the merkleRoot it read
  entries,    \* the entries it computed
  todo,       \* voters whose power it has yet to submit
  blocked,    \* blockedByKey of its process
  refused,    \* pairs whose submitVotingPower failed: a warning
  faults

given == <<registry, votes, delay, revalidate>>
contract == <<root, submitted, closed, early>>
local == <<latest, now, next, known, entries, todo, blocked>>
vars == <<given, head, elected, contract, sent, pc, local, refused, faults>>

Fault(k) == k \in FaultKinds /\ faults < MaxFaults /\ faults' = faults + 1

Places == {"idle", "timestamp", "proposal", "entries", "voters", "power", "wait"}
Kinds == {"setMerkleRoot", "submitVotingPower", "closeProposal", "oracleCloseProposal"}

\* A transaction; the run that sent it waits for it, unless it died.
Transactions ==
  [kind : Kinds, proposal : Proposals, entries : SUBSET Voters,
   voter : SUBSET Voters, awaited : SUBSET Runners]

Init ==
  /\ registry \in Registries /\ votes \in Ballots
  /\ delay \in Delays /\ revalidate \in BOOLEAN
  /\ head = 0 /\ elected = Voters
  /\ root = [p \in Proposals |-> {}]
  /\ submitted = {} /\ closed = {} /\ early = {}
  /\ sent = <<>>
  /\ pc = [r \in Runners |-> "idle"]
  /\ latest = [r \in Runners |-> 0]
  /\ now = [r \in Runners |-> 0]
  /\ next = [r \in Runners |-> 1]
  /\ known = [r \in Runners |-> {}]
  /\ entries = [r \in Runners |-> {}]
  /\ todo = [r \in Runners |-> {}]
  /\ blocked = [r \in Runners |-> {}]
  /\ refused = {} /\ faults = 0

-----------------------------------------------------------------------------
(* The chain *)

MineBlock ==
  /\ head < MaxBlock
  /\ head' = head + 1
  /\ UNCHANGED <<given, elected, contract, sent, pc, local, refused, faults>>

Election ==
  /\ Fault("election")
  /\ elected' \in SUBSET Voters \ {elected}
  /\ UNCHANGED <<given, head, contract, sent, pc, local, refused>>

Voted(p, v) == votes[p][v] > 0 /\ votes[p][v] <= head

\* Whether the contract takes a transaction, in the state it is in.
Accepts(t) ==
  LET p == t.proposal IN
  /\ p \notin closed
  /\ Timestamp[head] >= EndDate[p]
  /\ t.kind = "setMerkleRoot" <=> root[p] = {}
  /\ t.kind = "submitVotingPower" =>
       \A v \in t.voter : /\ root[p] = {t.entries} /\ v \in t.entries
                          /\ Voted(p, v) /\ <<p, v>> \notin submitted
  /\ t.kind = "closeProposal" => Timestamp[head] >= EndDate[p] + Period

Apply(t) ==
  LET p == t.proposal IN
  /\ root' = IF t.kind = "setMerkleRoot" THEN [root EXCEPT ![p] = {t.entries}] ELSE root
  /\ submitted' = submitted \union {<<p, v>> : v \in t.voter}
  /\ closed' = IF t.kind \in {"closeProposal", "oracleCloseProposal"}
               THEN closed \union {p} ELSE closed
  /\ early' = IF t.kind = "oracleCloseProposal" THEN early \union {p} ELSE early

-----------------------------------------------------------------------------
(* What a run computes *)

Min2(a, b) == IF a <= b THEN a ELSE b

\* Mutant: off by one, the search ends at the block before.
SearchBefore(time) ==
  LET search[w \in Blocks \X Blocks] ==
        LET mid == (w[1] + w[2]) \div 2
        IN IF w[1] + 1 < w[2]
           THEN search[IF Timestamp[mid] >= time THEN <<w[1], mid>> ELSE <<mid, w[2]>>]
           ELSE w[1]
  IN search

\* The loop of findFirstBlockWithTimestampAtOrAfter, from a pair of its lo and hi.
Search(time) ==
  LET search[w \in Blocks \X Blocks] ==
        LET mid == (w[1] + w[2]) \div 2
        IN IF w[1] + 1 < w[2]
           THEN search[IF Timestamp[mid] >= time THEN <<w[1], mid>> ELSE <<mid, w[2]>>]
           ELSE w[2]
  IN search

\* findFirstBlockWithTimestampAtOrAfter; {} is undefined.
FirstBlock(lo, hi, time) ==
  IF Timestamp[hi] < time THEN {}
  ELSE IF Timestamp[lo] >= time THEN {lo} ELSE {Search(time)[<<lo, hi>>]}

\* The log is replayed up to a block: who opted in and not out again. Logs are
\* asked for by topic only, so these may be of any contract.
OptedIn(block) ==
  {v \in Voters : \E i \in DOMAIN registry :
     /\ registry[i].block <= block /\ registry[i].voter = v /\ registry[i].into
     /\ \A j \in DOMAIN registry :
          j > i /\ registry[j].block <= block /\ registry[j].voter = v => registry[j].into}

\* computeEligibleEntries; the head is read again.
EligibleEntries(p) ==
  LET optIn == OptedIn(Min2(Snapshot[p], head))
  IN IF optIn # {} THEN optIn ELSE elected

\* Mutant: the snapshot's block is not waited for.
ReadySoon(r, p) ==
  delay > 0 => \E end \in FirstBlock(Min2(Snapshot[p], latest[r]), latest[r], EndDate[p]) :
                 latest[r] >= end + delay

\* Inside the finalization window: the snapshot is reached, and so many blocks
\* have passed since the end date.
Ready(r, p) ==
  /\ Snapshot[p] <= latest[r]
  /\ delay > 0 => \E end \in FirstBlock(Snapshot[p], latest[r], EndDate[p]) :
                    latest[r] >= end + delay

\* Mutant: a blocked proposal is passed over in this case too.
OverUnlessBlocked(r, p) == now[r] >= EndDate[p] + Period /\ p \notin blocked[r]

\* Past the finalization window.
Over(r, p) == now[r] >= EndDate[p] + Period

-----------------------------------------------------------------------------
(* A run: start() *)

\* On to the next proposal, or the run is over.
NextProposal(r) ==
  /\ pc' = [pc EXCEPT ![r] = IF next[r] = Count THEN "idle" ELSE "proposal"]
  /\ next' = [next EXCEPT ![r] = IF @ = Count THEN 1 ELSE @ + 1]

\* What the run does when a transaction of its own went through, or did not.
Settled(r, t, ok) ==
  IF t.kind = "submitVotingPower"
  THEN /\ todo' = [todo EXCEPT ![r] = @ \ t.voter]
       /\ refused' = IF ok THEN refused
                     ELSE refused \union {<<t.proposal, v>> : v \in t.voter}
       /\ pc' = [pc EXCEPT ![r] = "power"] /\ UNCHANGED next
  ELSE /\ IF t.kind = "setMerkleRoot" /\ ok
          THEN pc' = [pc EXCEPT ![r] = "voters"] /\ UNCHANGED next
          ELSE NextProposal(r)
       /\ UNCHANGED <<todo, refused>>

\* The call estimates its gas first: a transaction the contract would not take
\* is not sent.
Send(r, kind, voter) ==
  LET t == [kind |-> kind, proposal |-> next[r], entries |-> entries'[r],
            voter |-> voter, awaited |-> {r}]
  IN \/ /\ Accepts(t)
        /\ sent' = Append(sent, t)
        /\ pc' = [pc EXCEPT ![r] = "wait"]
        /\ UNCHANGED <<next, todo, refused, faults>>
     \/ /\ \/ ~Accepts(t) /\ UNCHANGED faults
           \/ Fault("transaction")
        /\ Settled(r, t, FALSE)
        /\ UNCHANGED sent

\* getBlockNumber
Start(r) ==
  /\ pc[r] = "idle"
  /\ latest' = [latest EXCEPT ![r] = head]
  /\ pc' = [pc EXCEPT ![r] = "timestamp"]
  /\ UNCHANGED <<given, head, elected, contract, sent, now, next, known, entries, todo,
                 blocked, refused, faults>>

\* getLatestChainTimestamp: of the head, which may have moved on.
ReadTimestamp(r) ==
  /\ pc[r] = "timestamp"
  /\ now' = [now EXCEPT ![r] = Timestamp[head]]
  /\ next' = [next EXCEPT ![r] = 1]
  /\ pc' = [pc EXCEPT ![r] = IF Count = 0 THEN "idle" ELSE "proposal"]
  /\ UNCHANGED <<given, head, elected, contract, sent, latest, known, entries, todo,
                 blocked, refused, faults>>

\* getProposal, and what is decided from it.
Examine(r) ==
  LET p == next[r]
      over == Over(r, p)
  IN
  /\ pc[r] = "proposal"
  /\ entries' = [entries EXCEPT ![r] = {}]
  /\ known' = [known EXCEPT ![r] = root[p]]
  /\ \/ /\ \/ p \in closed \/ EndDate[p] = 0 \/ now[r] < EndDate[p]
           \/ over /\ root[p] = {}
           \/ ~over /\ ~Ready(r, p)
           \/ ~over /\ p \in blocked[r] /\ ~revalidate
        /\ NextProposal(r)
        /\ UNCHANGED <<sent, todo, refused, faults>>
     \/ /\ p \notin closed /\ EndDate[p] > 0 /\ over /\ root[p] # {}
        /\ Send(r, "closeProposal", {})
     \/ /\ p \notin closed /\ EndDate[p] > 0 /\ now[r] >= EndDate[p] /\ ~over
        /\ Ready(r, p) /\ (p \notin blocked[r] \/ revalidate)
        /\ pc' = [pc EXCEPT ![r] = "entries"]
        /\ UNCHANGED <<sent, next, todo, refused, faults>>
  /\ UNCHANGED <<given, head, elected, contract, latest, now, blocked>>

\* The root is computed, and compared with the one the contract has.
ComputeEntries(r) ==
  LET p == next[r]
      computed == EligibleEntries(p)
  IN
  /\ pc[r] = "entries"
  /\ entries' = [entries EXCEPT ![r] = computed]
  /\ \/ /\ known[r] = {}
        /\ Send(r, "setMerkleRoot", {})
        /\ UNCHANGED blocked
     \/ /\ known[r] = {computed}
        /\ blocked' = [blocked EXCEPT ![r] = @ \ {p}]
        /\ pc' = [pc EXCEPT ![r] = "voters"]
        /\ UNCHANGED <<sent, next, todo, refused, faults>>
     \/ /\ known[r] # {} /\ known[r] # {computed}
        /\ blocked' = [blocked EXCEPT ![r] = @ \union {p}]
        /\ NextProposal(r)
        /\ UNCHANGED <<sent, todo, refused, faults>>
  /\ UNCHANGED <<given, head, elected, contract, latest, now, known>>

\* getVotersForProposal: the VoteCast logs of the number up to latestBlock, of
\* whichever plugin.
VotersOf(p, block) ==
  {v \in Voters : votes[p][v] > 0 /\ votes[p][v] <= block} \union Others[votes]

\* Without any the proposal is left for later.
GetVoters(r) ==
  LET p == next[r]
      voters == VotersOf(p, latest[r])
  IN
  /\ pc[r] = "voters"
  /\ todo' = [todo EXCEPT ![r] = voters \intersect entries[r]]
  /\ IF voters = {}
     THEN NextProposal(r)
     ELSE pc' = [pc EXCEPT ![r] = "power"] /\ UNCHANGED next
  /\ UNCHANGED <<given, head, elected, contract, sent, latest, now, known, entries,
                 blocked, refused, faults>>

\* One voter after the other; getVote tells whose power is there already.
SubmitVotingPower(r) ==
  /\ pc[r] = "power"
  /\ UNCHANGED entries
  /\ \E v \in todo[r] :
       IF <<next[r], v>> \in submitted
       THEN /\ todo' = [todo EXCEPT ![r] = @ \ {v}]
            /\ UNCHANGED <<sent, pc, next, refused, faults>>
       ELSE Send(r, "submitVotingPower", {v})
  /\ UNCHANGED <<given, head, elected, contract, latest, now, known, blocked>>

\* Mutant: the proposal is closed while voters are left.
OracleCloseEarly(r) ==
  /\ pc[r] = "power"
  /\ UNCHANGED entries
  /\ Send(r, "oracleCloseProposal", {})
  /\ UNCHANGED <<given, head, elected, contract, latest, now, known, blocked>>

OracleClose(r) ==
  /\ pc[r] = "power" /\ todo[r] = {}
  /\ UNCHANGED entries
  /\ Send(r, "oracleCloseProposal", {})
  /\ UNCHANGED <<given, head, elected, contract, latest, now, known, blocked>>

\* The oldest transaction is mined, with the effect it has by then.
TransactionMined ==
  /\ sent # <<>>
  /\ sent' = Tail(sent)
  /\ LET t == Head(sent)
         ok == Accepts(t)
     IN /\ IF ok THEN Apply(t) ELSE UNCHANGED contract
        /\ \/ t.awaited = {} /\ UNCHANGED <<pc, next, todo, refused>>
           \/ \E r \in t.awaited : Settled(r, t, ok)
  /\ UNCHANGED <<given, head, elected, latest, now, known, entries, blocked, faults>>

Deserted(r) == [i \in DOMAIN sent |-> [sent[i] EXCEPT !.awaited = @ \ {r}]]

\* tx.wait() fails: the run takes the transaction for failed, and it may yet be
\* mined.
WaitFails(r) ==
  /\ pc[r] = "wait" /\ Fault("rpc")
  /\ \E i \in DOMAIN sent : r \in sent[i].awaited /\ Settled(r, sent[i], FALSE)
  /\ sent' = Deserted(r)
  /\ UNCHANGED <<given, head, elected, contract, latest, now, known, entries, blocked>>

\* Another call of the node fails: the target is given up until the next run.
RpcFails(r) ==
  /\ pc[r] \notin {"idle", "wait"} /\ Fault("rpc")
  /\ pc' = [pc EXCEPT ![r] = "idle"]
  /\ UNCHANGED <<given, head, elected, contract, sent, local, refused>>

\* The process dies and is started again; its transaction stays on its way.
Crash(r) ==
  /\ pc[r] # "idle" /\ Fault("crash")
  /\ pc' = [pc EXCEPT ![r] = "idle"]
  /\ blocked' = [blocked EXCEPT ![r] = {}]
  /\ sent' = Deserted(r)
  /\ UNCHANGED <<given, head, elected, contract, latest, now, next, known, entries, todo,
                 refused>>

-----------------------------------------------------------------------------

Step(r) ==
  \/ Start(r) \/ ReadTimestamp(r) \/ Examine(r) \/ ComputeEntries(r)
  \/ GetVoters(r) \/ SubmitVotingPower(r) \/ OracleClose(r)

Next ==
  \/ MineBlock \/ TransactionMined \/ Election
  \/ \E r \in Runners : Step(r) \/ WaitFails(r) \/ RpcFails(r) \/ Crash(r)

Spec == Init /\ [][Next]_vars

\* The chain goes on and takes what is sent; the scheduler starts the task
\* again and again, and a run that is under way goes on.
FairSpec ==
  /\ Spec /\ WF_vars(MineBlock) /\ WF_vars(TransactionMined)
  /\ \A r \in Runners : WF_vars(Step(r))

-----------------------------------------------------------------------------
(* Properties *)

TypeOK ==
  /\ registry \in Seq(OptEvents) /\ votes \in [Proposals -> [Voters -> Blocks]]
  /\ delay \in Nat /\ revalidate \in BOOLEAN
  /\ head \in Blocks /\ elected \subseteq Voters
  /\ root \in [Proposals -> SUBSET SUBSET Voters]
  /\ submitted \subseteq Proposals \X Voters
  /\ early \subseteq closed /\ closed \subseteq Proposals
  /\ sent \in Seq(Transactions)
  /\ pc \in [Runners -> Places]
  /\ latest \in [Runners -> Blocks]
  /\ now \in [Runners -> Nat]
  /\ next \in [Runners -> Nat \ {0}]
  /\ known \in [Runners -> SUBSET SUBSET Voters]
  /\ entries \in [Runners -> SUBSET Voters]
  /\ todo \in [Runners -> SUBSET Voters]
  /\ blocked \in [Runners -> SUBSET Proposals]
  /\ refused \subseteq Proposals \X Voters
  /\ faults \in Nat

\* When a run closes a proposal before the window ends, no vote is left out:
\* the power of everyone who voted and may vote is on the contract, unless its
\* transaction failed, which is only logged. Promised where a block delay after
\* the end date is configured: the head is read before the time, so without it
\* a vote of the last block before the end date may be missed.
CountedWhenClosed ==
  delay > 0 => \A p \in early : \A v \in Voters :
    votes[p][v] > 0 /\ {v} \in {S \intersect {v} : S \in root[p]} =>
      <<p, v>> \in submitted \/ <<p, v>> \in refused

\* A root computed again is the root on the contract, whatever happened since,
\* wherever the registry names somebody: the run that finds it goes on with the
\* proposal and does not block it.
RootRecomputed ==
  \A p \in Proposals : OptedIn(Snapshot[p]) # {} =>
    /\ root[p] \subseteq {OptedIn(Snapshot[p])}
    /\ \A r \in Runners : p \notin blocked[r]

\* The binary search finds the first block at or after a time, between any two
\* blocks the chain has.
SearchFinds ==
  \A lo, hi \in 0 .. head : \A time \in {EndDate[p] : p \in Proposals} :
    lo <= hi => FirstBlock(lo, hi, time) =
      {b \in lo .. hi : /\ Timestamp[b] >= time
                        /\ \A a \in lo .. (b - 1) : Timestamp[a] < time}

\* A proposal whose root was set does not stay open: it is closed in the window
\* or after it, whatever fails on the way.
RootLeadsToClosed == \A p \in Proposals : root[p] # {} ~> p \in closed
=============================================================================
