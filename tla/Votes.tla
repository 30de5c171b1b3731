-------------------------------- MODULE Votes --------------------------------
(***************************************************************************)
(* The vote handlers of proposalHandler.ts and the Vote collection they     *)
(* keep: approved (multisig), voteCast and voteCleared (token voting, lock  *)
(* to vote) and harmonyVoteCast. A crawler gives them the vote events of a  *)
(* chain in order, and again from its cursor on: the crawler's window is    *)
(* abstracted to what LogCrawler shows of it. The proposals and plugins the *)
(* events name are in the database.                                         *)
(*                                                                          *)
(* An event is named by its place in the history, which stands for          *)
(* (network, transactionHash, logIndex); so is the document stored for it.  *)
(***************************************************************************)
EXTENDS Integers, Sequences

CONSTANTS
  Members,
  Proposals,
  Histories,         \* the vote events the chain may hold: sequences
  Disturbances,      \* what goes wrong: subset of {"redeliver", "fail"}
  MaxDisturbances    \* bound: how often

Kinds == {"approve", "cast", "harmony", "clear"}
Events == [kind : Kinds, member : Members, proposal : Proposals,
           block : Nat \ {0}, index : Nat]

SameVoter(e, f) == e.member = f.member /\ e.proposal = f.proposal

\* What the plugins' contracts emit: a member approves once, casts any number
\* of times, and clears a vote that stands.
Legal(h) ==
  /\ \A i, j \in DOMAIN h : i < j =>
       h[i].block < h[j].block \/ (h[i].block = h[j].block /\ h[i].index < h[j].index)
  /\ \A i, j \in DOMAIN h : h[i].kind = "approve" /\ SameVoter(h[i], h[j]) => i = j
  /\ \A j \in DOMAIN h : h[j].kind = "clear" =>
       \E i \in 1 .. (j - 1) :
         /\ SameVoter(h[i], h[j]) /\ h[i].kind = "cast"
         /\ \A k \in (i + 1) .. (j - 1) : ~SameVoter(h[k], h[j])

ASSUME VotesAssumption ==
  /\ Histories \subseteq Seq(Events)
  /\ \A h \in Histories : Legal(h)
  /\ Disturbances \subseteq {"redeliver", "fail"}
  /\ MaxDisturbances \in Nat

VARIABLES
  history,     \* the events of the chain
  indexed,     \* syncIndexes has created the unique indexes of the collection
  votes,       \* the Vote documents, by the event each was stored for
  cleared,     \* those with voteCleared.status
  pos,         \* how many events the crawler has given to the handlers
  high,        \* the last event that ever reached a handler
  handling,    \* the handler of event pos + 1 has written, and goes on
  cursor,      \* lastSync
  stale,       \* proposals whose votes changed after their last metrics message
  failed,      \* events whose handler failed once: it logs the error and returns
  disturbed    \* disturbances so far

database == <<votes, cleared>>
vars == <<history, indexed, database, pos, high, handling, cursor, stale, failed, disturbed>>

Init ==
  /\ history \in Histories
  /\ indexed \in BOOLEAN
  /\ votes = {} /\ cleared = {}
  /\ pos = 0 /\ high = 0 /\ handling = FALSE
  /\ cursor = 0
  /\ stale = {} /\ failed = {}
  /\ disturbed = 0

Disturb(k) ==
  k \in Disturbances /\ disturbed < MaxDisturbances /\ disturbed' = disturbed + 1

-----------------------------------------------------------------------------
(* The collection *)

\* Vote.create derives the id; an upsert stores a document without one.
HasId(n) == history[n].kind = "approve"

\* Only harmonyVoteCast stores the block's hash.
HasBlockHash(n) == history[n].kind = "harmony"

\* findExistingLog: by id
ExistingLog(n) == n \in votes /\ HasId(n)

\* Mutant: the proposal is left out of the query.
VotesOnPluginAny(n) == {v \in votes : history[v].member = history[n].member}

\* findVoteOnPlugin: the member's newest vote by block, a cleared one too.
VotesOnPlugin(n) ==
  LET mine == {v \in votes : SameVoter(history[v], history[n])}
  IN {v \in mine : \A w \in mine : history[w].block <= history[v].block}

\* The unique indexes on id and on (network, blockHash, logIndex): a missing
\* field counts as null.
DuplicateKey(n) ==
  indexed /\ \E v \in votes \ {n} :
    \/ ~HasId(v) /\ ~HasId(n)
    \/ ~HasBlockHash(v) /\ ~HasBlockHash(n) /\ history[v].index = history[n].index

-----------------------------------------------------------------------------
(* The handlers, for the event that is next *)

Larger(a, b) == IF a >= b THEN a ELSE b

Handles(kind) ==
  ~handling /\ pos < Len(history) /\ history[pos + 1].kind = kind

\* The handler of event n has written to the database and goes on to the
\* member's activity, the metrics and the messages.
Written(n) ==
  /\ handling' = TRUE
  /\ stale' = IF database' # database /\ history[n].kind # "harmony"
              THEN stale \union {history[n].proposal} ELSE stale
  /\ high' = Larger(high, n)
  /\ UNCHANGED <<history, indexed, pos, cursor, failed, disturbed>>

\* The handler is done with the event.
Passed ==
  /\ pos' = pos + 1
  /\ high' = Larger(high, pos + 1)
  /\ handling' = FALSE
  /\ UNCHANGED <<history, indexed, database, cursor>>

\* The event is known, or there is nothing to do for it.
Return == Passed /\ UNCHANGED <<stale, failed, disturbed>>

\* Mutant: the previous vote is not deleted.
ReplaceVoteKept(n, old) ==
  IF n \notin votes /\ DuplicateKey(n)
  THEN UNCHANGED database
  ELSE votes' = votes \union {n} /\ UNCHANGED cleared

\* The transaction of voteCast: store the new document, delete the member's
\* old one, which on a redelivery may be the document just stored. A
\* duplicate key aborts it, and the handler goes on.
ReplaceVote(n, old) ==
  IF n \notin votes /\ DuplicateKey(n)
  THEN UNCHANGED database
  ELSE /\ votes' = (votes \union {n}) \ old
       /\ cleared' = cleared \ old

\* findExistingLog finds nothing: the document it looks for has no id.
CastVote(kind) ==
  /\ Handles(kind)
  /\ \/ VotesOnPlugin(pos + 1) = {} /\ ReplaceVote(pos + 1, {})
     \/ \E v \in VotesOnPlugin(pos + 1) : ReplaceVote(pos + 1, {v})
  /\ Written(pos + 1)

\* Mutant: approvals are stored the way voteCast stores votes.
ApprovedReplacing == CastVote("approve")

\* The approval's id is derived from its log: a second one is recognised.
Approved ==
  /\ Handles("approve")
  /\ \/ ExistingLog(pos + 1) /\ Return
     \/ /\ ~ExistingLog(pos + 1)
        /\ votes' = IF DuplicateKey(pos + 1) THEN votes ELSE votes \union {pos + 1}
        /\ UNCHANGED cleared
        /\ Written(pos + 1)

VoteCast == CastVote("cast")
HarmonyVoteCast == CastVote("harmony")

\* Mutant: a vote that is marked already is left alone.
VoteClearedOnce ==
  /\ Handles("clear")
  /\ \/ VotesOnPlugin(pos + 1) \subseteq cleared /\ Return
     \/ \E v \in VotesOnPlugin(pos + 1) \ cleared :
          /\ cleared' = cleared \union {v}
          /\ UNCHANGED votes
          /\ Written(pos + 1)

\* The event is looked for by a voteCleared without the timestamp that the
\* stored one has: it is never found. The newest vote is marked, whichever it is.
VoteCleared ==
  /\ Handles("clear")
  /\ \/ VotesOnPlugin(pos + 1) = {} /\ Return
     \/ \E v \in VotesOnPlugin(pos + 1) :
          /\ cleared' = cleared \union {v}
          /\ UNCHANGED votes
          /\ Written(pos + 1)

\* createBaseMember, updatePluginMetrics and the metrics message, which
\* harmonyVoteCast does not send.
Notify ==
  /\ handling
  /\ stale' = stale \ {history[pos + 1].proposal}
  /\ Passed
  /\ UNCHANGED <<failed, disturbed>>

\* A read, the transaction or a later call fails: the handler logs the error
\* and returns, and the crawler goes on.
HandlerFails ==
  /\ pos < Len(history)
  /\ Disturb("fail")
  /\ failed' = failed \union {pos + 1}
  /\ Passed
  /\ UNCHANGED stale

-----------------------------------------------------------------------------
(* The crawler: what LogCrawler allows it *)

\* The chain's last block: one without events after the last that has some.
ChainHead == history[Len(history)].block + 1

\* The cursor moves over blocks whose events have all been handled.
SaveProgress ==
  /\ ~handling
  /\ cursor' \in (cursor + 1) .. ChainHead
  /\ \A n \in (pos + 1) .. Len(history) : history[n].block > cursor'
  /\ UNCHANGED <<history, indexed, database, pos, high, handling, stale, failed, disturbed>>

\* A new crawl starts at the cursor's own block, after a crash, an aborted
\* range or as the next poll.
Redeliver ==
  /\ Disturb("redeliver")
  /\ pos' \in 0 .. pos
  /\ \A n \in 1 .. Len(history) : n <= pos' <=> history[n].block < cursor
  /\ handling' = FALSE
  /\ UNCHANGED <<history, indexed, database, high, cursor, stale, failed>>

-----------------------------------------------------------------------------

Next ==
  \/ Approved \/ VoteCast \/ HarmonyVoteCast \/ VoteCleared
  \/ Notify \/ HandlerFails
  \/ SaveProgress \/ Redeliver

Spec == Init /\ [][Next]_vars

-----------------------------------------------------------------------------
(* Properties *)

TypeOK ==
  /\ history \in Seq(Events) /\ Legal(history)
  /\ indexed \in BOOLEAN
  /\ votes \subseteq 1 .. Len(history)
  /\ cleared \subseteq votes
  /\ pos \in 0 .. Len(history) /\ high \in pos .. Len(history)
  /\ handling \in BOOLEAN /\ (handling => pos < Len(history))
  /\ cursor \in Nat
  /\ stale \subseteq Proposals
  /\ failed \subseteq 1 .. Len(history)
  /\ disturbed \in Nat

\* The metrics count documents, so a member must never have two of them on a
\* proposal: whatever is redelivered and whichever handler fails in between,
\* a vote replaces the one before it (findVoteOnPlugin, voteCast, approved).
OneVotePerMember ==
  \A v, w \in votes : SameVoter(history[v], history[w]) => v = w

\* The events whose vote stands on the chain after the first n.
Ledger(n) ==
  {i \in 1 .. n : /\ history[i].kind # "clear"
                  /\ \A j \in 1 .. n : i < j => ~SameVoter(history[i], history[j])}

Standing == votes \ cleared

\* Delivered once and without a failure, the events leave the votes of the
\* chain: replaced and cleared ones gone, those cast again after a clear back.
\* Without the unique indexes: with them votes get lost.
FirstDelivery ==
  ~indexed /\ disturbed = 0 /\ ~handling => Standing = Ledger(pos)

\* An approval that was stored stays, through redeliveries and failures, and
\* one whose handling did not fail is stored (approved's findExistingLog).
ApprovalsStand ==
  ~indexed => \A n \in 1 .. high :
    history[n].kind = "approve" /\ n \notin failed => n \in Standing

\* A metrics message that a crash swallowed is made up for: the event is
\* delivered again, and its handler sends the message. Not so for approvals,
\* whose handler returns early when it finds the vote.
StaleIsRepaired ==
  failed = {} /\ ~handling =>
    \A p \in stale :
      \E n \in DOMAIN history :
        history[n].proposal = p /\ (n > pos \/ history[n].kind = "approve")

\* Handling events again changes nothing: when the crawler is back where it
\* was, the votes are those of the chain.
ReplayHarmless ==
  ~indexed /\ failed = {} /\ ~handling /\ pos = high => Standing = Ledger(pos)
=============================================================================
