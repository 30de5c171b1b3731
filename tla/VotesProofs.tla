----------------------------- MODULE VotesProofs -----------------------------
(***************************************************************************)
(* Proofs about Votes, for every set of legal histories and any number of   *)
(* redeliveries and failures: the type invariant, one vote per member and   *)
(* proposal, and that a stored approval stays.                              *)
(***************************************************************************)
EXTENDS Votes, TLAPS

\* Approvals are never marked as cleared, and the event whose handler is at
\* work has been reached.
ApprovalInv ==
  /\ ApprovalsStand
  /\ \A v \in cleared : history[v].kind # "approve"
  /\ handling => pos < high

VotesInv == TypeOK /\ OneVotePerMember /\ ApprovalInv

LEMMA InitInv == Init => VotesInv
<1> SUFFICES ASSUME Init PROVE VotesInv
  OBVIOUS
<1>1. history \in Seq(Events) /\ Legal(history)
  BY VotesAssumption DEF Init
<1>2. Len(history) \in Nat /\ MaxDisturbances \in Nat
  BY <1>1, VotesAssumption
<1>3. TypeOK
  <2>1. pos \in 0 .. Len(history) /\ high \in pos .. Len(history) /\ cursor \in Nat
    BY <1>2 DEF Init
  <2> QED
    BY <1>1, <2>1 DEF Init, TypeOK
<1>4. ApprovalsStand
  <2>1. 1 .. high = {}
    BY DEF Init
  <2> QED
    BY <2>1 DEF ApprovalsStand
<1> QED
  BY <1>3, <1>4 DEF Init, VotesInv, OneVotePerMember, ApprovalInv

\* The events of the history, and the one that is next.
LEMMA NextEvent ==
  ASSUME TypeOK, pos < Len(history)
  PROVE  /\ Len(history) \in Nat
         /\ pos + 1 \in 1 .. Len(history)
         /\ \A n \in 1 .. Len(history) : history[n] \in Events /\ n \in DOMAIN history
BY DEF TypeOK

\* findVoteOnPlugin finds the only vote there is.
LEMMA TheVote ==
  ASSUME TypeOK, OneVotePerMember, pos < Len(history)
  PROVE  /\ VotesOnPlugin(pos + 1) =
              {v \in votes : SameVoter(history[v], history[pos + 1])}
         /\ \A v, w \in VotesOnPlugin(pos + 1) : v = w
<1>1. \A v \in votes : history[v].block \in Nat
  BY NextEvent DEF TypeOK, Events
<1>2. \A v, w \in votes : SameVoter(history[v], history[pos + 1])
                            /\ SameVoter(history[w], history[pos + 1]) => v = w
  BY DEF OneVotePerMember, SameVoter
<1> QED
  BY <1>1, <1>2 DEF VotesOnPlugin

-----------------------------------------------------------------------------

LEMMA PassedKeeps ==
  ASSUME VotesInv, pos < Len(history), Passed,
         failed' \in {failed, failed \union {pos + 1}},
         \/ handling
         \/ pos + 1 \in failed'
         \/ ExistingLog(pos + 1)
         \/ history[pos + 1].kind # "approve",
         stale' \subseteq Proposals, disturbed' \in Nat
  PROVE  VotesInv'
<1>1. TypeOK'
  <2>1. pos' \in 0 .. Len(history) /\ high' \in pos' .. Len(history)
    BY NextEvent DEF VotesInv, TypeOK, Passed, Larger
  <2>2. failed' \subseteq 1 .. Len(history)
    BY NextEvent DEF VotesInv, TypeOK
  <2> QED
    BY <2>1, <2>2 DEF VotesInv, TypeOK, Passed, database
<1>2. OneVotePerMember'
  BY DEF VotesInv, OneVotePerMember, Passed, database
<1>3. ApprovalsStand'
  <2>1. ASSUME ~indexed, NEW n \in 1 .. high', history[n].kind = "approve", n \notin failed'
        PROVE  n \in votes /\ n \notin cleared
    <3>1. CASE n \in 1 .. high
      BY <2>1, <3>1 DEF VotesInv, ApprovalInv, ApprovalsStand, Standing
    <3>2. CASE n \notin 1 .. high
      <4>1. n = pos + 1 /\ ~handling
        BY <2>1, <3>2, NextEvent DEF VotesInv, TypeOK, ApprovalInv, Passed, Larger
      <4>2. ExistingLog(n)
        BY <2>1, <4>1
      <4> QED
        BY <2>1, <4>2 DEF ExistingLog, VotesInv, ApprovalInv
    <3> QED
      BY <3>1, <3>2
  <2> QED
    BY <2>1 DEF ApprovalsStand, Standing, Passed, database
<1> QED
  BY <1>1, <1>2, <1>3 DEF VotesInv, ApprovalInv, Passed, database

\* What a handler that writes has to show.
LEMMA WrittenKeeps ==
  ASSUME VotesInv, pos < Len(history), Written(pos + 1),
         votes' \subseteq 1 .. Len(history), cleared' \subseteq votes',
         OneVotePerMember',
         \A v \in cleared' : history[v].kind # "approve",
         ~indexed => \A n \in votes : history[n].kind = "approve" => n \in votes',
         ~indexed /\ history[pos + 1].kind = "approve" => pos + 1 \in votes'
  PROVE  VotesInv'
<1>1. TypeOK'
  <2>1. high' \in pos' .. Len(history)
    BY NextEvent DEF VotesInv, TypeOK, Written, Larger
  <2>2. stale' \subseteq Proposals
    BY NextEvent DEF VotesInv, TypeOK, Written, Events
  <2> QED
    BY <2>1, <2>2 DEF VotesInv, TypeOK, Written
<1>2. ApprovalsStand'
  <2>1. ASSUME ~indexed, NEW n \in 1 .. high', history[n].kind = "approve", n \notin failed'
        PROVE  n \in votes'
    <3>1. CASE n \in 1 .. high
      BY <2>1, <3>1 DEF VotesInv, ApprovalInv, ApprovalsStand, Standing, Written
    <3>2. CASE n \notin 1 .. high
      BY <2>1, <3>2, NextEvent DEF VotesInv, TypeOK, Written, Larger
    <3> QED
      BY <3>1, <3>2
  <2> QED
    BY <2>1 DEF ApprovalsStand, Standing, Written
<1>3. handling' => pos' < high'
  BY NextEvent DEF VotesInv, TypeOK, Written, Larger
<1> QED
  BY <1>1, <1>2, <1>3 DEF VotesInv, ApprovalInv, Written

\* No event but the approval itself shares its member and proposal.
LEMMA ApprovalAlone ==
  ASSUME TypeOK, pos < Len(history), NEW v \in 1 .. Len(history),
         SameVoter(history[v], history[pos + 1]),
         history[v].kind = "approve" \/ history[pos + 1].kind = "approve"
  PROVE  v = pos + 1
<1>1. SameVoter(history[pos + 1], history[v])
  BY DEF SameVoter
<1> QED
  BY <1>1, NextEvent DEF TypeOK, Legal

LEMMA CastVoteKeeps ==
  ASSUME VotesInv, NEW kind \in {"cast", "harmony"}, CastVote(kind)
  PROVE  VotesInv'
<1>1. pos < Len(history) /\ history[pos + 1].kind = kind /\ Written(pos + 1)
  BY DEF CastVote, Handles
<1>2. PICK old \in SUBSET VotesOnPlugin(pos + 1) :
         /\ ReplaceVote(pos + 1, old)
         /\ old = VotesOnPlugin(pos + 1)
  <2>1. CASE VotesOnPlugin(pos + 1) = {} /\ ReplaceVote(pos + 1, {})
    BY <2>1
  <2>2. ASSUME NEW v \in VotesOnPlugin(pos + 1), ReplaceVote(pos + 1, {v})
        PROVE  {v} = VotesOnPlugin(pos + 1) /\ ReplaceVote(pos + 1, {v})
    BY <1>1, <2>2, TheVote DEF VotesInv
  <2> QED
    BY <2>1, <2>2 DEF CastVote
<1>3. old = {v \in votes : SameVoter(history[v], history[pos + 1])}
  BY <1>1, <1>2, TheVote DEF VotesInv
<1>4. \A v \in old : history[v].kind # "approve"
  BY <1>1, <1>3, ApprovalAlone DEF VotesInv, TypeOK
<1>5. CASE UNCHANGED database /\ indexed
  BY <1>1, <1>5, WrittenKeeps DEF VotesInv, TypeOK, OneVotePerMember, ApprovalInv, Written, database
<1>6. CASE votes' = (votes \union {pos + 1}) \ old /\ cleared' = cleared \ old
  <2>1. votes' \subseteq 1 .. Len(history) /\ cleared' \subseteq votes'
    BY <1>1, <1>6, NextEvent DEF VotesInv, TypeOK
  <2>2. OneVotePerMember'
    BY <1>1, <1>3, <1>6 DEF VotesInv, OneVotePerMember, SameVoter, Written
  <2>3. \A v \in cleared' : history[v].kind # "approve"
    BY <1>6 DEF VotesInv, ApprovalInv
  <2>4. \A n \in votes : history[n].kind = "approve" => n \in votes'
    BY <1>4, <1>6
  <2> QED
    BY <1>1, <2>1, <2>2, <2>3, <2>4, WrittenKeeps
<1> QED
  BY <1>2, <1>5, <1>6 DEF ReplaceVote, DuplicateKey

LEMMA ApprovedKeeps ==
  ASSUME VotesInv, Approved
  PROVE  VotesInv'
<1>1. pos < Len(history) /\ history[pos + 1].kind = "approve"
  BY DEF Approved, Handles
<1>2. CASE ExistingLog(pos + 1) /\ Return
  BY <1>1, <1>2, PassedKeeps DEF Return, VotesInv, TypeOK
<1>3. CASE /\ ~ExistingLog(pos + 1) /\ Written(pos + 1) /\ UNCHANGED cleared
           /\ votes' = IF DuplicateKey(pos + 1) THEN votes ELSE votes \union {pos + 1}
  <2>1. \A v \in votes : ~SameVoter(history[v], history[pos + 1])
    BY <1>1, <1>3, ApprovalAlone DEF ExistingLog, HasId, VotesInv, TypeOK
  <2>2. OneVotePerMember'
    BY <1>3, <2>1 DEF VotesInv, OneVotePerMember, SameVoter, Written
  <2>3. votes' \subseteq 1 .. Len(history) /\ cleared' \subseteq votes'
    BY <1>1, <1>3, NextEvent DEF VotesInv, TypeOK
  <2>4. ~indexed => votes' = votes \union {pos + 1}
    BY <1>3 DEF DuplicateKey
  <2> QED
    BY <1>1, <1>3, <2>2, <2>3, <2>4, WrittenKeeps DEF VotesInv, ApprovalInv
<1> QED
  BY <1>2, <1>3 DEF Approved

LEMMA VoteClearedKeeps ==
  ASSUME VotesInv, VoteCleared
  PROVE  VotesInv'
<1>1. pos < Len(history) /\ history[pos + 1].kind = "clear"
  BY DEF VoteCleared, Handles
<1>2. CASE Return
  BY <1>1, <1>2, PassedKeeps DEF Return, VotesInv, TypeOK
<1>3. ASSUME NEW v \in VotesOnPlugin(pos + 1),
             cleared' = cleared \union {v}, UNCHANGED votes, Written(pos + 1)
      PROVE  VotesInv'
  <2>1. v \in votes /\ SameVoter(history[v], history[pos + 1])
    BY <1>1, <1>3, TheVote DEF VotesInv
  <2>2. history[v].kind # "approve"
    BY <1>1, <2>1, ApprovalAlone DEF VotesInv, TypeOK
  <2>3. OneVotePerMember'
    BY <1>3 DEF VotesInv, OneVotePerMember, Written
  <2> QED
    BY <1>1, <1>3, <2>1, <2>2, <2>3, WrittenKeeps DEF VotesInv, TypeOK, ApprovalInv, ApprovalsStand
<1> QED
  BY <1>2, <1>3 DEF VoteCleared

LEMMA CrawlerKeeps ==
  ASSUME VotesInv, SaveProgress \/ Redeliver \/ UNCHANGED vars
  PROVE  VotesInv'
<1>1. CASE SaveProgress
  <2>1. cursor' \in Nat
    BY <1>1 DEF SaveProgress, VotesInv, TypeOK
  <2> QED
    BY <1>1, <2>1 DEF SaveProgress, database, VotesInv, TypeOK, OneVotePerMember,
                      ApprovalInv, ApprovalsStand, Standing
<1>2. CASE Redeliver
  <2>1. pos' \in 0 .. pos /\ pos' \in 0 .. Len(history) /\ high' \in pos' .. Len(history)
    BY <1>2 DEF Redeliver, VotesInv, TypeOK
  <2>2. disturbed' \in Nat
    BY <1>2 DEF Redeliver, Disturb, VotesInv, TypeOK
  <2>3. TypeOK'
    BY <1>2, <2>1, <2>2 DEF Redeliver, database, VotesInv, TypeOK
  <2> QED
    BY <1>2, <2>3 DEF Redeliver, database, VotesInv, OneVotePerMember,
                      ApprovalInv, ApprovalsStand, Standing
<1>3. CASE UNCHANGED vars
  BY <1>3 DEF vars, database, VotesInv, TypeOK, OneVotePerMember,
              ApprovalInv, ApprovalsStand, Standing
<1> QED
  BY <1>1, <1>2, <1>3

\* The inductive invariant: of every member and proposal there is one vote, so
\* findVoteOnPlugin has no choice, and what it finds is no approval.
THEOREM VotesInvariant == Spec => []VotesInv
<1>1. ASSUME VotesInv, [Next]_vars PROVE VotesInv'
  <2>1. CASE Approved
    BY <1>1, <2>1, ApprovedKeeps
  <2>2. CASE VoteCast \/ HarmonyVoteCast
    BY <1>1, <2>2, CastVoteKeeps DEF VoteCast, HarmonyVoteCast
  <2>3. CASE VoteCleared
    BY <1>1, <2>3, VoteClearedKeeps
  <2>4. CASE Notify
    <3>1. pos < Len(history) /\ stale' \subseteq Proposals /\ disturbed' \in Nat
      BY <1>1, <2>4 DEF Notify, VotesInv, TypeOK
    <3> QED
      BY <1>1, <2>4, <3>1, PassedKeeps DEF Notify
  <2>5. CASE HandlerFails
    <3>1. stale' \subseteq Proposals /\ disturbed' \in Nat
      BY <1>1, <2>5 DEF HandlerFails, Disturb, VotesInv, TypeOK
    <3> QED
      BY <1>1, <2>5, <3>1, PassedKeeps DEF HandlerFails
  <2>6. CASE SaveProgress \/ Redeliver \/ UNCHANGED vars
    BY <1>1, <2>6, CrawlerKeeps
  <2> QED
    BY <1>1, <2>1, <2>2, <2>3, <2>4, <2>5, <2>6 DEF Next
<1> QED
  BY InitInv, <1>1, PTL DEF Spec

\* The collection and the crawler's position keep their types, whatever is
\* redelivered or fails.
THEOREM VotesTypeCorrect == Spec => []TypeOK
BY VotesInvariant, PTL DEF VotesInv

\* voteCast and approved never leave two votes of one member on a proposal.
THEOREM OneVote == Spec => []OneVotePerMember
BY VotesInvariant, PTL DEF VotesInv

\* Approvals survive redelivery, without the unique indexes.
THEOREM ApprovalsStay == Spec => []ApprovalsStand
BY VotesInvariant, PTL DEF VotesInv, ApprovalInv

-----------------------------------------------------------------------------
(* The first delivery *)

\* How many events have had their effect.
Effective == IF handling THEN pos + 1 ELSE pos

FirstInv ==
  ~indexed /\ disturbed = 0 =>
    votes \subseteq 1 .. Effective /\ Standing = Ledger(Effective)

\* What one more event does to the votes that stand on the chain.
LEMMA LedgerStep ==
  ASSUME TypeOK, pos < Len(history)
  PROVE  Ledger(pos + 1) =
           {i \in Ledger(pos) : ~SameVoter(history[i], history[pos + 1])}
             \union (IF history[pos + 1].kind = "clear" THEN {} ELSE {pos + 1})
<1>1. pos \in Nat
  BY DEF TypeOK
<1>2. ASSUME NEW i
      PROVE  i \in Ledger(pos + 1) <=>
               \/ i \in Ledger(pos) /\ ~SameVoter(history[i], history[pos + 1])
               \/ i = pos + 1 /\ history[pos + 1].kind # "clear"
  <2>1. i \in 1 .. (pos + 1) <=> i \in 1 .. pos \/ i = pos + 1
    BY <1>1
  <2>2. CASE i \in 1 .. pos
    BY <1>1, <2>2 DEF Ledger
  <2>3. CASE i = pos + 1
    BY <1>1, <2>3 DEF Ledger
  <2>4. CASE i \notin 1 .. (pos + 1)
    BY <1>1, <2>1, <2>4 DEF Ledger
  <2> QED
    BY <2>1, <2>2, <2>3, <2>4
<1> QED
  BY <1>2

\* A handler that writes does to the standing votes what its event does on
\* the chain.
LEMMA WrittenFirst ==
  ASSUME VotesInv, FirstInv, pos < Len(history), ~handling, Written(pos + 1),
         ~indexed => votes' \subseteq votes \union {pos + 1},
         ~indexed /\ disturbed = 0 /\ votes \subseteq 1 .. pos =>
           votes' \ cleared' = {i \in Standing : ~SameVoter(history[i], history[pos + 1])}
             \union (IF history[pos + 1].kind = "clear" THEN {} ELSE {pos + 1})
  PROVE  FirstInv'
<1>1. pos \in Nat
  BY DEF VotesInv, TypeOK
<1>2. Effective = pos /\ Effective' = pos + 1
  BY DEF Effective, Written
<1>3. ASSUME ~indexed, disturbed = 0
      PROVE  votes' \subseteq 1 .. (pos + 1) /\ Standing' = Ledger(pos + 1)
  <2>1. votes \subseteq 1 .. pos /\ Standing = Ledger(pos)
    BY <1>2, <1>3 DEF FirstInv
  <2>2. votes' \ cleared' = Ledger(pos + 1)
    BY <1>3, <2>1, LedgerStep DEF VotesInv
  <2>3. \A v \in votes' : v \in 1 .. pos \/ v = pos + 1
    BY <1>3, <2>1
  <2>4. votes' \subseteq 1 .. (pos + 1)
    BY <1>1, <2>3
  <2> QED
    BY <2>2, <2>4 DEF Standing
<1>4. (Ledger(Effective))' = Ledger(pos + 1)
  BY <1>2 DEF Ledger, Written
<1> QED
  BY <1>2, <1>3, <1>4 DEF FirstInv, Written

\* A handler that is done leaves the votes as they are.
LEMMA PassedFirst ==
  ASSUME VotesInv, FirstInv, pos < Len(history), Passed,
         \/ handling
         \/ disturbed' # 0
         \/ ~indexed /\ disturbed = 0 /\ votes \subseteq 1 .. pos =>
              /\ history[pos + 1].kind = "clear"
              /\ \A v \in votes : ~SameVoter(history[v], history[pos + 1]),
         disturbed' = 0 => disturbed = 0
  PROVE  FirstInv'
<1>1. pos \in Nat /\ Effective' = pos + 1
  BY DEF Effective, Passed, VotesInv, TypeOK
<1>2. (Ledger(Effective))' = Ledger(pos + 1)
  BY <1>1 DEF Ledger, Passed
<1>3. ASSUME ~indexed, disturbed' = 0
      PROVE  votes \subseteq 1 .. (pos + 1) /\ Standing = Ledger(pos + 1)
  <2>1. CASE handling
    BY <1>3, <2>1 DEF FirstInv, Effective
  <2>2. CASE ~handling
    <3>1. votes \subseteq 1 .. pos /\ Standing = Ledger(pos)
      BY <1>3, <2>2 DEF FirstInv, Effective
    <3>2. /\ history[pos + 1].kind = "clear"
          /\ \A v \in votes : ~SameVoter(history[v], history[pos + 1])
      BY <1>3, <2>2, <3>1
    <3>3. Ledger(pos + 1) = Ledger(pos)
      BY <3>1, <3>2, LedgerStep DEF VotesInv, Standing
    <3> QED
      BY <1>1, <3>1, <3>3
  <2> QED
    BY <2>1, <2>2
<1> QED
  BY <1>1, <1>2, <1>3 DEF FirstInv, Standing, Passed, database

LEMMA CastVoteFirst ==
  ASSUME VotesInv, FirstInv, NEW kind \in {"cast", "harmony"}, CastVote(kind)
  PROVE  FirstInv'
<1>1. /\ pos < Len(history) /\ ~handling
      /\ history[pos + 1].kind = kind /\ Written(pos + 1)
  BY DEF CastVote, Handles
<1>2. PICK old \in SUBSET VotesOnPlugin(pos + 1) :
         ReplaceVote(pos + 1, old) /\ old = VotesOnPlugin(pos + 1)
  <2>1. ASSUME NEW v \in VotesOnPlugin(pos + 1), ReplaceVote(pos + 1, {v})
        PROVE  {v} = VotesOnPlugin(pos + 1)
    BY <1>1, <2>1, TheVote DEF VotesInv
  <2> QED
    BY <2>1 DEF CastVote
<1>3. old = {v \in votes : SameVoter(history[v], history[pos + 1])}
  BY <1>1, <1>2, TheVote DEF VotesInv
<1>4. ASSUME ~indexed
      PROVE  votes' = (votes \union {pos + 1}) \ old /\ cleared' = cleared \ old
  BY <1>2, <1>4 DEF ReplaceVote, DuplicateKey
<1>5. ASSUME ~indexed, votes \subseteq 1 .. pos
      PROVE  votes' \ cleared' = {i \in Standing : ~SameVoter(history[i], history[pos + 1])}
               \union {pos + 1}
  <2>1. pos + 1 \notin votes /\ pos + 1 \notin cleared /\ cleared \subseteq votes
    BY <1>5 DEF VotesInv, TypeOK
  <2> QED
    BY <1>3, <1>4, <1>5, <2>1 DEF Standing
<1>6. ~indexed => votes' \subseteq votes \union {pos + 1}
  BY <1>4
<1> QED
  BY <1>1, <1>5, <1>6, WrittenFirst

LEMMA ApprovedFirst ==
  ASSUME VotesInv, FirstInv, Approved
  PROVE  FirstInv'
<1>1. pos < Len(history) /\ ~handling /\ history[pos + 1].kind = "approve"
  BY DEF Approved, Handles
<1>2. CASE ExistingLog(pos + 1) /\ Return
  <2>1. pos + 1 \notin 1 .. pos
    BY DEF VotesInv, TypeOK
  <2>2. ~(votes \subseteq 1 .. pos)
    BY <1>2, <2>1 DEF ExistingLog
  <2> QED
    BY <1>1, <1>2, <2>2, PassedFirst DEF Return
<1>3. CASE /\ ~ExistingLog(pos + 1) /\ Written(pos + 1) /\ UNCHANGED cleared
           /\ votes' = IF DuplicateKey(pos + 1) THEN votes ELSE votes \union {pos + 1}
  <2>1. pos + 1 \notin votes
    BY <1>1, <1>3 DEF ExistingLog, HasId
  <2>2. \A v \in votes : ~SameVoter(history[v], history[pos + 1])
    BY <1>1, <2>1, ApprovalAlone DEF VotesInv, TypeOK
  <2>3. ~indexed => votes' = votes \union {pos + 1}
    BY <1>3 DEF DuplicateKey
  <2>4. pos + 1 \notin cleared
    BY <2>1 DEF VotesInv, TypeOK
  <2>5. ~indexed => votes' \ cleared' =
          {i \in Standing : ~SameVoter(history[i], history[pos + 1])} \union {pos + 1}
    BY <1>3, <2>2, <2>3, <2>4 DEF Standing
  <2> QED
    BY <1>1, <1>3, <2>3, <2>5, WrittenFirst
<1> QED
  BY <1>2, <1>3 DEF Approved

LEMMA VoteClearedFirst ==
  ASSUME VotesInv, FirstInv, VoteCleared
  PROVE  FirstInv'
<1>1. pos < Len(history) /\ ~handling /\ history[pos + 1].kind = "clear"
  BY DEF VoteCleared, Handles
<1>2. VotesOnPlugin(pos + 1) = {v \in votes : SameVoter(history[v], history[pos + 1])}
  BY <1>1, TheVote DEF VotesInv
<1>3. CASE VotesOnPlugin(pos + 1) = {} /\ Return
  <2>1. \A v \in votes : ~SameVoter(history[v], history[pos + 1])
    BY <1>2, <1>3
  <2> QED
    BY <1>1, <1>3, <2>1, PassedFirst DEF Return
<1>4. ASSUME NEW v \in VotesOnPlugin(pos + 1),
             cleared' = cleared \union {v}, UNCHANGED votes, Written(pos + 1)
      PROVE  FirstInv'
  <2>1. \A w \in votes : SameVoter(history[w], history[pos + 1]) <=> w = v
    BY <1>1, <1>2, <1>4, TheVote DEF VotesInv
  <2>2. votes' \ cleared' = {i \in Standing : ~SameVoter(history[i], history[pos + 1])}
    BY <1>4, <2>1 DEF Standing
  <2> QED
    BY <1>1, <1>4, <2>2, WrittenFirst
<1> QED
  BY <1>3, <1>4 DEF VoteCleared

\* Delivered once, in order and without a failure, the events of any legal
\* history leave the votes that stand on the chain.
THEOREM FirstDeliveryCorrect == Spec => []FirstDelivery
<1>1. Init => FirstInv
  <2> SUFFICES ASSUME Init PROVE FirstInv
    OBVIOUS
  <2>1. Effective = 0 /\ 1 .. Effective = {}
    BY DEF Init, Effective
  <2> QED
    BY <2>1 DEF Init, FirstInv, Standing, Ledger
<1>2. ASSUME VotesInv, FirstInv, [Next]_vars PROVE FirstInv'
  <2>1. CASE Approved
    BY <1>2, <2>1, ApprovedFirst
  <2>2. CASE VoteCast \/ HarmonyVoteCast
    BY <1>2, <2>2, CastVoteFirst DEF VoteCast, HarmonyVoteCast
  <2>3. CASE VoteCleared
    BY <1>2, <2>3, VoteClearedFirst
  <2>4. CASE Notify
    <3>1. pos < Len(history) /\ handling /\ Passed /\ disturbed' = disturbed
      BY <1>2, <2>4 DEF Notify, VotesInv, TypeOK
    <3> QED
      BY <1>2, <3>1, PassedFirst
  <2>5. CASE HandlerFails \/ Redeliver
    <3>1. disturbed' # 0 /\ indexed' = indexed
      BY <1>2, <2>5 DEF HandlerFails, Redeliver, Disturb, Passed, VotesInv, TypeOK
    <3> QED
      BY <3>1 DEF FirstInv
  <2>6. CASE SaveProgress \/ UNCHANGED vars
    <3>1. UNCHANGED <<history, indexed, votes, cleared, pos, handling, disturbed>>
      BY <2>6 DEF SaveProgress, vars, database
    <3> QED
      BY <1>2, <3>1 DEF FirstInv, Effective, Standing, Ledger
  <2> QED
    BY <1>2, <2>1, <2>2, <2>3, <2>4, <2>5, <2>6 DEF Next
<1>3. FirstInv => FirstDelivery
  BY DEF FirstInv, FirstDelivery, Effective
<1> QED
  BY VotesInvariant, <1>1, <1>2, <1>3, PTL DEF Spec

-----------------------------------------------------------------------------
(* Metrics messages that a crash swallowed *)

\* Event n still makes its handler send the message of its proposal: it is an
\* approval, which the property leaves out, or it comes again, and its handler
\* does not find that there is nothing to do.
Repairs(n) ==
  \/ history[n].kind = "approve"
  \/ /\ n > pos
     /\ \/ history[n].kind # "clear"
        \/ \E v \in votes : SameVoter(history[v], history[n])

StaleInv ==
  failed = {} =>
    \A p \in stale : \E n \in DOMAIN history : history[n].proposal = p /\ Repairs(n)

\* A step that leaves event n and the votes of other voters alone.
LEMMA RepairsStays ==
  ASSUME VotesInv, pos < Len(history), history' = history, pos' \in {pos, pos + 1},
         NEW n \in DOMAIN history, Repairs(n), n # pos + 1,
         \A v \in votes : ~SameVoter(history[v], history[pos + 1]) => v \in votes',
         votes' = votes \/ history[n].proposal # history[pos + 1].proposal
  PROVE  Repairs(n)'
<1>1. pos \in Nat /\ n \in 1 .. Len(history) /\ Len(history) \in Nat
  BY DEF VotesInv, TypeOK
<1>2. CASE history[n].kind = "approve"
  BY <1>2 DEF Repairs
<1>3. CASE n > pos /\ history[n].kind # "clear"
  BY <1>1, <1>3 DEF Repairs
<1>4. ASSUME n > pos, NEW v \in votes, SameVoter(history[v], history[n])
      PROVE  Repairs(n)'
  <2>1. v \in votes'
    BY <1>4 DEF SameVoter
  <2>2. n > pos'
    BY <1>1, <1>4
  <2> QED
    BY <1>4, <2>1, <2>2 DEF Repairs
<1> QED
  BY <1>2, <1>3, <1>4 DEF Repairs

\* A handler that writes leaves its own event to be delivered again.
LEMMA WrittenRepairs ==
  ASSUME VotesInv, StaleInv, pos < Len(history), Written(pos + 1),
         history[pos + 1].kind = "clear" =>
           \E v \in votes' : SameVoter(history[v], history[pos + 1]),
         \A v \in votes : ~SameVoter(history[v], history[pos + 1]) => v \in votes'
  PROVE  StaleInv'
<1>1. pos \in Nat /\ pos + 1 \in DOMAIN history
  BY NextEvent DEF VotesInv, TypeOK
<1>2. history' = history /\ pos' = pos /\ failed' = failed
  BY DEF Written
<1>3. ASSUME NEW n \in DOMAIN history, n = pos + 1
      PROVE  Repairs(n)'
  BY <1>1, <1>2, <1>3 DEF Repairs
<1>4. ASSUME failed = {}, NEW p \in stale', p # history[pos + 1].proposal
      PROVE  \E n \in DOMAIN history : history[n].proposal = p /\ Repairs(n)'
  <2>1. p \in stale
    BY <1>4 DEF Written
  <2>2. PICK n \in DOMAIN history : history[n].proposal = p /\ Repairs(n)
    BY <1>4, <2>1 DEF StaleInv
  <2>3. n # pos + 1
    BY <1>4, <2>2
  <2>4. Repairs(n)'
    BY <1>2, <1>4, <2>2, <2>3, RepairsStays
  <2> QED
    BY <2>2, <2>4
<1>5. ASSUME failed = {}, NEW p \in stale'
      PROVE  \E n \in DOMAIN history : history[n].proposal = p /\ Repairs(n)'
  <2>1. CASE p = history[pos + 1].proposal
    <3>1. PICK n \in DOMAIN history : n = pos + 1
      BY <1>1
    <3>2. history[n].proposal = p /\ Repairs(n)'
      BY <1>3, <2>1, <3>1
    <3> QED
      BY <3>2
  <2> QED
    BY <1>4, <1>5, <2>1
<1> QED
  BY <1>2, <1>5 DEF StaleInv

\* A handler that is done has sent the message, or had nothing to do.
LEMMA PassedRepairs ==
  ASSUME VotesInv, StaleInv, pos < Len(history), Passed, failed' = failed,
         \/ stale' = stale \ {history[pos + 1].proposal}
         \/ /\ stale' = stale
            /\ \/ history[pos + 1].kind = "approve"
               \/ /\ history[pos + 1].kind = "clear"
                  /\ \A v \in votes : ~SameVoter(history[v], history[pos + 1])
  PROVE  StaleInv'
<1>1. pos \in Nat
  BY DEF VotesInv, TypeOK
<1>2. history' = history /\ pos' = pos + 1 /\ votes' = votes
  BY DEF Passed, database
<1>3. ASSUME failed = {}, NEW p \in stale'
      PROVE  \E n \in DOMAIN history : history[n].proposal = p /\ Repairs(n)'
  <2>1. PICK n \in DOMAIN history : history[n].proposal = p /\ Repairs(n)
    BY <1>3 DEF StaleInv
  <2>2. CASE n # pos + 1
    BY <1>2, <2>1, <2>2, RepairsStays
  <2>3. CASE n = pos + 1
    <3>1. history[n].kind = "approve"
      BY <1>3, <2>1, <2>3 DEF Repairs
    <3>2. Repairs(n)'
      BY <1>2, <3>1 DEF Repairs
    <3> QED
      BY <2>1, <3>2
  <2> QED
    BY <2>1, <2>2, <2>3
<1> QED
  BY <1>2, <1>3 DEF StaleInv

LEMMA CastVoteRepairs ==
  ASSUME VotesInv, StaleInv, NEW kind \in {"cast", "harmony"}, CastVote(kind)
  PROVE  StaleInv'
<1>1. pos < Len(history) /\ history[pos + 1].kind = kind /\ Written(pos + 1)
  BY DEF CastVote, Handles
<1>2. \A v \in VotesOnPlugin(pos + 1) : SameVoter(history[v], history[pos + 1])
  BY DEF VotesOnPlugin
<1>3. PICK old \in SUBSET VotesOnPlugin(pos + 1) : ReplaceVote(pos + 1, old)
  BY DEF CastVote
<1>4. \A v \in votes : ~SameVoter(history[v], history[pos + 1]) => v \in votes'
  BY <1>2, <1>3 DEF ReplaceVote, database
<1> QED
  BY <1>1, <1>4, WrittenRepairs

LEMMA ApprovedRepairs ==
  ASSUME VotesInv, StaleInv, Approved
  PROVE  StaleInv'
<1>1. pos < Len(history) /\ history[pos + 1].kind = "approve"
  BY DEF Approved, Handles
<1>2. CASE Return
  BY <1>1, <1>2, PassedRepairs DEF Return
<1>3. CASE /\ votes' = IF DuplicateKey(pos + 1) THEN votes ELSE votes \union {pos + 1}
           /\ Written(pos + 1)
  BY <1>1, <1>3, WrittenRepairs
<1> QED
  BY <1>2, <1>3 DEF Approved

LEMMA VoteClearedRepairs ==
  ASSUME VotesInv, StaleInv, VoteCleared
  PROVE  StaleInv'
<1>1. pos < Len(history) /\ history[pos + 1].kind = "clear"
  BY DEF VoteCleared, Handles
<1>2. VotesOnPlugin(pos + 1) = {v \in votes : SameVoter(history[v], history[pos + 1])}
  BY <1>1, TheVote DEF VotesInv
<1>3. CASE VotesOnPlugin(pos + 1) = {} /\ Return
  BY <1>1, <1>2, <1>3, PassedRepairs DEF Return
<1>4. ASSUME NEW v \in VotesOnPlugin(pos + 1), UNCHANGED votes, Written(pos + 1)
      PROVE  StaleInv'
  BY <1>1, <1>2, <1>4, WrittenRepairs
<1> QED
  BY <1>3, <1>4 DEF VoteCleared

\* Whatever is redelivered, a proposal whose message was lost has an event
\* still to come whose handler sends it, or an approval: the early return of a
\* voteCleared that finds no vote never passes the last such event.
THEOREM StaleRepaired == Spec => []StaleIsRepaired
<1>1. Init => StaleInv
  BY DEF Init, StaleInv
<1>2. ASSUME VotesInv, StaleInv, [Next]_vars PROVE StaleInv'
  <2>1. CASE Approved
    BY <1>2, <2>1, ApprovedRepairs
  <2>2. CASE VoteCast \/ HarmonyVoteCast
    BY <1>2, <2>2, CastVoteRepairs DEF VoteCast, HarmonyVoteCast
  <2>3. CASE VoteCleared
    BY <1>2, <2>3, VoteClearedRepairs
  <2>4. CASE Notify
    <3>1. pos < Len(history)
      BY <1>2, <2>4 DEF Notify, VotesInv, TypeOK
    <3> QED
      BY <1>2, <2>4, <3>1, PassedRepairs DEF Notify
  <2>5. CASE HandlerFails
    BY <2>5 DEF HandlerFails, StaleInv
  <2>6. CASE SaveProgress \/ UNCHANGED vars
    <3>1. UNCHANGED <<history, votes, pos, stale, failed>>
      BY <2>6 DEF SaveProgress, vars, database
    <3> QED
      BY <1>2, <3>1 DEF StaleInv, Repairs
  <2>7. CASE Redeliver
    <3>1. UNCHANGED <<history, votes, stale, failed>>
      BY <2>7 DEF Redeliver, database
    <3>2. pos \in Nat /\ pos' \in 0 .. pos /\ DOMAIN history \subseteq Nat
      BY <1>2, <2>7 DEF Redeliver, VotesInv, TypeOK
    <3>3. ASSUME NEW n \in DOMAIN history, Repairs(n) PROVE Repairs(n)'
      BY <3>1, <3>2, <3>3 DEF Repairs
    <3> QED
      BY <1>2, <3>1, <3>3 DEF StaleInv
  <2> QED
    BY <1>2, <2>1, <2>2, <2>3, <2>4, <2>5, <2>6, <2>7 DEF Next
<1>3. VotesInv /\ StaleInv => StaleIsRepaired
  BY DEF StaleInv, StaleIsRepaired, Repairs
<1> QED
  BY VotesInvariant, <1>1, <1>2, <1>3, PTL DEF Spec
=============================================================================
