------------------------ MODULE HarmonyFinalizerProofs ------------------------
(***************************************************************************)
(* Proofs about HarmonyFinalizer: its type invariant, that a Merkle root    *)
(* computed again is the one on the contract, that an early close leaves    *)
(* out no vote, and that the binary search finds what it looks for, for any *)
(* number of runs, proposals, voters, blocks and faults.                    *)
(***************************************************************************)
EXTENDS HarmonyFinalizer, WellFoundedInduction, TLAPS

\* What a run has read is behind the head, and a run that is at a proposal
\* is at one the contract has.
AtProposal ==
  \A r \in Runners : /\ latest[r] <= head
                     /\ Count # 0 => next[r] \in Proposals
                     /\ pc[r] \notin {"idle", "timestamp"} => Count # 0

TypeInv == TypeOK /\ AtProposal

LEMMA InitTypeInv == Init => TypeInv
<1> SUFFICES ASSUME Init PROVE TypeInv
  OBVIOUS
<1>1. registry \in Seq(OptEvents) /\ votes \in [Proposals -> [Voters -> Blocks]]
  BY FinalizerConstants DEF Init
<1>2. 0 \in Blocks /\ faults \in Nat
  BY FinalizerConstants DEF Init, Blocks
<1>3. delay \in Nat /\ revalidate \in BOOLEAN
  BY FinalizerConstants DEF Init
<1>4. /\ root \in [Proposals -> SUBSET SUBSET Voters]
      /\ submitted \subseteq Proposals \X Voters /\ refused \subseteq Proposals \X Voters
      /\ early \subseteq closed /\ closed \subseteq Proposals /\ elected \subseteq Voters
  BY DEF Init
<1>5. sent \in Seq(Transactions) /\ pc \in [Runners -> Places] /\ head \in Blocks
  BY <1>2 DEF Init, Places
<1>6. latest \in [Runners -> Blocks] /\ now \in [Runners -> Nat] /\ next \in [Runners -> Nat \ {0}]
  BY <1>2 DEF Init
<1>7. /\ known \in [Runners -> SUBSET SUBSET Voters] /\ entries \in [Runners -> SUBSET Voters]
      /\ todo \in [Runners -> SUBSET Voters] /\ blocked \in [Runners -> SUBSET Proposals]
  BY DEF Init
<1>8. ASSUME NEW r \in Runners PROVE latest[r] <= head /\ pc[r] = "idle" /\ next[r] = 1
  BY DEF Init
<1>a. Count # 0 => 1 \in Proposals
  BY FinalizerConstants DEF Proposals
<1>9. TypeOK
  BY <1>1, <1>2, <1>3, <1>4, <1>5, <1>6, <1>7 DEF TypeOK
<1> QED
  BY <1>a, <1>8, <1>9 DEF TypeInv, AtProposal

-----------------------------------------------------------------------------
(* Moving from one proposal to the next, and what becomes of a transaction *)

\* What a step of a run leaves of where the runs are.
Moved(r) ==
  /\ pc' \in [Runners -> Places] /\ next' \in [Runners -> Nat \ {0}]
  /\ \A q \in Runners : Count # 0 => next'[q] \in Proposals
  /\ \A q \in Runners : q # r => pc'[q] = pc[q] /\ next'[q] = next[q]
  /\ pc'[r] # "entries"

LEMMA NextProposalMoves ==
  ASSUME TypeInv, Count # 0, NEW r \in Runners, NextProposal(r)
  PROVE  Moved(r)
<1>1. /\ pc \in [Runners -> Places] /\ next \in [Runners -> Nat \ {0}] /\ Count \in Nat
      /\ \A q \in Runners : next[q] \in 1 .. Count
  BY FinalizerConstants DEF TypeInv, TypeOK, AtProposal, Proposals
<1>2. DEFINE place == IF next[r] = Count THEN "idle" ELSE "proposal"
             number == IF next[r] = Count THEN 1 ELSE next[r] + 1
<1>3. place \in Places /\ place # "entries"
  BY DEF Places
<1>4. number \in Nat \ {0} /\ number \in 1 .. Count
  BY <1>1
<1>5. pc' = [pc EXCEPT ![r] = place] /\ next' = [next EXCEPT ![r] = number]
  BY DEF NextProposal
<1> HIDE DEF place, number
<1> QED
  BY <1>1, <1>3, <1>4, <1>5 DEF Moved, Proposals

LEMMA StaysMoves ==
  ASSUME TypeInv, Count # 0, NEW r \in Runners, NEW place \in Places, place # "entries",
         pc' = [pc EXCEPT ![r] = place], UNCHANGED next
  PROVE  Moved(r)
BY DEF TypeInv, TypeOK, AtProposal, Moved

LEMMA SettledMoves ==
  ASSUME TypeInv, Count # 0, NEW r \in Runners, NEW t \in Transactions, NEW ok,
         Settled(r, t, ok)
  PROVE  /\ Moved(r)
         /\ todo' \in [Runners -> SUBSET Voters] /\ refused' \subseteq Proposals \X Voters
<1>0. /\ todo \in [Runners -> SUBSET Voters] /\ refused \subseteq Proposals \X Voters
      /\ t.proposal \in Proposals /\ t.voter \subseteq Voters
  BY DEF TypeInv, TypeOK, Transactions
<1>1. CASE t.kind = "submitVotingPower"
  <2>1. Moved(r)
    BY <1>1, StaysMoves DEF Settled, Places
  <2>2. todo' \in [Runners -> SUBSET Voters]
    BY <1>0, <1>1 DEF Settled
  <2>3. refused' \subseteq Proposals \X Voters
    BY <1>0, <1>1 DEF Settled
  <2> QED
    BY <2>1, <2>2, <2>3
<1>2. CASE t.kind # "submitVotingPower"
  <2>1. Moved(r)
    BY <1>2, StaysMoves, NextProposalMoves DEF Settled, Places
  <2> QED
    BY <1>0, <1>2, <2>1 DEF Settled
<1> QED
  BY <1>1, <1>2

\* A transaction of the run is on its way, or the run goes on without it.
LEMMA SendMoves ==
  ASSUME TypeInv, Count # 0, NEW r \in Runners, NEW kind \in Kinds, NEW voter \in SUBSET Voters,
         entries' \in [Runners -> SUBSET Voters], Send(r, kind, voter)
  PROVE  /\ Moved(r)
         /\ todo' \in [Runners -> SUBSET Voters] /\ refused' \subseteq Proposals \X Voters
         /\ sent' \in Seq(Transactions) /\ faults' \in Nat
         /\ \/ sent' = sent
            \/ sent' = Append(sent, [kind |-> kind, proposal |-> next[r], entries |-> entries'[r],
                                     voter |-> voter, awaited |-> {r}])
<1> DEFINE t == [kind |-> kind, proposal |-> next[r], entries |-> entries'[r],
                 voter |-> voter, awaited |-> {r}]
<1>1. t \in Transactions
  BY DEF TypeInv, AtProposal, Transactions
<1>2. /\ todo \in [Runners -> SUBSET Voters] /\ refused \subseteq Proposals \X Voters
      /\ sent \in Seq(Transactions) /\ faults \in Nat
  BY DEF TypeInv, TypeOK
<1> HIDE DEF t
<1>3. CASE sent' = Append(sent, t) /\ pc' = [pc EXCEPT ![r] = "wait"]
           /\ UNCHANGED <<next, todo, refused, faults>>
  <2>1. Moved(r)
    BY <1>3, StaysMoves DEF Places
  <2>2. Append(sent, t) \in Seq(Transactions)
    BY <1>1, <1>2
  <2> QED
    BY <1>2, <1>3, <2>1, <2>2 DEF t
<1>4. CASE (UNCHANGED faults \/ Fault("transaction")) /\ Settled(r, t, FALSE) /\ UNCHANGED sent
  <2>1. faults' \in Nat
    BY <1>2, <1>4 DEF Fault
  <2> QED
    BY <1>1, <1>2, <1>4, <2>1, SettledMoves
<1> QED
  BY <1>3, <1>4 DEF Send, t

-----------------------------------------------------------------------------
(* The type invariant *)

\* What of it the steps of the runs leave alone, but for the head and the
\* settings, and for what the transactions do.
LEMMA MovedTypeInv ==
  ASSUME TypeInv, Count # 0, NEW r \in Runners, pc[r] \notin {"idle", "timestamp"} \/ sent # <<>>,
         UNCHANGED <<given, head, elected, latest, now>>, Moved(r),
         /\ root' \in [Proposals -> SUBSET SUBSET Voters] /\ submitted' \subseteq Proposals \X Voters
         /\ early' \subseteq closed' /\ closed' \subseteq Proposals
         /\ sent' \in Seq(Transactions)
         /\ known' \in [Runners -> SUBSET SUBSET Voters] /\ entries' \in [Runners -> SUBSET Voters]
         /\ todo' \in [Runners -> SUBSET Voters] /\ blocked' \in [Runners -> SUBSET Proposals]
         /\ refused' \subseteq Proposals \X Voters /\ faults' \in Nat
  PROVE  TypeInv'
<1>1. TypeOK'
  BY DEF TypeInv, TypeOK, Moved, given
<1>2. AtProposal'
  BY DEF TypeInv, AtProposal, Moved
<1> QED
  BY <1>1, <1>2 DEF TypeInv

LEMMA SendTypeInv ==
  ASSUME TypeInv, Count # 0, NEW r \in Runners, pc[r] \notin {"idle", "timestamp"},
         UNCHANGED <<given, head, elected, contract, latest, now>>,
         known' \in [Runners -> SUBSET SUBSET Voters], entries' \in [Runners -> SUBSET Voters],
         blocked' \in [Runners -> SUBSET Proposals],
         NEW kind \in Kinds, NEW voter \in SUBSET Voters, Send(r, kind, voter)
  PROVE  TypeInv'
<1>1. /\ Moved(r)
      /\ todo' \in [Runners -> SUBSET Voters] /\ refused' \subseteq Proposals \X Voters
      /\ sent' \in Seq(Transactions) /\ faults' \in Nat
  BY SendMoves
<1>2. /\ root' \in [Proposals -> SUBSET SUBSET Voters] /\ submitted' \subseteq Proposals \X Voters
      /\ early' \subseteq closed' /\ closed' \subseteq Proposals
  BY DEF TypeInv, TypeOK, contract
<1>3. UNCHANGED <<given, head, elected, latest, now>>
  OBVIOUS
<1> QED
  BY ONLY TypeInv, Count # 0, r \in Runners, pc[r] \notin {"idle", "timestamp"}, <1>1, <1>2, <1>3,
     known' \in [Runners -> SUBSET SUBSET Voters], entries' \in [Runners -> SUBSET Voters],
     blocked' \in [Runners -> SUBSET Proposals], MovedTypeInv

LEMMA EligibleVoters ==
  ASSUME TypeInv, NEW p
  PROVE  EligibleEntries(p) \subseteq Voters
BY DEF TypeInv, TypeOK, EligibleEntries, OptedIn

LEMMA ExamineTypeInv ==
  ASSUME TypeInv, NEW r \in Runners, Examine(r)
  PROVE  TypeInv' /\ Count # 0
<1>0. Count # 0 /\ next[r] \in Proposals
  BY DEF TypeInv, AtProposal, Examine
<1>1. /\ entries' \in [Runners -> SUBSET Voters] /\ known' \in [Runners -> SUBSET SUBSET Voters]
      /\ UNCHANGED <<given, head, elected, contract, latest, now, blocked>>
  BY <1>0 DEF TypeInv, TypeOK, Examine
<1>2. CASE NextProposal(r) /\ UNCHANGED <<sent, todo, refused, faults>>
  <2>1. pc[r] \notin {"idle", "timestamp"}
    BY DEF Examine
  <2>2. Moved(r)
    BY <1>0, <1>2, NextProposalMoves
  <2>3. /\ root' \in [Proposals -> SUBSET SUBSET Voters] /\ submitted' \subseteq Proposals \X Voters
        /\ early' \subseteq closed' /\ closed' \subseteq Proposals
        /\ sent' \in Seq(Transactions) /\ todo' \in [Runners -> SUBSET Voters]
        /\ refused' \subseteq Proposals \X Voters /\ faults' \in Nat
    BY <1>1, <1>2 DEF TypeInv, TypeOK, contract
  <2>4. blocked' \in [Runners -> SUBSET Proposals]
    BY <1>1 DEF TypeInv, TypeOK
  <2> QED
    BY <1>0, <1>1, <2>1, <2>2, <2>3, <2>4, MovedTypeInv
<1>3. CASE Send(r, "closeProposal", {})
  <2>1. /\ "closeProposal" \in Kinds /\ {} \in SUBSET Voters
        /\ pc[r] \notin {"idle", "timestamp"} /\ blocked' \in [Runners -> SUBSET Proposals]
    BY <1>1 DEF Examine, TypeInv, TypeOK, Kinds
  <2> QED
    BY <1>0, <1>1, <1>3, <2>1, SendTypeInv
<1>4. CASE pc' = [pc EXCEPT ![r] = "entries"] /\ UNCHANGED <<sent, next, todo, refused, faults>>
  <2>1. TypeOK'
    BY <1>1, <1>4 DEF TypeInv, TypeOK, given, contract, Places
  <2>2. AtProposal'
    BY <1>0, <1>1, <1>4 DEF TypeInv, TypeOK, AtProposal
  <2> QED
    BY <1>0, <2>1, <2>2 DEF TypeInv
<1> QED
  BY <1>0, <1>2, <1>3, <1>4 DEF Examine

LEMMA EntriesTypeInv ==
  ASSUME TypeInv, NEW r \in Runners, ComputeEntries(r)
  PROVE  TypeInv'
<1>0. Count # 0 /\ next[r] \in Proposals
  BY DEF TypeInv, AtProposal, ComputeEntries
<1>1. /\ entries' \in [Runners -> SUBSET Voters]
      /\ UNCHANGED <<given, head, elected, contract, latest, now, known>>
  BY EligibleVoters DEF TypeInv, TypeOK, ComputeEntries
<1>2. CASE Send(r, "setMerkleRoot", {}) /\ UNCHANGED blocked
  <2>1. /\ "setMerkleRoot" \in Kinds /\ {} \in SUBSET Voters /\ pc[r] \notin {"idle", "timestamp"}
        /\ blocked' \in [Runners -> SUBSET Proposals] /\ known' \in [Runners -> SUBSET SUBSET Voters]
    BY <1>1, <1>2 DEF ComputeEntries, TypeInv, TypeOK, Kinds
  <2> QED
    BY <1>0, <1>1, <1>2, <2>1, SendTypeInv
<1>3. CASE /\ blocked' = [blocked EXCEPT ![r] = @ \ {next[r]}]
           /\ pc' = [pc EXCEPT ![r] = "voters"]
           /\ UNCHANGED <<sent, next, todo, refused, faults>>
  <2>1. blocked' \in [Runners -> SUBSET Proposals]
    BY <1>3 DEF TypeInv, TypeOK
  <2>2. Moved(r)
    BY <1>0, <1>3, StaysMoves DEF Places
  <2>3. pc[r] \notin {"idle", "timestamp"}
    BY DEF ComputeEntries
  <2>4. /\ root' \in [Proposals -> SUBSET SUBSET Voters] /\ submitted' \subseteq Proposals \X Voters
        /\ early' \subseteq closed' /\ closed' \subseteq Proposals
        /\ sent' \in Seq(Transactions) /\ todo' \in [Runners -> SUBSET Voters]
        /\ known' \in [Runners -> SUBSET SUBSET Voters]
        /\ refused' \subseteq Proposals \X Voters /\ faults' \in Nat
    BY <1>1, <1>3 DEF TypeInv, TypeOK, contract
  <2> QED
    BY <1>0, <1>1, <2>1, <2>2, <2>3, <2>4, MovedTypeInv
<1>4. CASE /\ blocked' = [blocked EXCEPT ![r] = @ \union {next[r]}]
           /\ NextProposal(r)
           /\ UNCHANGED <<sent, todo, refused, faults>>
  <2>1. blocked' \in [Runners -> SUBSET Proposals]
    BY <1>0, <1>4 DEF TypeInv, TypeOK
  <2>2. Moved(r)
    BY <1>0, <1>4, NextProposalMoves
  <2>3. pc[r] \notin {"idle", "timestamp"}
    BY DEF ComputeEntries
  <2>4. /\ root' \in [Proposals -> SUBSET SUBSET Voters] /\ submitted' \subseteq Proposals \X Voters
        /\ early' \subseteq closed' /\ closed' \subseteq Proposals
        /\ sent' \in Seq(Transactions) /\ todo' \in [Runners -> SUBSET Voters]
        /\ known' \in [Runners -> SUBSET SUBSET Voters]
        /\ refused' \subseteq Proposals \X Voters /\ faults' \in Nat
    BY <1>1, <1>4 DEF TypeInv, TypeOK, contract
  <2> QED
    BY <1>0, <1>1, <2>1, <2>2, <2>3, <2>4, MovedTypeInv
<1> QED
  BY <1>2, <1>3, <1>4 DEF ComputeEntries

LEMMA GetVotersTypeInv ==
  ASSUME TypeInv, NEW r \in Runners, GetVoters(r)
  PROVE  TypeInv'
<1>0. Count # 0 /\ next[r] \in Proposals
  BY DEF TypeInv, AtProposal, GetVoters
<1>1. todo' \in [Runners -> SUBSET Voters]
  BY DEF TypeInv, TypeOK, GetVoters
<1>2. Moved(r)
  BY <1>0, NextProposalMoves, StaysMoves DEF GetVoters, Places
<1> QED
  BY <1>0, <1>1, <1>2, MovedTypeInv DEF GetVoters, TypeInv, TypeOK, contract

LEMMA PowerTypeInv ==
  ASSUME TypeInv, NEW r \in Runners, SubmitVotingPower(r) \/ OracleClose(r)
  PROVE  TypeInv'
<1>0. Count # 0 /\ next[r] \in Proposals
  BY DEF TypeInv, AtProposal, SubmitVotingPower, OracleClose
<1>1. /\ entries' \in [Runners -> SUBSET Voters] /\ pc[r] \notin {"idle", "timestamp"}
      /\ UNCHANGED <<given, head, elected, contract, latest, now, known, blocked>>
  BY DEF TypeInv, TypeOK, SubmitVotingPower, OracleClose
<1>2. CASE SubmitVotingPower(r)
  <2>1. PICK v \in todo[r] :
          IF <<next[r], v>> \in submitted
          THEN /\ todo' = [todo EXCEPT ![r] = @ \ {v}]
               /\ UNCHANGED <<sent, pc, next, refused, faults>>
          ELSE Send(r, "submitVotingPower", {v})
    BY <1>2 DEF SubmitVotingPower
  <2>2. v \in Voters
    BY DEF TypeInv, TypeOK
  <2>3. CASE <<next[r], v>> \in submitted
    <3>1. todo \in [Runners -> SUBSET Voters] /\ todo' = [todo EXCEPT ![r] = todo[r] \ {v}]
      BY <2>1, <2>3 DEF TypeInv, TypeOK
    <3>2. todo' \in [Runners -> SUBSET Voters]
      BY <3>1
    <3> QED
      BY <1>1, <2>1, <2>3, <3>2 DEF TypeInv, TypeOK, AtProposal, given, contract
  <2>4. CASE <<next[r], v>> \notin submitted
    <3>1. /\ "submitVotingPower" \in Kinds /\ {v} \in SUBSET Voters
          /\ blocked' \in [Runners -> SUBSET Proposals] /\ known' \in [Runners -> SUBSET SUBSET Voters]
      BY <1>1, <2>2 DEF TypeInv, TypeOK, Kinds
    <3> QED
      BY <1>0, <1>1, <2>1, <2>4, <3>1, SendTypeInv
  <2> QED
    BY <2>3, <2>4
<1>3. CASE OracleClose(r)
  <2>1. /\ "oracleCloseProposal" \in Kinds /\ {} \in SUBSET Voters
        /\ blocked' \in [Runners -> SUBSET Proposals] /\ known' \in [Runners -> SUBSET SUBSET Voters]
    BY <1>1 DEF TypeInv, TypeOK, Kinds
  <2> QED
    BY <1>0, <1>1, <1>3, <2>1, SendTypeInv DEF OracleClose
<1> QED
  BY <1>2, <1>3

\* A transaction on its way is of a proposal the contract has.
LEMMA SentType ==
  ASSUME TypeInv, NEW i \in DOMAIN sent
  PROVE  sent[i] \in Transactions /\ Count # 0
<1>1. sent \in Seq(Transactions)
  BY DEF TypeInv, TypeOK
<1>2. sent[i] \in Transactions
  BY <1>1
<1>3. sent[i].proposal \in 1 .. Count
  BY <1>2 DEF Transactions, Proposals
<1> QED
  BY <1>2, <1>3, FinalizerConstants

LEMMA DesertedType ==
  ASSUME TypeInv, NEW r \in Runners
  PROVE  Deserted(r) \in Seq(Transactions)
<1>1. sent \in Seq(Transactions) /\ Len(sent) \in Nat /\ DOMAIN sent = 1 .. Len(sent)
  BY DEF TypeInv, TypeOK
<1>2. ASSUME NEW i \in 1 .. Len(sent)
      PROVE  [sent[i] EXCEPT !.awaited = @ \ {r}] \in Transactions
  <2>1. sent[i] \in Transactions
    BY <1>1
  <2> QED
    BY <2>1 DEF Transactions
<1>3. Deserted(r) = [i \in 1 .. Len(sent) |-> [sent[i] EXCEPT !.awaited = @ \ {r}]]
  BY <1>1 DEF Deserted
<1> DEFINE d == [i \in 1 .. Len(sent) |-> [sent[i] EXCEPT !.awaited = @ \ {r}]]
<1>4. d \in [1 .. Len(sent) -> Transactions]
  BY <1>2
<1> HIDE DEF d
<1>5. d \in Seq(Transactions)
  BY <1>1, <1>4
<1> QED
  BY <1>3, <1>5 DEF d

LEMMA ApplyType ==
  ASSUME TypeInv, NEW t \in Transactions, Apply(t)
  PROVE  /\ root' \in [Proposals -> SUBSET SUBSET Voters] /\ submitted' \subseteq Proposals \X Voters
         /\ early' \subseteq closed' /\ closed' \subseteq Proposals
<1>0. t.proposal \in Proposals /\ t.voter \subseteq Voters /\ t.entries \subseteq Voters
  BY DEF Transactions
<1>1. root' \in [Proposals -> SUBSET SUBSET Voters]
  BY <1>0 DEF TypeInv, TypeOK, Apply
<1>2. submitted' \subseteq Proposals \X Voters
  BY <1>0 DEF TypeInv, TypeOK, Apply
<1>3. early' \subseteq closed' /\ closed' \subseteq Proposals
  BY <1>0 DEF TypeInv, TypeOK, Apply
<1> QED
  BY <1>1, <1>2, <1>3

LEMMA MinedTypeInv ==
  ASSUME TypeInv, TransactionMined
  PROVE  TypeInv'
<1> DEFINE t == Head(sent)
<1>1. sent \in Seq(Transactions) /\ sent # <<>> /\ 1 \in DOMAIN sent /\ t = sent[1]
  BY DEF TransactionMined, TypeInv, TypeOK
<1>2. t \in Transactions /\ Count # 0
  BY <1>1, SentType
<1>3. sent' \in Seq(Transactions)
  BY <1>1 DEF TransactionMined
<1>4. /\ root' \in [Proposals -> SUBSET SUBSET Voters] /\ submitted' \subseteq Proposals \X Voters
      /\ early' \subseteq closed' /\ closed' \subseteq Proposals
  <2>1. CASE Apply(t)
    BY <1>2, <2>1, ApplyType
  <2>2. CASE UNCHANGED contract
    BY <2>2 DEF TypeInv, TypeOK, contract
  <2> QED
    BY <2>1, <2>2 DEF TransactionMined
<1>5. UNCHANGED <<given, head, elected, latest, now, known, entries, blocked, faults>>
  BY DEF TransactionMined
<1>6. /\ known' \in [Runners -> SUBSET SUBSET Voters] /\ entries' \in [Runners -> SUBSET Voters]
      /\ blocked' \in [Runners -> SUBSET Proposals] /\ faults' \in Nat
  BY <1>5 DEF TypeInv, TypeOK
<1> HIDE DEF t
<1>7. CASE UNCHANGED <<pc, next, todo, refused>>
  BY <1>3, <1>4, <1>5, <1>6, <1>7 DEF TypeInv, TypeOK, AtProposal, given
<1>8. ASSUME NEW r \in t.awaited, Settled(r, t, Accepts(t))
      PROVE  TypeInv'
  <2>1. r \in Runners
    BY <1>2 DEF Transactions
  <2>2. /\ Moved(r) /\ todo' \in [Runners -> SUBSET Voters]
        /\ refused' \subseteq Proposals \X Voters
    BY <1>2, <1>8, <2>1, SettledMoves
  <2>3. UNCHANGED <<given, head, elected, latest, now>>
    BY <1>5
  <2> QED
    BY <1>1, <1>2, <1>3, <1>4, <1>6, <2>1, <2>2, <2>3, MovedTypeInv
<1>9. UNCHANGED <<pc, next, todo, refused>> \/ \E r \in t.awaited : Settled(r, t, Accepts(t))
  BY Zenon DEF TransactionMined, t
<1> QED
  BY <1>7, <1>8, <1>9

LEMMA FaultTypeInv ==
  ASSUME TypeInv, NEW r \in Runners, WaitFails(r) \/ RpcFails(r) \/ Crash(r)
  PROVE  TypeInv'
<1>1. faults' \in Nat
  <2>1. \E k : Fault(k)
    BY DEF WaitFails, RpcFails, Crash
  <2> QED
    BY <2>1 DEF TypeInv, TypeOK, Fault
<1>2. CASE WaitFails(r)
  <2>1. PICK i \in DOMAIN sent : Settled(r, sent[i], FALSE)
    BY <1>2 DEF WaitFails
  <2>2. sent[i] \in Transactions /\ Count # 0
    BY SentType
  <2>3. /\ Moved(r) /\ todo' \in [Runners -> SUBSET Voters]
        /\ refused' \subseteq Proposals \X Voters
    BY <2>1, <2>2, SettledMoves
  <2>4. sent' \in Seq(Transactions) /\ pc[r] \notin {"idle", "timestamp"}
    BY <1>2, DesertedType DEF WaitFails
  <2>5. /\ root' \in [Proposals -> SUBSET SUBSET Voters] /\ submitted' \subseteq Proposals \X Voters
        /\ early' \subseteq closed' /\ closed' \subseteq Proposals
        /\ known' \in [Runners -> SUBSET SUBSET Voters] /\ entries' \in [Runners -> SUBSET Voters]
        /\ blocked' \in [Runners -> SUBSET Proposals]
        /\ UNCHANGED <<given, head, elected, latest, now>>
    BY <1>2 DEF WaitFails, TypeInv, TypeOK, contract
  <2> QED
    BY <1>1, <2>2, <2>3, <2>4, <2>5, MovedTypeInv
<1>3. CASE RpcFails(r)
  BY <1>1, <1>3 DEF RpcFails, TypeInv, TypeOK, AtProposal, given, contract, local, Places
<1>4. CASE Crash(r)
  <2>1. sent' \in Seq(Transactions)
    BY <1>4, DesertedType DEF Crash
  <2>2. blocked' \in [Runners -> SUBSET Proposals] /\ pc' \in [Runners -> Places]
    BY <1>4 DEF Crash, TypeInv, TypeOK, Places
  <2>3. TypeOK'
    BY <1>1, <1>4, <2>1, <2>2 DEF Crash, TypeInv, TypeOK, given, contract
  <2>4. AtProposal'
    BY <1>4 DEF Crash, TypeInv, TypeOK, AtProposal
  <2> QED
    BY <2>3, <2>4 DEF TypeInv
<1> QED
  BY <1>2, <1>3, <1>4

LEMMA StepTypeInv ==
  ASSUME TypeInv, [Next]_vars
  PROVE  TypeInv'
<1>1. CASE MineBlock
  <2>1. head' = head + 1 /\ head' \in Blocks /\ head \in Nat
    BY <1>1, FinalizerConstants DEF MineBlock, TypeInv, TypeOK, Blocks
  <2>2. \A r \in Runners : latest[r] \in Nat
    BY DEF TypeInv, TypeOK, Blocks
  <2>3. AtProposal'
    BY <1>1, <2>1, <2>2 DEF MineBlock, TypeInv, AtProposal, local
  <2> QED
    BY <1>1, <2>1, <2>3 DEF MineBlock, TypeInv, TypeOK, given, contract, local
<1>2. CASE Election
  <2>1. faults' \in Nat /\ elected' \subseteq Voters
    BY <1>2 DEF Election, Fault, TypeInv, TypeOK
  <2> QED
    BY <1>2, <2>1 DEF Election, TypeInv, TypeOK, AtProposal, given, contract, local
<1>3. ASSUME NEW r \in Runners, Start(r)
      PROVE  TypeInv'
  <2>1. head \in Nat
    BY FinalizerConstants DEF TypeInv, TypeOK, Blocks
  <2>2. AtProposal'
    BY <1>3, <2>1 DEF Start, TypeInv, TypeOK, AtProposal
  <2>3. TypeOK'
    BY <1>3 DEF Start, TypeInv, TypeOK, given, contract, Places
  <2> QED
    BY <2>2, <2>3 DEF TypeInv
<1>4. ASSUME NEW r \in Runners, ReadTimestamp(r)
      PROVE  TypeInv'
  <2>1. Timestamp[head] \in Nat /\ (Count # 0 => 1 \in Proposals)
    BY FinalizerConstants DEF TypeInv, TypeOK, Proposals
  <2>2. AtProposal'
    BY <1>4, <2>1 DEF ReadTimestamp, TypeInv, TypeOK, AtProposal
  <2>3. pc' \in [Runners -> Places]
    BY <1>4 DEF ReadTimestamp, TypeInv, TypeOK, Places
  <2>4. TypeOK'
    BY <1>4, <2>1, <2>3 DEF ReadTimestamp, TypeInv, TypeOK, given, contract
  <2> QED
    BY <2>2, <2>4 DEF TypeInv
<1>5. CASE UNCHANGED vars
  BY <1>5 DEF vars, TypeInv, TypeOK, AtProposal, given, contract, local
<1> QED
  BY <1>1, <1>2, <1>3, <1>4, <1>5, MinedTypeInv, FaultTypeInv, ExamineTypeInv, EntriesTypeInv,
     GetVotersTypeInv, PowerTypeInv DEF Next, Step

\* Every variable of the finalizer stays in its set: a run is always at a
\* proposal the contract has.
THEOREM FinalizerTypeCorrect == Spec => []TypeOK
<1>1. TypeInv => TypeOK
  BY DEF TypeInv
<1> QED
  BY InitTypeInv, StepTypeInv, <1>1, PTL DEF Spec

-----------------------------------------------------------------------------
(* The root is computed the same way every time *)

\* A root of the proposal, where the registry names somebody.
RootFor(p, S) == OptedIn(Snapshot[p]) # {} => S = OptedIn(Snapshot[p])

RootInv ==
  /\ \A p \in Proposals : \A S \in root[p] : RootFor(p, S)
  /\ \A r \in Runners : \A p \in blocked[r] : OptedIn(Snapshot[p]) = {}
  /\ \A i \in DOMAIN sent :
       sent[i].kind = "setMerkleRoot" => RootFor(sent[i].proposal, sent[i].entries)
  /\ \A r \in Runners : pc[r] = "entries" =>
       /\ Snapshot[next[r]] <= latest[r]
       /\ \A S \in known[r] : RootFor(next[r], S)

LEMMA RootInvImplies ==
  ASSUME TypeInv, RootInv
  PROVE  RootRecomputed
BY DEF TypeInv, TypeOK, RootInv, RootFor, RootRecomputed

LEMMA InitRootInv == Init => RootInv
BY DEF Init, RootInv

\* The registry is history: what a block says of it stays.
LEMMA RootForStays ==
  ASSUME UNCHANGED given, NEW p, NEW S
  PROVE  RootFor(p, S)' <=> RootFor(p, S)
BY DEF given, RootFor, OptedIn

\* The parts of the invariant a step of a run does not disturb.
LEMMA MovedRootInv ==
  ASSUME TypeInv, RootInv, NEW r \in Runners, Moved(r),
         UNCHANGED <<given, root, blocked, latest>>,
         \A q \in Runners : q # r => known'[q] = known[q],
         \A i \in DOMAIN sent' :
           sent'[i].kind = "setMerkleRoot" => RootFor(sent'[i].proposal, sent'[i].entries)
  PROVE  RootInv'
<1>1. \A p, S : RootFor(p, S)' <=> RootFor(p, S)
  BY RootForStays
<1>2. \A p : OptedIn(Snapshot[p])' = OptedIn(Snapshot[p])
  BY DEF given, OptedIn
<1> HIDE DEF RootFor
<1>3. ASSUME NEW q \in Runners, pc'[q] = "entries"
      PROVE  /\ Snapshot[next'[q]] <= latest'[q]
             /\ \A S \in known'[q] : RootFor(next'[q], S)
  BY <1>3 DEF RootInv, Moved
<1> QED
  BY <1>1, <1>2, <1>3 DEF RootInv

\* What is appended to the queue of transactions.
LEMMA SendRoot ==
  ASSUME TypeInv, RootInv, Count # 0, NEW r \in Runners, NEW kind \in Kinds,
         NEW voter \in SUBSET Voters,
         entries' \in [Runners -> SUBSET Voters], Send(r, kind, voter),
         kind = "setMerkleRoot" => RootFor(next[r], entries'[r])
  PROVE  \A i \in DOMAIN sent' :
           sent'[i].kind = "setMerkleRoot" => RootFor(sent'[i].proposal, sent'[i].entries)
<1> DEFINE t == [kind |-> kind, proposal |-> next[r], entries |-> entries'[r],
                 voter |-> voter, awaited |-> {r}]
<1>1. sent' = sent \/ sent' = Append(sent, t)
  BY SendMoves
<1>2. sent \in Seq(Transactions)
  BY DEF TypeInv, TypeOK
<1>3. t.kind = "setMerkleRoot" => RootFor(t.proposal, t.entries)
  OBVIOUS
<1> HIDE DEF t, RootFor
<1>4. CASE sent' = Append(sent, t)
  <2>1. ASSUME NEW i \in DOMAIN sent'
        PROVE  sent'[i] = t \/ (i \in DOMAIN sent /\ sent'[i] = sent[i])
    BY <1>2, <1>4
  <2> QED
    BY <1>3, <2>1 DEF RootInv
<1> QED
  BY <1>1, <1>4 DEF RootInv

LEMMA ExamineRootInv ==
  ASSUME TypeInv, RootInv, NEW r \in Runners, Examine(r)
  PROVE  RootInv'
<1>0. /\ Count # 0 /\ next[r] \in Proposals
      /\ UNCHANGED <<given, root, blocked, latest>>
      /\ \A q \in Runners : q # r => known'[q] = known[q]
      /\ entries' \in [Runners -> SUBSET Voters] /\ known'[r] = root[next[r]]
  BY DEF TypeInv, TypeOK, AtProposal, Examine, contract
<1>1. CASE NextProposal(r) /\ UNCHANGED sent
  <2>1. Moved(r)
    BY <1>0, <1>1, NextProposalMoves
  <2>2. \A p, S : RootFor(p, S)' <=> RootFor(p, S)
    BY <1>0, RootForStays
  <2>3. \A i \in DOMAIN sent' :
           sent'[i].kind = "setMerkleRoot" => RootFor(sent'[i].proposal, sent'[i].entries)
    BY <1>1 DEF RootInv
  <2> QED
    BY <1>0, <2>1, <2>3, MovedRootInv
<1>2. CASE Send(r, "closeProposal", {})
  <2>1. "closeProposal" \in Kinds /\ {} \in SUBSET Voters
    BY DEF Kinds
  <2>2. Moved(r)
    BY <1>0, <1>2, <2>1, SendMoves
  <2>3. \A i \in DOMAIN sent' :
           sent'[i].kind = "setMerkleRoot" => RootFor(sent'[i].proposal, sent'[i].entries)
    BY <1>0, <1>2, <2>1, SendRoot
  <2> QED
    BY <1>0, <2>2, <2>3, MovedRootInv
<1>3. CASE /\ Ready(r, next[r]) /\ pc' = [pc EXCEPT ![r] = "entries"]
           /\ UNCHANGED <<sent, next>>
  <2>1. \A p, S : RootFor(p, S)' <=> RootFor(p, S)
    BY <1>0, RootForStays
  <2>2. \A p : OptedIn(Snapshot[p])' = OptedIn(Snapshot[p])
    BY <1>0 DEF given, OptedIn
  <2>3. \A q \in Runners : pc'[q] = "entries" <=> (q = r \/ pc[q] = "entries")
    BY <1>3 DEF TypeInv, TypeOK
  <2>4. Snapshot[next[r]] <= latest[r]
    BY <1>3 DEF Ready
  <2> HIDE DEF RootFor
  <2>5. \A S \in known'[r] : RootFor(next[r], S)
    BY <1>0 DEF RootInv
  <2>6. ASSUME NEW q \in Runners, pc'[q] = "entries"
        PROVE  /\ Snapshot[next'[q]] <= latest'[q]
               /\ \A S \in known'[q] : RootFor(next'[q], S)
    BY <1>0, <1>3, <2>3, <2>4, <2>5, <2>6 DEF RootInv
  <2> QED
    BY <1>0, <1>3, <2>1, <2>2, <2>6 DEF RootInv
<1> QED
  BY <1>1, <1>2, <1>3 DEF Examine

\* What is computed is what the registry says at the snapshot, also where the
\* head has moved on.
LEMMA EligibleFor ==
  ASSUME TypeInv, RootInv, NEW r \in Runners, pc[r] = "entries", next[r] \in Proposals
  PROVE  OptedIn(Snapshot[next[r]]) # {} =>
           EligibleEntries(next[r]) = OptedIn(Snapshot[next[r]])
<1>1. Snapshot[next[r]] \in Nat /\ latest[r] \in Nat /\ head \in Nat
  BY FinalizerConstants DEF TypeInv, TypeOK, Blocks
<1>2. Snapshot[next[r]] <= latest[r] /\ latest[r] <= head
  BY DEF TypeInv, AtProposal, RootInv
<1>3. Min2(Snapshot[next[r]], head) = Snapshot[next[r]]
  BY <1>1, <1>2 DEF Min2
<1> QED
  BY <1>3 DEF EligibleEntries

LEMMA EntriesRootInv ==
  ASSUME TypeInv, RootInv, NEW r \in Runners, ComputeEntries(r)
  PROVE  RootInv'
<1> DEFINE p == next[r]
<1>0. /\ Count # 0 /\ p \in Proposals /\ pc[r] = "entries"
      /\ UNCHANGED <<given, root, latest, known>>
  BY DEF TypeInv, TypeOK, AtProposal, ComputeEntries, contract
<1>1. OptedIn(Snapshot[p]) # {} => EligibleEntries(p) = OptedIn(Snapshot[p])
  BY <1>0, EligibleFor
<1>2. \A S \in known[r] : RootFor(p, S)
  BY <1>0 DEF RootInv
<1>3. CASE Send(r, "setMerkleRoot", {}) /\ UNCHANGED blocked
  <2>1. "setMerkleRoot" \in Kinds /\ {} \in SUBSET Voters
    BY DEF Kinds
  <2>2. entries' \in [Runners -> SUBSET Voters] /\ entries'[r] = EligibleEntries(p)
    BY EligibleVoters DEF TypeInv, TypeOK, ComputeEntries
  <2>3. RootFor(p, entries'[r])
    BY <1>1, <2>2 DEF RootFor
  <2>4. Moved(r)
    BY <1>0, <1>3, <2>1, <2>2, SendMoves
  <2>5. \A i \in DOMAIN sent' :
           sent'[i].kind = "setMerkleRoot" => RootFor(sent'[i].proposal, sent'[i].entries)
    BY <1>0, <1>3, <2>1, <2>2, <2>3, SendRoot
  <2> QED
    BY <1>0, <1>3, <2>4, <2>5, MovedRootInv
<1>4. CASE Moved(r) /\ UNCHANGED sent
           /\ \A q \in Runners : \A x \in blocked'[q] : x \in blocked[q] \/ OptedIn(Snapshot[x]) = {}
  <2>1. \A x, S : RootFor(x, S)' <=> RootFor(x, S)
    BY <1>0, RootForStays
  <2>2. \A x : OptedIn(Snapshot[x])' = OptedIn(Snapshot[x])
    BY <1>0 DEF given, OptedIn
  <2> HIDE DEF RootFor, p
  <2>3. ASSUME NEW q \in Runners, pc'[q] = "entries"
        PROVE  /\ Snapshot[next'[q]] <= latest'[q]
               /\ \A S \in known'[q] : RootFor(next'[q], S)
    BY <1>0, <1>4, <2>3 DEF RootInv, Moved
  <2> QED
    BY <1>0, <1>4, <2>1, <2>2, <2>3 DEF RootInv
<1>5. CASE /\ blocked' = [blocked EXCEPT ![r] = @ \ {p}] /\ pc' = [pc EXCEPT ![r] = "voters"]
           /\ UNCHANGED <<sent, next>>
  <2>1. Moved(r)
    BY <1>0, <1>5, StaysMoves DEF Places
  <2>2. \A q \in Runners : blocked'[q] \subseteq blocked[q]
    BY <1>5 DEF TypeInv, TypeOK
  <2> QED
    BY <1>4, <1>5, <2>1, <2>2
<1>6. CASE /\ blocked' = [blocked EXCEPT ![r] = @ \union {p}] /\ NextProposal(r)
           /\ known[r] # {} /\ known[r] # {EligibleEntries(p)} /\ UNCHANGED sent
  <2>1. OptedIn(Snapshot[p]) = {}
    <3> SUFFICES ASSUME OptedIn(Snapshot[p]) # {} PROVE FALSE
      OBVIOUS
    <3>1. \A S \in known[r] : S = EligibleEntries(p)
      BY <1>1, <1>2 DEF RootFor
    <3> QED
      BY <1>6, <3>1
  <2>2. \A q \in Runners : \A x \in blocked'[q] : x \in blocked[q] \/ x = p
    BY <1>6 DEF TypeInv, TypeOK
  <2>3. Moved(r)
    BY <1>0, <1>6, NextProposalMoves
  <2> QED
    BY <1>4, <1>6, <2>1, <2>2, <2>3
<1> QED
  BY <1>3, <1>5, <1>6 DEF ComputeEntries

\* Steps that touch no root, and move at most one run, not to "entries".
LEMMA QuietRootInv ==
  ASSUME TypeInv, RootInv, UNCHANGED <<given, root>>,
         \A q \in Runners : pc'[q] = "entries" =>
           pc[q] = "entries" /\ next'[q] = next[q] /\ latest'[q] = latest[q] /\ known'[q] = known[q],
         \A q \in Runners : blocked'[q] \subseteq blocked[q],
         \A i \in DOMAIN sent' : \E j \in DOMAIN sent :
           sent'[i].kind = sent[j].kind /\ sent'[i].proposal = sent[j].proposal
             /\ sent'[i].entries = sent[j].entries
  PROVE  RootInv'
<1>1. \A p, S : RootFor(p, S)' <=> RootFor(p, S)
  BY RootForStays
<1>2. \A p : OptedIn(Snapshot[p])' = OptedIn(Snapshot[p])
  BY DEF given, OptedIn
<1> HIDE DEF RootFor
<1>3. ASSUME NEW i \in DOMAIN sent', sent'[i].kind = "setMerkleRoot"
      PROVE  RootFor(sent'[i].proposal, sent'[i].entries)
  <2>1. PICK j \in DOMAIN sent : sent'[i].kind = sent[j].kind /\ sent'[i].proposal = sent[j].proposal
                                   /\ sent'[i].entries = sent[j].entries
    OBVIOUS
  <2> QED
    BY <1>3, <2>1 DEF RootInv
<1> QED
  BY <1>1, <1>2, <1>3 DEF RootInv

LEMMA PowerRootInv ==
  ASSUME TypeInv, RootInv, NEW r \in Runners,
         GetVoters(r) \/ SubmitVotingPower(r) \/ OracleClose(r)
  PROVE  RootInv'
<1>0. /\ Count # 0 /\ next[r] \in Proposals
      /\ UNCHANGED <<given, root, blocked, latest, known>>
  BY DEF TypeInv, AtProposal, GetVoters, SubmitVotingPower, OracleClose, contract
<1>1. CASE GetVoters(r)
  <2>1. Moved(r)
    BY <1>0, <1>1, NextProposalMoves, StaysMoves DEF GetVoters, Places
  <2>2. UNCHANGED sent
    BY <1>1 DEF GetVoters
  <2>3. \A i \in DOMAIN sent' :
           sent'[i].kind = "setMerkleRoot" => RootFor(sent'[i].proposal, sent'[i].entries)
    BY <2>2 DEF RootInv
  <2> QED
    BY <1>0, <2>1, <2>3, MovedRootInv
<1>2. ASSUME UNCHANGED entries, NEW kind \in Kinds, kind # "setMerkleRoot",
             NEW voter \in SUBSET Voters, Send(r, kind, voter)
      PROVE  RootInv'
  <2>1. entries' \in [Runners -> SUBSET Voters]
    BY <1>2 DEF TypeInv, TypeOK
  <2>2. Moved(r)
    BY <1>0, <1>2, <2>1, SendMoves
  <2>3. \A i \in DOMAIN sent' :
           sent'[i].kind = "setMerkleRoot" => RootFor(sent'[i].proposal, sent'[i].entries)
    BY <1>0, <1>2, <2>1, SendRoot
  <2> QED
    BY <1>0, <2>2, <2>3, MovedRootInv
<1>3. CASE SubmitVotingPower(r)
  <2>1. PICK v \in todo[r] :
          IF <<next[r], v>> \in submitted
          THEN /\ todo' = [todo EXCEPT ![r] = @ \ {v}]
               /\ UNCHANGED <<sent, pc, next, refused, faults>>
          ELSE Send(r, "submitVotingPower", {v})
    BY <1>3 DEF SubmitVotingPower
  <2>2. {v} \in SUBSET Voters /\ "submitVotingPower" \in Kinds
    BY DEF TypeInv, TypeOK, Kinds
  <2>3. CASE UNCHANGED <<sent, pc, next>>
    BY <1>0, <2>3, QuietRootInv
  <2> QED
    BY <1>2, <1>3, <2>1, <2>2, <2>3 DEF SubmitVotingPower
<1>4. CASE OracleClose(r)
  <2>1. "oracleCloseProposal" \in Kinds /\ {} \in SUBSET Voters
    BY DEF Kinds
  <2> QED
    BY <1>2, <1>4, <2>1 DEF OracleClose
<1> QED
  BY <1>1, <1>3, <1>4

LEMMA MinedRootInv ==
  ASSUME TypeInv, RootInv, TransactionMined
  PROVE  RootInv'
<1> DEFINE t == Head(sent)
<1>0. sent \in Seq(Transactions) /\ sent # <<>> /\ 1 \in DOMAIN sent /\ t = sent[1] /\ sent' = Tail(sent)
  BY DEF TransactionMined, TypeInv, TypeOK
<1>1. t \in Transactions /\ Count # 0
  BY <1>0, SentType
<1>2. UNCHANGED <<given, latest, known, blocked>>
  BY DEF TransactionMined
<1>3. \A p, S : RootFor(p, S)' <=> RootFor(p, S)
  BY <1>2, RootForStays
<1>4. \A p : OptedIn(Snapshot[p])' = OptedIn(Snapshot[p])
  BY <1>2 DEF given, OptedIn
<1>5. UNCHANGED <<pc, next>> \/ \E r \in t.awaited : Settled(r, t, Accepts(t))
  BY Zenon DEF TransactionMined, t
<1>6. UNCHANGED <<pc, next>> \/ \E r \in Runners : Moved(r)
  <2>1. ASSUME NEW r \in t.awaited, Settled(r, t, Accepts(t)) PROVE r \in Runners /\ Moved(r)
    <3>1. r \in Runners
      BY <1>1 DEF Transactions
    <3> QED
      BY <1>1, <2>1, <3>1, SettledMoves
  <2> QED
    BY <1>5, <2>1
<1>7. UNCHANGED root \/ (t.kind = "setMerkleRoot" /\ root' = [root EXCEPT ![t.proposal] = {t.entries}])
  <2>1. Apply(t) \/ UNCHANGED contract
    BY DEF TransactionMined
  <2> HIDE DEF t
  <2> QED
    BY <2>1 DEF Apply, contract
<1>8. ASSUME NEW i \in DOMAIN sent', sent'[i].kind = "setMerkleRoot"
      PROVE  RootFor(sent'[i].proposal, sent'[i].entries)
  <2>1. i + 1 \in DOMAIN sent /\ sent'[i] = sent[i + 1]
    BY <1>0
  <2> QED
    BY <1>8, <2>1 DEF RootInv
<1>9. ASSUME NEW p \in Proposals, NEW S \in root'[p]
      PROVE  RootFor(p, S)
  <2>1. CASE S \in root[p]
    BY <2>1 DEF RootInv
  <2>2. CASE t.kind = "setMerkleRoot" /\ p = t.proposal /\ S = t.entries
    BY <1>0, <2>2 DEF RootInv
  <2> HIDE DEF t
  <2> QED
    BY <1>7, <2>1, <2>2 DEF TypeInv, TypeOK
<1>10. ASSUME NEW q \in Runners, pc'[q] = "entries"
       PROVE  /\ Snapshot[next'[q]] <= latest'[q]
              /\ \A S \in known'[q] : RootFor(next'[q], S)
  <2>1. pc[q] = "entries" /\ next'[q] = next[q]
    BY <1>6, <1>10 DEF Moved
  <2> QED
    BY <1>2, <2>1 DEF RootInv
<1> HIDE DEF RootFor
<1> QED
  BY <1>2, <1>3, <1>4, <1>8, <1>9, <1>10 DEF RootInv

LEMMA FaultRootInv ==
  ASSUME TypeInv, RootInv, NEW r \in Runners, WaitFails(r) \/ RpcFails(r) \/ Crash(r)
  PROVE  RootInv'
<1>1. \A i \in DOMAIN Deserted(r) :
        /\ i \in DOMAIN sent /\ Deserted(r)[i].kind = sent[i].kind
        /\ Deserted(r)[i].proposal = sent[i].proposal /\ Deserted(r)[i].entries = sent[i].entries
  <2>1. ASSUME NEW i \in DOMAIN sent PROVE sent[i] \in Transactions
    BY SentType
  <2> QED
    BY <2>1 DEF Deserted, Transactions
<1>2. CASE WaitFails(r)
  <2>1. PICK i \in DOMAIN sent : Settled(r, sent[i], FALSE)
    BY <1>2 DEF WaitFails
  <2>2. Moved(r)
    BY <2>1, SentType, SettledMoves
  <2>3. /\ UNCHANGED <<given, root, latest, known, blocked>> /\ sent' = Deserted(r)
    BY <1>2 DEF WaitFails, contract
  <2> QED
    BY <1>1, <2>2, <2>3, QuietRootInv DEF Moved
<1>3. CASE RpcFails(r)
  <2>1. \A q \in Runners : pc'[q] = "entries" => pc[q] = "entries"
    BY <1>3 DEF RpcFails, TypeInv, TypeOK
  <2> QED
    BY <1>3, <2>1, QuietRootInv DEF RpcFails, contract, local
<1>4. CASE Crash(r)
  <2>1. \A q \in Runners : /\ pc'[q] = "entries" => pc[q] = "entries"
                            /\ blocked'[q] \subseteq blocked[q]
    BY <1>4 DEF Crash, TypeInv, TypeOK
  <2> QED
    BY <1>1, <1>4, <2>1, QuietRootInv DEF Crash, contract
<1> QED
  BY <1>2, <1>3, <1>4

LEMMA StepRootInv ==
  ASSUME TypeInv, RootInv, [Next]_vars
  PROVE  RootInv'
<1>1. CASE MineBlock \/ Election \/ UNCHANGED vars
  <2>1. UNCHANGED <<given, root, pc, next, latest, known, blocked, sent>>
    BY <1>1 DEF MineBlock, Election, vars, contract, local
  <2> QED
    BY <2>1, QuietRootInv
<1>2. ASSUME NEW r \in Runners, Start(r) \/ ReadTimestamp(r)
      PROVE  RootInv'
  <2>1. /\ UNCHANGED <<given, root, known, blocked, sent>>
        /\ \A q \in Runners : pc'[q] = "entries" =>
             pc[q] = "entries" /\ next'[q] = next[q] /\ latest'[q] = latest[q]
    BY <1>2 DEF Start, ReadTimestamp, TypeInv, TypeOK, contract
  <2> QED
    BY <2>1, QuietRootInv
<1> QED
  BY <1>1, <1>2, ExamineRootInv, EntriesRootInv, PowerRootInv, MinedRootInv, FaultRootInv
     DEF Next, Step

\* A Merkle root that a run computes again is the one the contract has, whatever
\* failed and whoever is elected by then, wherever the registry names somebody:
\* no run ever blocks such a proposal.
THEOREM RootStays == Spec => []RootRecomputed
<1>1. Init => TypeInv /\ RootInv
  BY InitTypeInv, InitRootInv
<1>2. TypeInv /\ RootInv /\ [Next]_vars => (TypeInv /\ RootInv)'
  BY StepTypeInv, StepRootInv
<1>3. TypeInv /\ RootInv => RootRecomputed
  BY RootInvImplies
<1> QED
  BY <1>1, <1>2, <1>3, PTL DEF Spec

-----------------------------------------------------------------------------
(* No vote is left out when a proposal is closed before its window ends *)

\* The run has seen a block behind the end date, so every vote too.
Late(r) == delay > 0 => Timestamp[latest[r]] >= EndDate[next[r]]

\* Of the entries S, those who voted on p are on the contract, refused, or in T.
Accounted(p, S, T) ==
  delay > 0 => \A v \in S : votes[p][v] > 0 =>
    v \in T \/ <<p, v>> \in submitted \/ <<p, v>> \in refused

\* What a run knows at each place.
Working(r) ==
  /\ pc[r] \in {"entries", "voters"} => Late(r)
  /\ pc[r] = "entries" /\ known[r] # {} => root[next[r]] = known[r]
  /\ pc[r] \in {"voters", "power"} => root[next[r]] = {entries[r]}
  /\ pc[r] = "power" => Accounted(next[r], entries[r], todo[r])

\* And while it waits for transaction t.
Waiting(t, r) ==
  /\ pc[r] = "wait" /\ t.proposal = next[r] /\ t.entries = entries[r]
  /\ t.kind = "setMerkleRoot" => Late(r)
  /\ t.kind = "submitVotingPower" =>
       root[next[r]] = {entries[r]} /\ Accounted(next[r], entries[r], todo[r])

\* The proposal may be closed.
Complete(p) == root[p] # {} /\ \A S \in root[p] : Accounted(p, S, {})

CountInv ==
  /\ votes \in Ballots
  /\ \A r \in Runners : Working(r)
  /\ \A i \in DOMAIN sent : \A r \in sent[i].awaited : Waiting(sent[i], r)
  /\ \A i, j \in DOMAIN sent : \A r \in sent[i].awaited : r \in sent[j].awaited => i = j
  /\ \A i \in DOMAIN sent : sent[i].kind = "oracleCloseProposal" => Complete(sent[i].proposal)
  /\ \A p \in early : Complete(p)

\* A step takes nothing back.
Grows ==
  /\ UNCHANGED given
  /\ submitted \subseteq submitted' /\ refused \subseteq refused'
  /\ \A p \in Proposals : root[p] # {} => root'[p] = root[p]

\* The step leaves alone what a run has.
Same(r) ==
  /\ pc'[r] = pc[r] /\ next'[r] = next[r] /\ latest'[r] = latest[r] /\ known'[r] = known[r]
  /\ entries'[r] = entries[r] /\ todo'[r] = todo[r]

LEMMA CountInvImplies == CountInv => CountedWhenClosed
BY DEF CountInv, Complete, Accounted, CountedWhenClosed

LEMMA InitCountInv == Init => CountInv
BY DEF Init, CountInv, Working

LEMMA AccountedStays ==
  ASSUME Grows, NEW p, NEW S, NEW T, Accounted(p, S, T)
  PROVE  Accounted(p, S, T)'
BY DEF Grows, given, Accounted

LEMMA CompleteStays ==
  ASSUME Grows, NEW p \in Proposals, Complete(p)
  PROVE  Complete(p)'
BY DEF Grows, given, Accounted, Complete

LEMMA SameWorking ==
  ASSUME TypeInv, Grows, NEW r \in Runners, Same(r), Working(r)
  PROVE  Working(r)'
<1>1. pc[r] \notin {"idle", "timestamp"} => next[r] \in Proposals
  BY DEF TypeInv, AtProposal
<1>2. Late(r) => Late(r)'
  BY DEF Late, Same, Grows, given
<1>3. Accounted(next[r], entries[r], todo[r]) => Accounted(next[r], entries[r], todo[r])'
  BY DEF Accounted, Same, Grows, given
<1>4. pc[r] \notin {"idle", "timestamp"} /\ root[next[r]] # {} => root'[next'[r]] = root[next[r]]
  BY <1>1 DEF Same, Grows
<1>5. pc'[r] \in {"entries", "voters"} => Late(r)'
  BY <1>2 DEF Working, Same
<1>6. pc'[r] = "entries" /\ known'[r] # {} => root'[next'[r]] = known'[r]
  BY <1>4 DEF Working, Same
<1>7. pc'[r] \in {"voters", "power"} => root'[next'[r]] = {entries'[r]}
  BY <1>4 DEF Working, Same
<1>8. pc'[r] = "power" => Accounted(next[r], entries[r], todo[r])'
  BY <1>3 DEF Working, Same
<1> HIDE DEF Late, Accounted
<1> QED
  BY <1>5, <1>6, <1>7, <1>8 DEF Working

LEMMA SameWaiting ==
  ASSUME TypeInv, Grows, NEW r \in Runners, Same(r), NEW t, Waiting(t, r)
  PROVE  Waiting(t, r)'
<1>1. next[r] \in Proposals
  BY DEF TypeInv, AtProposal, Waiting
<1>2. Late(r) => Late(r)'
  BY DEF Late, Same, Grows, given
<1>3. Accounted(next[r], entries[r], todo[r]) => Accounted(next[r], entries[r], todo[r])'
  BY DEF Accounted, Same, Grows, given
<1>4. t.kind = "submitVotingPower" => root'[next'[r]] = {entries'[r]}
  BY <1>1 DEF Waiting, Same, Grows
<1>5. pc'[r] = "wait" /\ t.proposal = next'[r] /\ t.entries = entries'[r]
  BY DEF Waiting, Same
<1>6. t.kind = "setMerkleRoot" => Late(r)'
  BY <1>2 DEF Waiting
<1>7. t.kind = "submitVotingPower" => Accounted(next[r], entries[r], todo[r])'
  BY <1>3 DEF Waiting
<1> HIDE DEF Late, Accounted
<1> QED
  BY <1>4, <1>5, <1>6, <1>7 DEF Waiting

\* What the end of a transaction does to where the run is.
LEMMA SettledEffect ==
  ASSUME TypeInv, Count # 0, NEW r \in Runners, NEW t \in Transactions, NEW ok \in BOOLEAN,
         Settled(r, t, ok)
  PROVE  /\ refused \subseteq refused'
         /\ \A q \in Runners : q # r => pc'[q] = pc[q] /\ next'[q] = next[q] /\ todo'[q] = todo[q]
         /\ \/ pc'[r] \in {"idle", "proposal"}
            \/ t.kind = "setMerkleRoot" /\ ok /\ pc'[r] = "voters" /\ next'[r] = next[r]
            \/ /\ t.kind = "submitVotingPower" /\ pc'[r] = "power" /\ next'[r] = next[r]
               /\ todo'[r] = todo[r] \ t.voter
               /\ ok \/ \A v \in t.voter : <<t.proposal, v>> \in refused'
<1>0. pc \in [Runners -> Places] /\ next \in [Runners -> Nat \ {0}] /\ todo \in [Runners -> SUBSET Voters]
  BY DEF TypeInv, TypeOK
<1>1. CASE t.kind = "submitVotingPower"
  <2>1. pc' = [pc EXCEPT ![r] = "power"] /\ todo' = [todo EXCEPT ![r] = @ \ t.voter] /\ UNCHANGED next
    BY <1>1 DEF Settled
  <2>2. refused' = IF ok THEN refused ELSE refused \union {<<t.proposal, v>> : v \in t.voter}
    BY <1>1 DEF Settled
  <2>3. refused \subseteq refused' /\ (ok \/ \A v \in t.voter : <<t.proposal, v>> \in refused')
    BY <2>2
  <2> QED
    BY <1>0, <1>1, <2>1, <2>3
<1>2. CASE t.kind = "setMerkleRoot" /\ ok
  BY <1>0, <1>2 DEF Settled
<1>3. CASE t.kind # "submitVotingPower" /\ ~(t.kind = "setMerkleRoot" /\ ok)
  <2>1. NextProposal(r) /\ UNCHANGED <<todo, refused>>
    BY <1>3 DEF Settled
  <2> QED
    BY <1>0, <2>1 DEF NextProposal
<1> QED
  BY <1>1, <1>2, <1>3

\* Where the run is then, its knowledge holds.
LEMMA SettledWorking ==
  ASSUME TypeInv, Count # 0, NEW r \in Runners, NEW t \in Transactions, NEW ok \in BOOLEAN,
         Grows, Settled(r, t, ok), UNCHANGED <<latest, entries>>, next[r] \in Proposals,
         t.proposal = next[r],
         ok /\ t.kind = "setMerkleRoot" => Late(r) /\ root'[next[r]] = {entries[r]},
         ok /\ t.kind = "submitVotingPower" => \A v \in t.voter : <<t.proposal, v>> \in submitted',
         t.kind = "submitVotingPower" =>
           root[next[r]] = {entries[r]} /\ Accounted(next[r], entries[r], todo[r])
  PROVE  Working(r)'
<1>1. CASE pc'[r] \in {"idle", "proposal"}
  BY <1>1 DEF Working
<1>2. CASE t.kind = "setMerkleRoot" /\ ok /\ pc'[r] = "voters" /\ next'[r] = next[r]
  <2>1. Late(r)'
    BY <1>2 DEF Late, Grows, given
  <2> QED
    BY <1>2, <2>1 DEF Working
<1>3. CASE /\ t.kind = "submitVotingPower" /\ pc'[r] = "power" /\ next'[r] = next[r]
           /\ todo'[r] = todo[r] \ t.voter
           /\ ok \/ \A v \in t.voter : <<t.proposal, v>> \in refused'
  <2>1. root'[next'[r]] = {entries'[r]}
    BY <1>3 DEF Grows
  <2>2. Accounted(next[r], entries[r], todo[r])'
    <3>1. ASSUME delay > 0, NEW v \in entries[r], votes[next[r]][v] > 0
          PROVE  v \in todo'[r] \/ <<next[r], v>> \in submitted' \/ <<next[r], v>> \in refused'
      BY <1>3, <3>1 DEF Grows, Accounted
    <3> QED
      BY <1>3, <3>1 DEF Accounted, Grows, given
  <2> QED
    BY <1>3, <2>1, <2>2 DEF Working
<1> QED
  BY <1>1, <1>2, <1>3, SettledEffect

\* Steps that send nothing: what is on its way moves up by d places at most.
LEMMA QuietCount ==
  ASSUME TypeInv, CountInv, Grows, NEW d \in Nat,
         \A r \in Runners : Same(r) \/ Working(r)',
         \A i \in DOMAIN sent' :
           /\ i \in Nat /\ i + d \in DOMAIN sent
           /\ sent'[i] \in Transactions
           /\ sent'[i].kind = sent[i + d].kind /\ sent'[i].proposal = sent[i + d].proposal
           /\ sent'[i].entries = sent[i + d].entries
           /\ sent'[i].awaited \subseteq sent[i + d].awaited
           /\ \A r \in sent'[i].awaited : Same(r),
         \A p \in early' : p \in early \/ (p \in Proposals /\ Complete(p))
  PROVE  CountInv'
<1>1. ASSUME NEW r \in Runners PROVE Working(r)'
  BY SameWorking DEF CountInv
<1>2. ASSUME NEW i \in DOMAIN sent', NEW r \in sent'[i].awaited
      PROVE  Waiting(sent[i], r)'
  <2>1. r \in Runners /\ Same(r) /\ Waiting(sent[i + d], r)
    BY DEF Transactions, CountInv
  <2>2. Waiting(sent[i + d], r) <=> Waiting(sent'[i], r)
    BY DEF Waiting
  <2>3. \A t : Waiting(t, r) => Waiting(t, r)'
    BY <2>1, SameWaiting
  <2> HIDE DEF Waiting
  <2> QED
    BY <2>1, <2>2, <2>3
<1>3. ASSUME NEW i \in DOMAIN sent', NEW j \in DOMAIN sent', NEW r \in sent'[i].awaited,
             r \in sent'[j].awaited
      PROVE  i = j
  <2>1. i + d = j + d
    BY <1>3 DEF CountInv
  <2> QED
    BY <2>1
<1>4. ASSUME NEW i \in DOMAIN sent', sent'[i].kind = "oracleCloseProposal"
      PROVE  Complete(sent[i].proposal)'
  <2>1. Complete(sent[i + d].proposal) /\ sent'[i].proposal = sent[i + d].proposal
    BY <1>4 DEF CountInv
  <2>2. sent'[i].proposal \in Proposals
    BY DEF Transactions
  <2>3. \A p \in Proposals : Complete(p) => Complete(p)'
    BY CompleteStays
  <2> QED
    BY <2>1, <2>2, <2>3
<1>5. ASSUME NEW p \in early' PROVE Complete(p)'
  <2>1. p \in Proposals /\ Complete(p)
    BY DEF CountInv, TypeInv, TypeOK
  <2> QED
    BY <2>1, CompleteStays
<1> QED
  BY <1>1, <1>2, <1>3, <1>4, <1>5 DEF CountInv, Grows, given

\* Steps that send t, or find that the contract would not take it.
\* Whoever waits is a run, and waits.
LEMMA Awaited ==
  ASSUME TypeInv, CountInv, NEW i \in DOMAIN sent, NEW q \in sent[i].awaited
  PROVE  q \in Runners /\ pc[q] = "wait" /\ Waiting(sent[i], q)
<1>1. sent[i] \in Transactions
  BY SentType
<1>2. Waiting(sent[i], q)
  BY DEF CountInv
<1> QED
  BY <1>1, <1>2 DEF Transactions, Waiting

LEMMA SendCount ==
  ASSUME TypeInv, TypeInv', CountInv, Count # 0, NEW r \in Runners, pc[r] # "wait",
         NEW kind \in Kinds, NEW voter \in SUBSET Voters,
         UNCHANGED <<given, contract, latest>>, next[r] \in Proposals,
         entries' \in [Runners -> SUBSET Voters], Send(r, kind, voter),
         \A q \in Runners : q # r => known'[q] = known[q] /\ entries'[q] = entries[q],
         kind = "setMerkleRoot" => Late(r),
         kind = "submitVotingPower" =>
           /\ entries'[r] = entries[r] /\ root[next[r]] = {entries[r]}
           /\ Accounted(next[r], entries[r], todo[r]),
         kind = "oracleCloseProposal" => Complete(next[r])
  PROVE  CountInv'
<1>0. sent \in Seq(Transactions)
  BY DEF TypeInv, TypeOK
<1>t. PICK t \in Transactions :
        t = [kind |-> kind, proposal |-> next[r], entries |-> entries'[r],
             voter |-> voter, awaited |-> {r}]
  BY DEF Transactions
<1>1. CASE sent' = Append(sent, t) /\ pc' = [pc EXCEPT ![r] = "wait"]
           /\ UNCHANGED <<next, todo, refused>>
  <2>1. Grows
    BY <1>1 DEF Grows, contract
  <2>2. pc'[r] = "wait" /\ \A q \in Runners : q # r => Same(q)
    BY <1>1 DEF Same, TypeInv, TypeOK
  <2>3. Working(r)'
    BY <2>2 DEF Working
  <2>4. \A q \in Runners : Working(q)'
    BY <2>1, <2>2, <2>3, SameWorking DEF CountInv
  <2>5. Waiting(t, r)'
    <3>1. kind = "setMerkleRoot" => Late(r)'
      BY <1>1 DEF Late, given
    <3>2. kind = "submitVotingPower" => Accounted(next[r], entries[r], todo[r])'
      BY <1>1, <2>1 DEF Accounted, Grows, given
    <3>3. kind = "submitVotingPower" => root'[next'[r]] = {entries'[r]}
      BY <1>1 DEF contract
    <3> HIDE DEF Late, Accounted
    <3> QED
      BY <1>1, <1>t, <2>2, <3>1, <3>2, <3>3 DEF Waiting
  <2>6. ASSUME NEW i \in DOMAIN sent'
        PROVE  (i \in DOMAIN sent /\ sent'[i] = sent[i]) \/ (i = Len(sent) + 1 /\ sent'[i] = t)
    BY <1>0, <1>1
  <2>7. t.awaited = {r} /\ t.kind = kind /\ t.proposal = next[r]
    BY <1>t
  <2>8. ASSUME NEW i \in DOMAIN sent, NEW q \in sent[i].awaited
        PROVE  q # r /\ q \in Runners /\ Same(q)
    BY <2>2, Awaited
  <2>9. ASSUME NEW i \in DOMAIN sent', NEW q \in sent'[i].awaited
        PROVE  Waiting(sent[i], q)'
    <3>1. CASE i \in DOMAIN sent /\ sent'[i] = sent[i]
      <4>1. q \in Runners /\ Same(q) /\ Waiting(sent[i], q)
        BY <2>8, <2>9, <3>1, Awaited
      <4>2. \A x : Waiting(x, q) => Waiting(x, q)'
        BY <2>1, <4>1, SameWaiting
      <4> QED
        BY <3>1, <4>1, <4>2
    <3>2. CASE sent'[i] = t
      BY <2>5, <2>7, <2>9, <3>2
    <3> QED
      BY <2>6, <3>1, <3>2
  <2>10. ASSUME NEW i \in DOMAIN sent', NEW j \in DOMAIN sent', NEW q \in sent'[i].awaited,
                q \in sent'[j].awaited
         PROVE  i = j
    BY <2>6, <2>7, <2>8, <2>10 DEF CountInv
  <2>11. ASSUME NEW i \in DOMAIN sent', sent'[i].kind = "oracleCloseProposal"
         PROVE  Complete(sent[i].proposal)'
    <3>0. sent'[i] \in Transactions
      BY <1>0, <2>6
    <3>1. sent'[i].proposal \in Proposals
      BY <3>0 DEF Transactions
    <3>3. Complete(sent'[i].proposal)
      BY <2>6, <2>7, <2>11 DEF CountInv
    <3>2. \A p \in Proposals : Complete(p) => Complete(p)'
      BY <2>1, CompleteStays
    <3> QED
      BY <3>1, <3>3, <3>2
  <2>12. ASSUME NEW p \in early' PROVE Complete(p)'
    <3>1. p \in Proposals /\ Complete(p)
      BY DEF contract, CountInv, TypeInv, TypeOK
    <3> QED
      BY <2>1, <3>1, CompleteStays
  <2> QED
    BY <2>4, <2>9, <2>10, <2>11, <2>12 DEF CountInv, given
<1>2. CASE Settled(r, t, FALSE) /\ UNCHANGED sent
  <2>1. refused \subseteq refused' /\ \A q \in Runners : q # r =>
          pc'[q] = pc[q] /\ next'[q] = next[q] /\ todo'[q] = todo[q]
    BY <1>2, SettledEffect
  <2>2. Grows
    BY <2>1 DEF Grows, contract
  <2>3. \A q \in Runners : q # r => Same(q)
    BY <2>1 DEF Same
  <2>4. Working(r)'
    <3>1. CASE kind = "submitVotingPower"
      <4>1. /\ UNCHANGED entries
            /\ t.proposal = next[r] /\ t.kind = kind
        BY <1>t, <3>1 DEF TypeInv, TypeOK
      <4> QED
        BY <1>2, <2>2, <3>1, <4>1, SettledWorking
    <3>2. CASE kind # "submitVotingPower"
      <4>1. pc'[r] \in {"idle", "proposal"}
        BY <1>t, <1>2, <3>2, SettledEffect
      <4> QED
        BY <4>1 DEF Working
    <3> QED
      BY <3>1, <3>2
  <2>5. ASSUME NEW i \in DOMAIN sent', NEW q \in sent'[i].awaited
        PROVE  Same(q)
    <3>1. q \in Runners /\ pc[q] = "wait"
      BY <1>2, Awaited
    <3> QED
      BY <2>3, <3>1
  <2>6. \A i \in DOMAIN sent' : i \in Nat /\ i + 0 = i /\ sent'[i] = sent[i] /\ sent[i] \in Transactions
    BY <1>0, <1>2
  <2>7. early' = early
    BY DEF contract
  <2> QED
    BY <1>2, <2>2, <2>3, <2>4, <2>5, <2>6, <2>7, QuietCount
<1> QED
  BY <1>t, <1>1, <1>2 DEF Send

\* The search gives up where the last block is before the time.
LEMMA NoFirstBlock ==
  ASSUME NEW lo, NEW hi, NEW time, Timestamp[hi] < time
  PROVE  FirstBlock(lo, hi, time) = {}
BY SMT DEF FirstBlock, Blocks

LEMMA ExamineCount ==
  ASSUME TypeInv, TypeInv', CountInv, NEW r \in Runners, Examine(r)
  PROVE  CountInv'
<1> DEFINE p == next[r]
<1>0. /\ Count # 0 /\ p \in Proposals /\ pc[r] = "proposal"
      /\ UNCHANGED <<given, contract, latest>>
      /\ \A q \in Runners : q # r => known'[q] = known[q] /\ entries'[q] = entries[q]
      /\ entries' \in [Runners -> SUBSET Voters] /\ known'[r] = root[p]
  BY DEF TypeInv, TypeOK, AtProposal, Examine
<1>1. CASE Send(r, "closeProposal", {})
  <2>1. "closeProposal" \in Kinds /\ {} \in SUBSET Voters
    BY DEF Kinds
  <2> QED
    BY <1>0, <1>1, <2>1, SendCount
<1>2. CASE /\ NextProposal(r) \/ (Ready(r, p) /\ pc' = [pc EXCEPT ![r] = "entries"] /\ UNCHANGED next)
           /\ UNCHANGED <<sent, todo, refused>>
  <2>1. Grows
    BY <1>0, <1>2 DEF Grows, contract
  <2>2. \A q \in Runners : q # r => Same(q)
    BY <1>0, <1>2 DEF Same, NextProposal, TypeInv, TypeOK
  <2>3. Working(r)'
    <3>1. CASE NextProposal(r)
      <4>1. pc'[r] \in {"idle", "proposal"}
        BY <3>1 DEF NextProposal, TypeInv, TypeOK
      <4> QED
        BY <4>1 DEF Working
    <3>2. CASE Ready(r, p) /\ pc' = [pc EXCEPT ![r] = "entries"] /\ UNCHANGED next
      <4>1. delay > 0 => FirstBlock(Snapshot[p], latest[r], EndDate[p]) # {}
        BY <3>2 DEF Ready
      <4>2. delay > 0 => ~(Timestamp[latest[r]] < EndDate[p])
        BY <4>1, NoFirstBlock
      <4>3. Timestamp[latest[r]] \in Nat /\ EndDate[p] \in Nat
        BY <1>0, FinalizerConstants DEF TypeInv, TypeOK
      <4>4. Late(r)'
        BY <1>0, <3>2, <4>2, <4>3 DEF Late, given
      <4>5. pc'[r] = "entries" /\ root'[next'[r]] = known'[r]
        BY <1>0, <3>2 DEF TypeInv, TypeOK, contract
      <4> QED
        BY <4>4, <4>5 DEF Working
    <3>3. \/ NextProposal(r)
          \/ Ready(r, p) /\ pc' = [pc EXCEPT ![r] = "entries"] /\ UNCHANGED next
      BY <1>2
    <3> QED
      BY ONLY <3>1, <3>2, <3>3
  <2>4. \A i \in DOMAIN sent' : /\ i \in Nat /\ i + 0 = i /\ sent'[i] = sent[i]
                                 /\ sent[i] \in Transactions
    BY <1>2 DEF TypeInv, TypeOK
  <2>5. \A i \in DOMAIN sent' : \A q \in sent'[i].awaited : Same(q)
    BY <1>0, <1>2, <2>2, Awaited
  <2>6. early' = early
    BY <1>0 DEF contract
  <2> QED
    BY <1>2, <2>1, <2>2, <2>3, <2>4, <2>5, <2>6, QuietCount
<1> QED
  BY <1>1, <1>2 DEF Examine

LEMMA EntriesCount ==
  ASSUME TypeInv, TypeInv', CountInv, NEW r \in Runners, ComputeEntries(r)
  PROVE  CountInv'
<1> DEFINE p == next[r]
<1>0. /\ Count # 0 /\ p \in Proposals /\ pc[r] = "entries"
      /\ UNCHANGED <<given, contract, latest, known>>
      /\ \A q \in Runners : q # r => known'[q] = known[q] /\ entries'[q] = entries[q]
      /\ entries' \in [Runners -> SUBSET Voters] /\ entries'[r] = EligibleEntries(p)
  BY EligibleVoters DEF TypeInv, TypeOK, AtProposal, ComputeEntries
<1>1. Late(r) /\ (known[r] # {} => root[p] = known[r])
  BY <1>0 DEF CountInv, Working
<1>2. CASE Send(r, "setMerkleRoot", {})
  <2>1. "setMerkleRoot" \in Kinds /\ {} \in SUBSET Voters
    BY DEF Kinds
  <2> QED
    BY <1>0, <1>1, <1>2, <2>1, SendCount
<1>3. CASE /\ \/ NextProposal(r)
              \/ /\ known[r] = {EligibleEntries(p)}
                 /\ pc' = [pc EXCEPT ![r] = "voters"] /\ UNCHANGED next
           /\ UNCHANGED <<sent, todo, refused>>
  <2>1. Grows
    BY <1>0, <1>3 DEF Grows, contract
  <2>2. \A q \in Runners : q # r => Same(q)
    BY <1>0, <1>3 DEF Same, NextProposal, TypeInv, TypeOK
  <2>3. Working(r)'
    <3>1. CASE NextProposal(r)
      <4>1. pc'[r] \in {"idle", "proposal"}
        BY <3>1 DEF NextProposal, TypeInv, TypeOK
      <4> QED
        BY <4>1 DEF Working
    <3>2. CASE known[r] = {EligibleEntries(p)} /\ pc' = [pc EXCEPT ![r] = "voters"] /\ UNCHANGED next
      <4>1. pc'[r] = "voters" /\ root'[next'[r]] = {entries'[r]}
        BY <1>0, <1>1, <3>2 DEF TypeInv, TypeOK, contract
      <4>2. Late(r)'
        BY <1>0, <1>1, <3>2 DEF Late, given
      <4> QED
        BY <4>1, <4>2 DEF Working
    <3> QED
      BY <1>3, <3>1, <3>2
  <2>4. \A i \in DOMAIN sent' : /\ i \in Nat /\ i + 0 = i /\ sent'[i] = sent[i]
                                 /\ sent[i] \in Transactions
    <3>1. sent \in Seq(Transactions)
      BY DEF TypeInv, TypeOK
    <3>2. sent' = sent
      BY <1>3
    <3> QED
      BY ONLY <3>1, <3>2
  <2>5. \A i \in DOMAIN sent' : \A q \in sent'[i].awaited : Same(q)
    BY <1>0, <1>3, <2>2, Awaited
  <2>6. early' = early
    BY <1>0 DEF contract
  <2> QED
    BY <1>3, <2>1, <2>2, <2>3, <2>4, <2>5, <2>6, QuietCount
<1> QED
  BY <1>2, <1>3 DEF ComputeEntries

LEMMA GetVotersCount ==
  ASSUME TypeInv, TypeInv', CountInv, NEW r \in Runners, GetVoters(r)
  PROVE  CountInv'
<1> DEFINE p == next[r]
<1>0. /\ p \in Proposals /\ pc[r] = "voters"
      /\ UNCHANGED <<given, contract, sent, latest, known, entries, refused>>
      /\ todo'[r] = VotersOf(p, latest[r]) \intersect entries[r]
      /\ \A q \in Runners : q # r => todo'[q] = todo[q]
  BY DEF TypeInv, TypeOK, AtProposal, GetVoters
<1>1. Late(r) /\ root[p] = {entries[r]}
  BY <1>0 DEF CountInv, Working
<1>2. Grows
  BY <1>0 DEF Grows, contract
<1>3. \A q \in Runners : q # r => Same(q)
  BY <1>0 DEF Same, NextProposal, TypeInv, TypeOK, GetVoters
<1>4. Working(r)'
  <2>1. CASE NextProposal(r)
    <3>1. pc'[r] \in {"idle", "proposal"}
      BY <2>1 DEF NextProposal, TypeInv, TypeOK
    <3> QED
      BY <3>1 DEF Working
  <2>2. CASE pc' = [pc EXCEPT ![r] = "power"] /\ UNCHANGED next
    <3>1. pc'[r] = "power" /\ root'[next'[r]] = {entries'[r]}
      BY <1>0, <1>1, <2>2 DEF TypeInv, TypeOK, contract
    <3>2. ASSUME delay > 0, NEW v \in entries[r], votes[p][v] > 0
          PROVE  v \in todo'[r]
      <4>1. v \in Voters /\ votes[p][v] \in Blocks /\ latest[r] \in Blocks
        BY <1>0 DEF TypeInv, TypeOK
      <4>2. Timestamp[votes[p][v]] < EndDate[p]
        BY <1>0, <3>2, <4>1, FinalizerConstants DEF CountInv
      <4>3. Timestamp[latest[r]] >= EndDate[p]
        BY <1>1, <3>2 DEF Late
      <4>4. /\ Timestamp[votes[p][v]] \in Nat /\ Timestamp[latest[r]] \in Nat /\ EndDate[p] \in Nat
            /\ votes[p][v] \in Nat /\ latest[r] \in Nat
        BY <1>0, <4>1, FinalizerConstants DEF Blocks
      <4>5. latest[r] <= votes[p][v] => Timestamp[latest[r]] <= Timestamp[votes[p][v]]
        BY <4>1, FinalizerConstants
      <4>6. votes[p][v] <= latest[r]
        BY <4>2, <4>3, <4>4, <4>5
      <4> QED
        BY <1>0, <3>2, <4>1, <4>6 DEF VotersOf
    <3>3. Accounted(next[r], entries[r], todo[r])'
      BY <1>0, <2>2, <3>2 DEF Accounted, given
    <3> QED
      BY <3>1, <3>3 DEF Working
  <2> QED
    BY <2>1, <2>2 DEF GetVoters
<1>5. \A i \in DOMAIN sent' : /\ i \in Nat /\ i + 0 = i /\ sent'[i] = sent[i]
                               /\ sent[i] \in Transactions
  BY <1>0 DEF TypeInv, TypeOK
<1>6. \A i \in DOMAIN sent' : \A q \in sent'[i].awaited : Same(q)
  BY <1>0, <1>3, Awaited
<1>7. early' = early
  BY <1>0 DEF contract
<1> QED
  BY <1>0, <1>2, <1>3, <1>4, <1>5, <1>6, <1>7, QuietCount

LEMMA PowerCount ==
  ASSUME TypeInv, TypeInv', CountInv, NEW r \in Runners, SubmitVotingPower(r) \/ OracleClose(r)
  PROVE  CountInv'
<1> DEFINE p == next[r]
<1>0. /\ Count # 0 /\ p \in Proposals /\ pc[r] = "power"
      /\ UNCHANGED <<given, contract, latest, known, entries>>
      /\ entries' \in [Runners -> SUBSET Voters]
  BY DEF TypeInv, TypeOK, AtProposal, SubmitVotingPower, OracleClose
<1>1. root[p] = {entries[r]} /\ Accounted(p, entries[r], todo[r])
  BY <1>0 DEF CountInv, Working
<1>2. CASE SubmitVotingPower(r)
  <2>1. PICK v \in todo[r] :
          IF <<next[r], v>> \in submitted
          THEN /\ todo' = [todo EXCEPT ![r] = @ \ {v}]
               /\ UNCHANGED <<sent, pc, next, refused, faults>>
          ELSE Send(r, "submitVotingPower", {v})
    BY <1>2 DEF SubmitVotingPower
  <2>2. {v} \in SUBSET Voters /\ "submitVotingPower" \in Kinds
    BY DEF TypeInv, TypeOK, Kinds
  <2>3. CASE <<p, v>> \in submitted
    <3>0. /\ todo' = [todo EXCEPT ![r] = @ \ {v}] /\ UNCHANGED <<sent, pc, next, refused>>
      BY <2>1, <2>3
    <3>1. Grows
      BY <1>0, <3>0 DEF Grows, contract
    <3>2. \A q \in Runners : q # r => Same(q)
      BY <1>0, <3>0 DEF Same, TypeInv, TypeOK
    <3>3. Accounted(next[r], entries[r], todo[r])'
      <4>1. todo'[r] = todo[r] \ {v}
        BY <3>0 DEF TypeInv, TypeOK
      <4> QED
        BY <1>0, <1>1, <2>3, <3>0, <4>1 DEF Accounted, given, contract
    <3>4. Working(r)'
      BY <1>0, <1>1, <3>0, <3>3 DEF Working, contract
    <3>5. \A i \in DOMAIN sent' : /\ i \in Nat /\ i + 0 = i /\ sent'[i] = sent[i]
                                   /\ sent[i] \in Transactions
      BY <3>0 DEF TypeInv, TypeOK
    <3>6. \A i \in DOMAIN sent' : \A q \in sent'[i].awaited : Same(q)
      BY <1>0, <3>0, <3>2, Awaited
    <3>7. early' = early
      BY <1>0 DEF contract
    <3> QED
      BY <3>0, <3>1, <3>2, <3>4, <3>5, <3>6, <3>7, QuietCount
  <2>4. CASE Send(r, "submitVotingPower", {v})
    BY <1>0, <1>1, <2>2, <2>4, SendCount
  <2> QED
    BY <2>1, <2>3, <2>4
<1>3. CASE OracleClose(r)
  <2>1. "oracleCloseProposal" \in Kinds /\ {} \in SUBSET Voters
    BY DEF Kinds
  <2>2. Complete(p)
    BY <1>1, <1>3 DEF OracleClose, Complete
  <2>3. Send(r, "oracleCloseProposal", {})
    BY <1>3 DEF OracleClose
  <2> QED
    BY <1>0, <2>1, <2>2, <2>3, SendCount
<1> QED
  BY <1>2, <1>3

LEMMA MinedCount ==
  ASSUME TypeInv, TypeInv', CountInv, TransactionMined
  PROVE  CountInv'
<1>0. sent \in Seq(Transactions) /\ sent # <<>> /\ 1 \in DOMAIN sent /\ Len(sent) \in Nat
  BY DEF TransactionMined, TypeInv, TypeOK
<1>1. PICK t \in Transactions : t = sent[1] /\ t = Head(sent)
  BY <1>0
<1>2. PICK ok \in BOOLEAN : ok = Accepts(t)
  BY DEF Accepts
<1>3. /\ IF ok THEN Apply(t) ELSE UNCHANGED contract
      /\ \/ t.awaited = {} /\ UNCHANGED <<pc, next, todo, refused>>
         \/ \E r \in t.awaited : Settled(r, t, ok)
      /\ sent' = Tail(sent)
      /\ UNCHANGED <<given, latest, known, entries>>
  BY Zenon, <1>1, <1>2 DEF TransactionMined
<1>4. t.proposal \in Proposals /\ t.awaited \subseteq Runners /\ Count # 0
  BY <1>0, SentType DEF Transactions
<1>5. refused \subseteq refused'
  BY <1>3, <1>4, SettledEffect
<1>6. Grows
  <2>1. CASE ok
    <3>1. t.kind = "setMerkleRoot" => root[t.proposal] = {}
      BY <1>2, <2>1 DEF Accepts
    <3>2. \A p \in Proposals : root[p] # {} => root'[p] = root[p]
      BY <1>3, <1>4, <2>1, <3>1 DEF Apply, TypeInv, TypeOK
    <3>3. submitted \subseteq submitted'
      BY <1>3, <2>1 DEF Apply
    <3> QED
      BY <1>3, <1>5, <3>2, <3>3 DEF Grows
  <2>2. CASE ~ok
    BY <1>3, <1>5, <2>2 DEF Grows, contract
  <2> QED
    BY <2>1, <2>2
<1>7. \A p \in early' : p \in early \/ (p \in Proposals /\ Complete(p))
  <2>1. t.kind = "oracleCloseProposal" => Complete(t.proposal)
    BY <1>0, <1>1 DEF CountInv
  <2> QED
    BY <1>3, <1>4, <2>1 DEF Apply, contract
<1>8. \A i \in DOMAIN sent' : /\ i \in Nat /\ i + 1 \in DOMAIN sent /\ i + 1 # 1
                               /\ sent'[i] = sent[i + 1] /\ sent[i + 1] \in Transactions
  BY <1>0, <1>3
<1>9. CASE UNCHANGED <<pc, next, todo>>
  <2>1. \A q \in Runners : Same(q)
    BY <1>3, <1>9 DEF Same
  <2>2. \A i \in DOMAIN sent' : \A q \in sent'[i].awaited : Same(q)
    BY <1>8, <2>1 DEF Transactions
  <2> QED
    BY <1>6, <1>7, <1>8, <2>1, <2>2, QuietCount
<1>10. ASSUME NEW r \in t.awaited, Settled(r, t, ok)
       PROVE  CountInv'
  <2>1. r \in Runners /\ Waiting(t, r)
    BY <1>0, <1>1, Awaited
  <2>2. t.proposal = next[r] /\ t.entries = entries[r]
    BY <2>1 DEF Waiting
  <2>3. \A q \in Runners : q # r => Same(q)
    BY <1>3, <1>4, <1>10, <2>1, SettledEffect DEF Same
  <2>4. ok /\ t.kind = "setMerkleRoot" => Late(r) /\ root'[next[r]] = {entries[r]}
    BY <1>3, <1>4, <2>1, <2>2 DEF Waiting, Apply, TypeInv, TypeOK
  <2>5. ok /\ t.kind = "submitVotingPower" => \A v \in t.voter : <<t.proposal, v>> \in submitted'
    BY <1>3 DEF Apply
  <2>6. t.kind = "submitVotingPower" =>
          root[next[r]] = {entries[r]} /\ Accounted(next[r], entries[r], todo[r])
    BY <2>1 DEF Waiting
  <2>7. Working(r)'
    BY <1>3, <1>4, <1>6, <1>10, <2>1, <2>2, <2>4, <2>5, <2>6, SettledWorking
  <2>8. \A i \in DOMAIN sent' : \A q \in sent'[i].awaited : Same(q)
    <3>1. ASSUME NEW i \in DOMAIN sent', NEW q \in sent'[i].awaited PROVE q \in Runners /\ q # r
      BY <1>0, <1>1, <1>8, Awaited DEF CountInv
    <3> QED
      BY <2>3, <3>1
  <2> QED
    BY <1>6, <1>7, <1>8, <2>3, <2>7, <2>8, QuietCount
<1> QED
  BY <1>3, <1>9, <1>10

LEMMA FaultCount ==
  ASSUME TypeInv, TypeInv', CountInv, NEW r \in Runners, WaitFails(r) \/ RpcFails(r) \/ Crash(r)
  PROVE  CountInv'
<1>1. sent \in Seq(Transactions) /\ pc \in [Runners -> Places]
  BY DEF TypeInv, TypeOK
<1>2. \A i \in DOMAIN Deserted(r) :
        /\ i \in Nat /\ i + 0 = i /\ i \in DOMAIN sent
        /\ Deserted(r)[i].kind = sent[i].kind /\ Deserted(r)[i].proposal = sent[i].proposal
        /\ Deserted(r)[i].entries = sent[i].entries
        /\ Deserted(r)[i].awaited \subseteq sent[i].awaited /\ r \notin Deserted(r)[i].awaited
        /\ Deserted(r)[i] \in Transactions
  <2> SUFFICES ASSUME NEW i \in DOMAIN Deserted(r)
               PROVE  /\ i \in Nat /\ i + 0 = i /\ i \in DOMAIN sent
                      /\ Deserted(r)[i].kind = sent[i].kind
                      /\ Deserted(r)[i].proposal = sent[i].proposal
                      /\ Deserted(r)[i].entries = sent[i].entries
                      /\ Deserted(r)[i].awaited \subseteq sent[i].awaited
                      /\ r \notin Deserted(r)[i].awaited /\ Deserted(r)[i] \in Transactions
    OBVIOUS
  <2>1. i \in DOMAIN sent /\ Deserted(r)[i] = [sent[i] EXCEPT !.awaited = @ \ {r}]
    BY DEF Deserted
  <2>2. PICK t \in Transactions : t = sent[i]
    BY <2>1, SentType
  <2>3. /\ [t EXCEPT !.awaited = @ \ {r}] \in Transactions
        /\ [t EXCEPT !.awaited = @ \ {r}].kind = t.kind
        /\ [t EXCEPT !.awaited = @ \ {r}].proposal = t.proposal
        /\ [t EXCEPT !.awaited = @ \ {r}].entries = t.entries
        /\ [t EXCEPT !.awaited = @ \ {r}].awaited = t.awaited \ {r}
    BY DEF Transactions
  <2>4. i \in Nat /\ i + 0 = i
    BY <1>1, <2>1
  <2> QED
    BY <2>1, <2>2, <2>3, <2>4
<1>3. UNCHANGED <<given, contract, latest, known, entries>>
  BY DEF WaitFails, RpcFails, Crash, local
<1>4. ASSUME sent' = Deserted(r), Grows, Working(r)', \A q \in Runners : q # r => Same(q)
      PROVE  CountInv'
  <2>1. \A i \in DOMAIN sent' : \A q \in sent'[i].awaited : Same(q)
    BY <1>2, <1>4, Awaited
  <2>2. early' = early
    BY <1>3 DEF contract
  <2> QED
    BY <1>2, <1>4, <2>1, <2>2, QuietCount
<1>5. CASE WaitFails(r)
  <2>1. PICK i \in DOMAIN sent : r \in sent[i].awaited /\ Settled(r, sent[i], FALSE)
    BY <1>5 DEF WaitFails
  <2>2. Waiting(sent[i], r) /\ sent[i] \in Transactions /\ Count # 0
    BY <2>1, Awaited, SentType
  <2>3. PICK t \in Transactions : t = sent[i]
    BY <2>2
  <2>4. /\ refused \subseteq refused'
        /\ \A q \in Runners : q # r => pc'[q] = pc[q] /\ next'[q] = next[q] /\ todo'[q] = todo[q]
    BY <2>1, <2>2, SettledEffect
  <2>5. Grows
    BY <1>3, <2>4 DEF Grows, contract
  <2>6. t.proposal = next[r] /\ next[r] \in Proposals
    BY <2>2, <2>3 DEF Waiting, Transactions
  <2>7. t.kind = "submitVotingPower" =>
          root[next[r]] = {entries[r]} /\ Accounted(next[r], entries[r], todo[r])
    BY <2>2, <2>3 DEF Waiting
  <2>8. Working(r)'
    BY <1>3, <2>1, <2>2, <2>3, <2>5, <2>6, <2>7, SettledWorking
  <2>9. \A q \in Runners : q # r => Same(q)
    BY <1>3, <2>4 DEF Same
  <2> QED
    BY <1>4, <1>5, <2>5, <2>8, <2>9 DEF WaitFails
<1>6. CASE RpcFails(r) \/ Crash(r)
  <2>1. /\ pc' = [pc EXCEPT ![r] = "idle"] /\ UNCHANGED <<next, todo, refused>>
        /\ sent' = sent \/ sent' = Deserted(r)
    BY <1>6 DEF RpcFails, Crash, local
  <2>2. Grows
    BY <1>3, <2>1 DEF Grows, contract
  <2>3. \A q \in Runners : q # r => Same(q)
    BY <1>3, <2>1 DEF Same, TypeInv, TypeOK
  <2>4. Working(r)'
    BY <1>1, <2>1 DEF Working
  <2>5. CASE sent' = Deserted(r)
    BY <1>4, <2>2, <2>3, <2>4, <2>5
  <2>6. CASE RpcFails(r) /\ sent' = sent
    <3>1. \A i \in DOMAIN sent' : \A q \in sent'[i].awaited : Same(q)
      BY <2>3, <2>6, Awaited DEF RpcFails
    <3>2. \A i \in DOMAIN sent' : i \in Nat /\ i + 0 = i /\ sent[i] \in Transactions
      BY <1>1, <2>6
    <3>3. early' = early
      BY <1>3 DEF contract
    <3> QED
      BY <2>2, <2>3, <2>4, <2>6, <3>1, <3>2, <3>3, QuietCount
  <2> QED
    BY <1>6, <2>5, <2>6 DEF RpcFails, Crash
<1> QED
  BY <1>5, <1>6

LEMMA StepCount ==
  ASSUME TypeInv, TypeInv', CountInv, [Next]_vars
  PROVE  CountInv'
<1>1. \A i \in DOMAIN sent : i \in Nat /\ i + 0 = i /\ sent[i] \in Transactions
  BY DEF TypeInv, TypeOK
<1>2. CASE MineBlock \/ Election \/ UNCHANGED vars
  <2>1. UNCHANGED <<given, contract, sent, pc, local, refused>>
    BY <1>2 DEF MineBlock, Election, vars
  <2>2. Grows /\ early' = early /\ sent' = sent /\ \A r \in Runners : Same(r)
    BY <2>1 DEF Grows, Same, contract, local
  <2>3. \A i \in DOMAIN sent' : \A q \in sent'[i].awaited : Same(q)
    BY <2>2, Awaited
  <2> QED
    BY <1>1, <2>2, <2>3, QuietCount
<1>3. ASSUME NEW r \in Runners, Start(r) \/ ReadTimestamp(r)
      PROVE  CountInv'
  <2>1. /\ UNCHANGED <<given, contract, sent, refused>> /\ pc[r] # "wait"
        /\ pc'[r] \in {"timestamp", "idle", "proposal"}
        /\ \A q \in Runners : q # r => Same(q)
    BY <1>3 DEF Start, ReadTimestamp, Same, TypeInv, TypeOK
  <2>2. Grows /\ early' = early /\ sent' = sent
    BY <2>1 DEF Grows, contract
  <2>3. Working(r)'
    BY <2>1 DEF Working
  <2>4. \A i \in DOMAIN sent' : \A q \in sent'[i].awaited : Same(q)
    BY <2>1, <2>2, Awaited
  <2> QED
    BY <1>1, <2>1, <2>2, <2>3, <2>4, QuietCount
<1> QED
  BY <1>2, <1>3, ExamineCount, EntriesCount, GetVotersCount, PowerCount, MinedCount, FaultCount
     DEF Next, Step

\* A proposal closed before its window ends has the power of everyone who voted
\* and may vote, but for those whose transaction failed: where a block delay is
\* configured, for any number of runs that overlap, die or lose their node.
THEOREM NoVoteLeftOut == Spec => []CountedWhenClosed
<1>1. Init => TypeInv /\ CountInv
  BY InitTypeInv, InitCountInv
<1>2. TypeInv /\ CountInv /\ [Next]_vars => (TypeInv /\ CountInv)'
  BY StepTypeInv, StepCount
<1>3. TypeInv /\ CountInv => CountedWhenClosed
  BY CountInvImplies
<1> QED
  BY <1>1, <1>2, <1>3, PTL DEF Spec

-----------------------------------------------------------------------------
(* The binary search *)

\* One turn of the loop, by where it ends from the pairs after it.
Turn(f, time, w) ==
  LET mid == (w[1] + w[2]) \div 2
  IN IF w[1] + 1 < w[2]
     THEN f[IF Timestamp[mid] >= time THEN <<w[1], mid>> ELSE <<mid, w[2]>>]
     ELSE w[2]

\* Where it may end: at a block after l which is late enough, or at h.
Ends(time, l, h) == {b \in (l + 1) .. h : b = h \/ Timestamp[b] >= time}
FirstEnd(time, l, h) ==
  IF l + 1 < h
  THEN CHOOSE b \in Ends(time, l, h) : \A a \in Ends(time, l, h) : b <= a
  ELSE h

\* A set of numbers has a first one.
LEMMA Least ==
  ASSUME NEW S \in SUBSET Nat, S # {}
  PROVE  \E m \in S : \A n \in S : m <= n
<1> DEFINE R == {ss \in Nat \X Nat : ss[1] < ss[2]}
<1>1. IsWellFoundedOn(R, Nat)
  BY NatLessThanWellFounded DEF OpToRel
<1>2. PICK m \in S : \A n \in S : ~(<<n, m>> \in R)
  <2> HIDE DEF R
  <2> QED
    BY <1>1, WFMin
<1>3. ASSUME NEW n \in S PROVE m <= n
  <2>1. ~(n < m) /\ n \in Nat /\ m \in Nat
    BY <1>2
  <2> QED
    BY <2>1
<1> QED
  BY <1>3

LEMMA BlockTimes ==
  /\ MaxBlock \in Nat
  /\ \A b \in Blocks : b \in Nat /\ Timestamp[b] \in Nat
  /\ \A a, b \in Blocks : a <= b => Timestamp[a] <= Timestamp[b]
  /\ \A l, h \in Blocks : l .. h \subseteq Blocks
<1>1. MaxBlock \in Nat /\ Timestamp \in [Blocks -> Nat \ {0}]
      /\ \A a, b \in Blocks : a <= b => Timestamp[a] <= Timestamp[b]
  BY FinalizerConstants
<1>2. \A b \in Blocks : b \in Nat /\ Timestamp[b] \in Nat
  BY <1>1 DEF Blocks
<1>3. \A l, h \in Blocks : l .. h \subseteq Blocks
  BY <1>1 DEF Blocks
<1> QED
  BY <1>1, <1>2, <1>3

LEMMA FirstEndType ==
  ASSUME NEW time, NEW l \in Blocks, NEW h \in Blocks, l < h
  PROVE  /\ FirstEnd(time, l, h) \in Ends(time, l, h)
         /\ \A a \in Ends(time, l, h) : FirstEnd(time, l, h) <= a
<1>1. l \in Nat /\ h \in Nat
  BY BlockTimes
<1>2. Ends(time, l, h) \subseteq Nat /\ h \in Ends(time, l, h)
  BY <1>1 DEF Ends
<1>3. CASE l + 1 < h
  <2>1. PICK m \in Ends(time, l, h) : \A n \in Ends(time, l, h) : m <= n
    BY <1>2, Least
  <2> QED
    BY <1>3, <2>1 DEF FirstEnd
<1>4. CASE ~(l + 1 < h)
  <2>1. h = l + 1 /\ FirstEnd(time, l, h) = h
    BY <1>1, <1>4 DEF FirstEnd
  <2>2. \A a \in Ends(time, l, h) : a = h
    BY <1>1, <2>1 DEF Ends
  <2> QED
    BY <1>1, <1>2, <2>1, <2>2
<1> QED
  BY <1>3, <1>4

LEMMA FirstEndOnly ==
  ASSUME NEW time, NEW l \in Blocks, NEW h \in Blocks, l < h,
         NEW e \in Ends(time, l, h), \A a \in Ends(time, l, h) : e <= a
  PROVE  FirstEnd(time, l, h) = e
<1>1. Ends(time, l, h) \subseteq Nat
  BY BlockTimes DEF Ends
<1> QED
  BY <1>1, FirstEndType

\* Half of the blocks have the end of all.
LEMMA FirstEndTurn ==
  ASSUME NEW time \in Nat, NEW l \in Blocks, NEW h \in Blocks, l + 1 < h,
         NEW mid, mid = (l + h) \div 2
  PROVE  /\ mid \in Blocks /\ l < mid /\ mid < h
         /\ FirstEnd(time, l, h) = IF Timestamp[mid] >= time THEN FirstEnd(time, l, mid)
                                                             ELSE FirstEnd(time, mid, h)
<1>1. l \in Nat /\ h \in Nat
  BY BlockTimes
<1>2. mid \in Nat /\ l < mid /\ mid < h
  BY <1>1
<1>3. mid \in Blocks
  BY <1>1, <1>2, BlockTimes
<1>4. /\ \A b \in l .. h : b \in Nat /\ Timestamp[b] \in Nat
      /\ \A a, b \in l .. h : a <= b => Timestamp[a] <= Timestamp[b]
  BY BlockTimes
<1>5. CASE Timestamp[mid] >= time
  <2> DEFINE e == FirstEnd(time, l, mid)
  <2>1. e \in Ends(time, l, mid) /\ \A a \in Ends(time, l, mid) : e <= a
    BY <1>2, <1>3, FirstEndType
  <2> HIDE DEF e
  <2>2. e \in l + 1 .. mid /\ Timestamp[e] >= time
    BY <1>5, <2>1 DEF Ends
  <2>3. e \in Ends(time, l, h)
    BY <1>1, <1>2, <2>2 DEF Ends
  <2>4. ASSUME NEW a \in Ends(time, l, h) PROVE e <= a
    <3>1. a \in l + 1 .. h /\ (a = h \/ Timestamp[a] >= time)
      BY DEF Ends
    <3>2. CASE a <= mid
      <4>1. a \in Ends(time, l, mid)
        BY <1>1, <1>2, <3>1, <3>2 DEF Ends
      <4> QED
        BY <2>1, <4>1
    <3>3. CASE ~(a <= mid)
      BY <1>1, <1>2, <2>2, <3>1, <3>3
    <3> QED
      BY <3>2, <3>3
  <2>5. FirstEnd(time, l, h) = e
    BY <1>1, <1>2, <2>3, <2>4, FirstEndOnly
  <2> QED
    BY <1>2, <1>3, <1>5, <2>5 DEF e
<1>6. CASE ~(Timestamp[mid] >= time)
  <2> DEFINE e == FirstEnd(time, mid, h)
  <2>1. e \in Ends(time, mid, h) /\ \A a \in Ends(time, mid, h) : e <= a
    BY <1>2, <1>3, FirstEndType
  <2> HIDE DEF e
  <2>2. e \in mid + 1 .. h /\ (e = h \/ Timestamp[e] >= time)
    BY <2>1 DEF Ends
  <2>3. e \in Ends(time, l, h)
    BY <1>1, <1>2, <2>2 DEF Ends
  <2>4. ASSUME NEW a \in Ends(time, l, h) PROVE e <= a
    <3>1. a \in l + 1 .. h /\ (a = h \/ Timestamp[a] >= time)
      BY DEF Ends
    <3>2. CASE a <= mid
      <4>1. Timestamp[a] <= Timestamp[mid] /\ Timestamp[a] \in Nat /\ Timestamp[mid] \in Nat
        BY <1>1, <1>2, <1>4, <3>1, <3>2
      <4> QED
        BY <1>1, <1>2, <1>6, <3>1, <3>2, <4>1
    <3>3. CASE ~(a <= mid)
      <4>1. a \in Ends(time, mid, h)
        BY <1>1, <1>2, <3>1, <3>3 DEF Ends
      <4> QED
        BY <2>1, <4>1
    <3> QED
      BY <3>2, <3>3
  <2>5. FirstEnd(time, l, h) = e
    BY <1>1, <1>2, <2>3, <2>4, FirstEndOnly
  <2> QED
    BY <1>2, <1>3, <1>6, <2>5 DEF e
<1> QED
  BY <1>5, <1>6

\* The loop has a result from every pair of blocks, since FirstEnd would be one.
LEMMA SearchTurn ==
  ASSUME NEW time \in Nat
  PROVE  \A w \in Blocks \X Blocks : Search(time)[w] = Turn(Search(time), time, w)
<1> DEFINE g == [w \in Blocks \X Blocks |-> FirstEnd(time, w[1], w[2])]
           F(f) == [w \in Blocks \X Blocks |-> Turn(f, time, w)]
<1>1. ASSUME NEW w \in Blocks \X Blocks
      PROVE  FirstEnd(time, w[1], w[2]) = Turn(g, time, w)
  <2> DEFINE l == w[1]
             h == w[2]
             mid == (l + h) \div 2
             half == IF Timestamp[mid] >= time THEN <<l, mid>> ELSE <<mid, h>>
  <2>1. l \in Blocks /\ h \in Blocks
    OBVIOUS
  <2>2. CASE l + 1 < h
    <3>1. Turn(g, time, w) = g[half]
      <4> HIDE DEF g
      <4> QED
        BY <2>2 DEF Turn
    <3> HIDE DEF l, h
    <3>2. /\ mid \in Blocks
          /\ FirstEnd(time, l, h) = IF Timestamp[mid] >= time THEN FirstEnd(time, l, mid)
                                                              ELSE FirstEnd(time, mid, h)
      BY <2>1, <2>2, FirstEndTurn
    <3> HIDE DEF mid
    <3>3. half \in Blocks \X Blocks /\ FirstEnd(time, l, h) = FirstEnd(time, half[1], half[2])
      BY <2>1, <3>2
    <3> HIDE DEF half
    <3>4. g[half] = FirstEnd(time, half[1], half[2])
      BY <3>3
    <3> HIDE DEF g
    <3>5. FirstEnd(time, l, h) = Turn(g, time, w)
      BY <3>1, <3>3, <3>4
    <3> QED
      BY <3>5 DEF l, h
  <2>3. CASE ~(l + 1 < h)
    BY <2>3 DEF Turn, FirstEnd
  <2> QED
    BY <2>2, <2>3
<1>2. g = F(g)
  <2> DEFINE T(w) == Turn(g, time, w)
  <2>1. \A w \in Blocks \X Blocks : FirstEnd(time, w[1], w[2]) = T(w)
    BY <1>1
  <2> HIDE DEF T
  <2>2. [w \in Blocks \X Blocks |-> FirstEnd(time, w[1], w[2])] = [w \in Blocks \X Blocks |-> T(w)]
    BY <2>1
  <2> QED
    BY <2>2 DEF T
<1>3. Search(time) = CHOOSE f : f = F(f)
  BY DEF Search, Turn
<1>4. Search(time) = F(Search(time))
  <2> HIDE DEF F, g
  <2> QED
    BY <1>2, <1>3
<1> DEFINE S == Search(time)
<1>5. S = [w \in Blocks \X Blocks |-> Turn(S, time, w)]
  BY <1>4
<1> HIDE DEF S
<1>6. \A w \in Blocks \X Blocks : S[w] = Turn(S, time, w)
  BY <1>5
<1> QED
  BY <1>6 DEF S

\* It ends at the first block it may end at.
LEMMA SearchEnd ==
  ASSUME NEW time \in Nat, NEW lo \in Blocks, NEW hi \in Blocks, lo < hi
  PROVE  Search(time)[<<lo, hi>>] = FirstEnd(time, lo, hi)
<1> DEFINE S == Search(time)
           Wrong(l, h) == l < h /\ S[<<l, h>>] # FirstEnd(time, l, h)
           Widths == {n \in Nat : \E l, h \in Blocks : Wrong(l, h) /\ n = h - l}
<1>0. \A w \in Blocks \X Blocks : S[w] = Turn(S, time, w)
  BY SearchTurn
<1> HIDE DEF S
<1> SUFFICES ASSUME Wrong(lo, hi) PROVE FALSE
  BY DEF S
<1>1. hi - lo \in Widths
  <2>1. hi - lo \in Nat
    BY BlockTimes
  <2> QED
    BY <2>1
<1>2. PICK w \in Widths : \A n \in Widths : w <= n
  <2> HIDE DEF Widths
  <2>1. Widths \subseteq Nat /\ Widths # {}
    BY <1>1 DEF Widths
  <2> QED
    BY <2>1, Least
<1>3. PICK l \in Blocks, h \in Blocks : Wrong(l, h) /\ w = h - l
  BY <1>2
<1>4. l \in Nat /\ h \in Nat /\ w \in Nat /\ l < h
  BY <1>2, <1>3, BlockTimes
<1>5. ASSUME NEW a \in Blocks, NEW b \in Blocks, a < b, b - a < w
      PROVE  S[<<a, b>>] = FirstEnd(time, a, b)
  <2>1. a \in Nat /\ b \in Nat /\ b - a \in Nat
    BY <1>5, BlockTimes
  <2>2. b - a \notin Widths
    <3> HIDE DEF Widths, Wrong
    <3>1. b - a \in Widths => w <= b - a
      BY <1>2
    <3> QED
      BY <1>4, <1>5, <2>1, <3>1
  <2> QED
    BY <1>5, <2>1, <2>2
<1> HIDE DEF Widths
<1>6. CASE l + 1 < h
  <2> DEFINE mid == (l + h) \div 2
             half == IF Timestamp[mid] >= time THEN <<l, mid>> ELSE <<mid, h>>
  <2>1. S[<<l, h>>] = S[half]
    <3>1. <<l, h>> \in Blocks \X Blocks /\ <<l, h>>[1] = l /\ <<l, h>>[2] = h
      OBVIOUS
    <3>2. Turn(S, time, <<l, h>>) = S[half]
      BY <1>6, <3>1 DEF Turn
    <3> QED
      BY <1>0, <3>1, <3>2
  <2>2. /\ mid \in Blocks /\ l < mid /\ mid < h
        /\ FirstEnd(time, l, h) = IF Timestamp[mid] >= time THEN FirstEnd(time, l, mid)
                                                            ELSE FirstEnd(time, mid, h)
    BY <1>6, FirstEndTurn
  <2> HIDE DEF mid
  <2>3. mid \in Nat /\ mid - l < w /\ h - mid < w
    BY <1>3, <1>4, <2>2, BlockTimes
  <2>4. S[<<l, mid>>] = FirstEnd(time, l, mid) /\ S[<<mid, h>>] = FirstEnd(time, mid, h)
    BY <1>5, <2>2, <2>3
  <2>5. S[half] = FirstEnd(time, l, h)
    BY <2>2, <2>4
  <2> QED
    BY <1>3, <2>1, <2>5
<1>7. CASE ~(l + 1 < h)
  BY <1>0, <1>3, <1>7 DEF Turn, FirstEnd
<1> QED
  BY <1>6, <1>7

LEMMA FirstBlockFinds ==
  ASSUME NEW time \in Nat, NEW lo \in Blocks, NEW hi \in Blocks, lo <= hi
  PROVE  FirstBlock(lo, hi, time) =
           {b \in lo .. hi : /\ Timestamp[b] >= time
                             /\ \A a \in lo .. (b - 1) : Timestamp[a] < time}
<1> DEFINE Found == {b \in lo .. hi : /\ Timestamp[b] >= time
                                      /\ \A a \in lo .. (b - 1) : Timestamp[a] < time}
<1>1. /\ lo \in Nat /\ hi \in Nat
      /\ \A b \in lo .. hi : b \in Nat /\ Timestamp[b] \in Nat
      /\ \A a, b \in lo .. hi : a <= b => Timestamp[a] <= Timestamp[b]
  BY BlockTimes
<1>2. CASE Timestamp[hi] < time
  <2>1. \A b \in lo .. hi : ~(Timestamp[b] >= time)
    BY <1>1, <1>2
  <2> QED
    BY <1>2, <2>1 DEF FirstBlock
<1>3. ASSUME NEW e \in lo .. hi, Timestamp[e] >= time, \A a \in lo .. (e - 1) : Timestamp[a] < time
      PROVE  Found = {e}
  <2>1. e \in Found
    BY <1>3
  <2>2. ASSUME NEW b \in Found PROVE b = e
    <3>1. /\ b \in lo .. hi /\ Timestamp[b] >= time /\ \A a \in lo .. (b - 1) : Timestamp[a] < time
      OBVIOUS
    <3>2. /\ b \in Nat /\ e \in Nat /\ Timestamp[b] \in Nat /\ Timestamp[e] \in Nat
      BY <1>1, <1>3, <3>1
    <3>3. ~(b < e)
      BY <1>1, <1>3, <3>1, <3>2
    <3>4. ~(e < b)
      BY <1>1, <1>3, <3>1, <3>2
    <3> QED
      BY <3>2, <3>3, <3>4
  <2> HIDE DEF Found
  <2> QED
    BY <2>1, <2>2
<1>4. CASE ~(Timestamp[hi] < time) /\ Timestamp[lo] >= time
  <2>1. lo \in lo .. hi /\ \A a \in lo .. (lo - 1) : FALSE
    BY <1>1
  <2>2. Found = {lo}
    BY <1>3, <1>4, <2>1
  <2> QED
    BY <1>4, <2>2 DEF FirstBlock
<1>5. CASE ~(Timestamp[hi] < time) /\ ~(Timestamp[lo] >= time)
  <2> DEFINE e == FirstEnd(time, lo, hi)
  <2>1. lo < hi
    BY <1>1, <1>5
  <2>2. FirstBlock(lo, hi, time) = {e}
    BY <1>5, <2>1, SearchEnd DEF FirstBlock
  <2>3. e \in Ends(time, lo, hi) /\ \A a \in Ends(time, lo, hi) : e <= a
    BY <2>1, FirstEndType
  <2> HIDE DEF e
  <2>4. e \in lo .. hi /\ Timestamp[e] >= time
    <3>1. hi \in lo .. hi /\ Timestamp[hi] \in Nat
      BY <1>1
    <3> QED
      BY <1>1, <1>5, <2>3, <3>1 DEF Ends
  <2>5. ASSUME NEW a \in lo .. (e - 1) PROVE Timestamp[a] < time
    <3>1. a \in lo .. hi /\ Timestamp[a] \in Nat /\ Timestamp[lo] \in Nat
      BY <1>1, <2>1, <2>4
    <3>2. CASE a = lo
      BY <1>5, <3>1, <3>2
    <3>3. CASE a # lo
      <4>1. a \notin Ends(time, lo, hi)
        BY <1>1, <2>3, <2>4
      <4> QED
        BY <1>1, <3>1, <3>3, <4>1 DEF Ends
    <3> QED
      BY <3>2, <3>3
  <2>6. Found = {e}
    BY <1>3, <2>4, <2>5
  <2> QED
    BY <2>2, <2>6
<1> QED
  BY <1>2, <1>4, <1>5

\* Whatever the timestamps, as long as they do not go back: between two blocks
\* the chain has, the binary search finds the first block at or after the end of
\* a proposal, and none exactly where there is none.
THEOREM SearchIsRight == Spec => []SearchFinds
<1>1. TypeInv => SearchFinds
  <2> SUFFICES ASSUME TypeInv, NEW lo \in 0 .. head, NEW hi \in 0 .. head, NEW p \in Proposals, lo <= hi
               PROVE  FirstBlock(lo, hi, EndDate[p]) =
                        {b \in lo .. hi : /\ Timestamp[b] >= EndDate[p]
                                          /\ \A a \in lo .. (b - 1) : Timestamp[a] < EndDate[p]}
    BY DEF SearchFinds
  <2>1. head \in 0 .. MaxBlock /\ MaxBlock \in Nat /\ EndDate[p] \in Nat
    BY FinalizerConstants DEF TypeInv, TypeOK, Blocks
  <2>2. lo \in Blocks /\ hi \in Blocks
    BY <2>1 DEF Blocks
  <2> QED
    BY <2>1, <2>2, FirstBlockFinds
<1> QED
  BY <1>1, InitTypeInv, StepTypeInv, PTL DEF Spec
=============================================================================
