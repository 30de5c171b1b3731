------------------------------- MODULE MCVotes -------------------------------
(* Two members and three proposals, one of each kind of plugin; every legal   *)
(* history of up to MaxEvents events, the first two in one block. m1 is the   *)
(* member of the first event: the members are alike.                          *)
EXTENDS Votes

CONSTANT MaxEvents

MCMembers == {"m1", "m2"}
MCProposals == {"token", "multisig", "harmony"}
KindsOf == [token |-> {"cast", "clear"}, multisig |-> {"approve"}, harmony |-> {"harmony"}]
Block == <<1, 1, 2, 4>>
Index == <<0, 1, 0, 0>>

Votings(n) ==
  {[kind |-> k, member |-> m, proposal |-> p, block |-> Block[n], index |-> Index[n]] :
     k \in Kinds, m \in MCMembers, p \in MCProposals}

Longer(S, n) ==
  {h \in {Append(h, e) : h \in S, e \in {v \in Votings(n) : v.kind \in KindsOf[v.proposal]}} :
     Legal(h)}

First == {h \in Longer({<<>>}, 1) : h[1].member = "m1"}
Second == Longer(First, 2)
Third == Longer(Second, 3)

MCHistories ==
  {h \in First \union Second \union Third \union Longer(Third, 4) : Len(h) <= MaxEvents}
=============================================================================
