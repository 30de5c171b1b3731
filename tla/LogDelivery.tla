---------------------------- MODULE LogDelivery ----------------------------
(***************************************************************************)
(* What the indexer promises of a service's logs: every log is delivered to *)
(* its handler, in chain order if the service is Ordered, and the cursor    *)
(* only moves forward, over blocks whose logs have all been delivered.      *)
(***************************************************************************)
EXTENDS ChainLogs

CONSTANT Ordered

VARIABLES delivered, cursor

Init == delivered = {} /\ cursor = InitialBlock - 1

\* One log (again: delivery is at least once), its predecessors already done.
Deliver ==
  /\ \E l \in Logs : /\ Ordered => Predecessors(l) \subseteq delivered
                     /\ delivered' = delivered \union {l}
  /\ UNCHANGED cursor

\* An unordered service may finish several concurrent deliveries at once.
DeliverMany ==
  /\ ~Ordered
  /\ \E S \in SUBSET Logs : delivered' = delivered \union S
  /\ UNCHANGED cursor

Advance ==
  /\ cursor' \in Nat /\ cursor' > cursor
  /\ LogsIn(InitialBlock, cursor') \subseteq delivered
  /\ UNCHANGED delivered

Next == Deliver \/ DeliverMany \/ Advance

Spec == Init /\ [][Next]_<<delivered, cursor>>
=============================================================================
