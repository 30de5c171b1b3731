----------------------------- MODULE ChainLogs -----------------------------
(* The logs of an append-only chain and the order the indexer gives them.   *)
EXTENDS Integers

CONSTANTS
  Logs,          \* the logs the chain holds: pairs <<block, position in block>>
  InitialBlock   \* opts.fromBlock || FROM_BLOCK: where indexing starts

ASSUME ChainAssumption ==
  /\ Logs \subseteq Nat \X Nat
  /\ InitialBlock \in Nat \ {0}

\* LogProcessingEngine.sortLogs: by block, then by position in the block.
Before(l, m) == l[1] < m[1] \/ (l[1] = m[1] /\ l[2] < m[2])

\* What eth_getLogs answers for the blocks a to b.
LogsIn(a, b) == {l \in Logs : a <= l[1] /\ l[1] <= b}

\* The logs before l that the indexer is responsible for.
Predecessors(l) == {m \in Logs : InitialBlock <= m[1] /\ Before(m, l)}
=============================================================================
