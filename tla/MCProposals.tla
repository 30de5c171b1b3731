------------------------------ MODULE MCProposals ------------------------------
(* Five histories: proposals that share blocks; a staged proposal whose body   *)
(* reports twice; one that is edited and advances; one that advances twice;    *)
(* Harmony proposals, one of them closed.                                      *)
EXTENDS Proposals, TLC

MCIds == {"p", "q", "s", "t"}
Alike == Permutations(Crawlers)
E(k, p, of, s, b) == [kind |-> k, id |-> p, of |-> of, stage |-> s, block |-> b]

Sharing == <<E("Created", "p", "p", 0, 1), E("Created", "q", "q", 0, 1),
             E("Created", "s", "s", 0, 2), E("Created", "t", "t", 0, 3)>>

Reporting == <<E("Created", "p", "p", 0, 1), E("Reported", "p", "p", 0, 2),
               E("Reported", "p", "p", 0, 3), E("Canceled", "p", "p", 0, 4)>>

Staged == <<E("Created", "s", "p", 0, 1), E("Created", "p", "p", 0, 1),
            E("Edited", "p", "p", 0, 2), E("Created", "t", "p", 1, 3),
            E("Advanced", "p", "p", 1, 3), E("Executed", "s", "s", 0, 3),
            E("Edited", "p", "p", 0, 4)>>

Advancing == <<E("Created", "s", "p", 0, 1), E("Created", "p", "p", 0, 1),
               E("Created", "t", "p", 1, 2), E("Advanced", "p", "p", 1, 2),
               E("Advanced", "p", "p", 2, 3)>>

Harmony == <<E("HarmonyCreated", "p", "p", 0, 1), E("HarmonyCreated", "q", "q", 0, 1),
             E("Closed", "p", "p", 0, 2)>>

\* Two pollers of all plugins; or a job of the plugins of the bodies, beside a
\* poller or beside a job of the staged plugin.
Bodies == MCIds \ {"p"}
MCAddresses ==
  {[c \in Crawlers |-> MCIds]} \union
  {a \in [Crawlers -> {MCIds, {"p"}, Bodies}] :
     \E c, d \in Crawlers : a[c] = Bodies /\ a[d] # Bodies}

MCHistories == {Sharing, Reporting, Staged, Advancing, Harmony}
=============================================================================
