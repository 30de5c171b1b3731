---------------------------- MODULE MCPluginSync ----------------------------
(* Settings about one plugin, on a chain of four blocks.                     *)
EXTENDS PluginSync

CONSTANTS w1, w2, w3
MCQueueOf == [w \in {w1, w2, w3} |-> IF w = w1 THEN "plugins" ELSE "requeue"]
MCPlugins == {"plugin"}

E(k, b) == [kind |-> k, plugin |-> "plugin", block |-> b]

\* Installed in one transaction, with members and settings before the preparation.
AtOnce == <<E("Activity", 2), E("Prepared", 2), E("Applied", 2), E("Activity", 3)>>

\* Prepared first and applied a block later.
Apart == <<E("Activity", 1), E("Prepared", 1), E("Applied", 2), E("Activity", 3)>>

\* With a token that is older than the plugin.
Token == <<E("Delegated", 1), E("Prepared", 2), E("Activity", 2), E("Applied", 2), E("Delegated", 3)>>

\* Installed and uninstalled; two workers meet the same message.
Gone == <<E("Prepared", 1), E("Applied", 1), E("Uninstalled", 2)>>

About(history, from, token, crawled, byAddress, all, working, kept, behind, n) ==
  [chain |-> history, head |-> from, created |-> [p \in MCPlugins |-> token], services |-> [p \in MCPlugins |-> crawled],
   listed |-> byAddress, syncAll |-> all, workers |-> working, offset |-> kept, lag |-> behind, faults |-> n]

MCSettings ==
  {About(AtOnce, 1, 0, {"plugin"}, TRUE, FALSE, {w1, w2}, 1, 0, 1),
   About(Apart, 2, 0, {"plugin"}, TRUE, TRUE, {w1, w2}, 0, 1, 0),
   About(Token, 3, 1, {"plugin", "token"}, FALSE, FALSE, {w1, w2}, 1, 0, 0),
   About(Gone, 1, 0, {}, TRUE, TRUE, {w1, w2, w3}, 0, 1, 0)}
=============================================================================
