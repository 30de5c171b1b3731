------------------------- MODULE MCPluginLifecycle -------------------------
(* Every legal history of up to MaxUnits transactions over two plugins: the   *)
(* first is installed at once or in two transactions, updated, uninstalled,   *)
(* and its permission revoked and granted again, also in a transaction that   *)
(* prepares or applies the installation of the second.                        *)
EXTENDS PluginLifecycle, TLC

CONSTANT MaxUnits

MCPlugins == {"a", "b"}
Alike == Permutations(Crawlers)
E(k, p, s, t) == [kind |-> k, plugin |-> p, setup |-> s, tx |-> t]

Units(t) ==
  {<<E("InstallationPrepared", p, 0, t), E("Granted", p, 0, t), E("InstallationApplied", p, 0, t)>> :
     p \in MCPlugins}
  \union
  {<<E("InstallationPrepared", "a", 0, t)>>,
   <<E("Granted", "a", 0, t), E("InstallationApplied", "a", 0, t)>>,
   <<E("UpdatePrepared", "a", 1, t)>>, <<E("UpdateApplied", "a", 1, t)>>,
   <<E("UninstallationPrepared", "a", 2, t), E("Revoked", "a", 0, t),
     E("UninstallationApplied", "a", 2, t)>>,
   <<E("Revoked", "a", 0, t)>>, <<E("Granted", "a", 0, t)>>,
   <<E("Revoked", "a", 0, t), E("InstallationPrepared", "b", 0, t)>>,
   <<E("Granted", "a", 0, t), E("Granted", "b", 0, t), E("InstallationApplied", "b", 0, t)>>}

Longer(S, t) == {h \in {s \o u : s \in S, u \in Units(t)} : Legal(h)}

One == Longer({<<>>}, 1)
Two == Longer(One, 2)
Three == Longer(Two, 3)
Four == Longer(Three, 4)

MCHistories ==
  CASE MaxUnits = 3 -> Three [] MaxUnits = 4 -> Four [] OTHER -> Longer(Four, 5)
=============================================================================
