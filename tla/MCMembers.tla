------------------------------- MODULE MCMembers -------------------------------
(* Histories of MaxEvents events of one kind of plugin: two accounts whose   *)
(* power changes, one that locks and unlocks, two members of a multisig; and *)
(* of one event more, the life of an escrow's token. Events share a block or *)
(* not.                                                                      *)
EXTENDS Members

CONSTANTS a1, a2, t1, poller, job, MaxEvents

MCAccounts == {a1, a2}
MCTokens == {t1}
MCCrawlers == {poller, job}
MCJobs == {job}

E(k, w, to, n, total, b) == [kind |-> k, who |-> w, to |-> to, amount |-> n, total |-> total, block |-> b]

\* Which events there are in a block b, after history h.
Votes(h, b) == {E("VotesChanged", w, Nobody, 0, Len(h) + 1, b) : w \in MCAccounts}

Total(h) == IF h = <<>> THEN 0 ELSE h[Len(h)].total
Locking(h, b) ==
  {E("Locked", a1, Nobody, 1, Total(h) + 1, b)} \union
  IF Total(h) > 0 THEN {E("Unlocked", a1, Nobody, 1, Total(h) - 1, b)} ELSE {}

Has(h, k) == \E i \in DOMAIN h : h[i].kind = k
Escrow(h, b) ==
  IF ~Has(h, "Deposit") THEN {E("Deposit", t1, Nobody, 0, 0, b)}
  ELSE IF Has(h, "Withdraw") THEN {}
  ELSE IF Has(h, "ExitQueued") THEN {E("Withdraw", t1, Nobody, 0, 0, b)}
  ELSE {E("Delegated", t1, w, 0, 0, b) : w \in MCAccounts} \union
       {E("Undelegated", t1, Nobody, 0, 0, b), E("ExitQueued", t1, Nobody, 0, 0, b)}

Listing(h, b) ==
  {E(IF \E i \in DOMAIN h : h[i].who = w /\ h[i].kind = "Added"
          /\ \A j \in (i + 1) .. Len(h) : h[j].who # w THEN "Removed" ELSE "Added",
     w, Nobody, 0, 0, b) : w \in MCAccounts}

\* The block of the next event: the last one's, or the one after.
NextBlocks(h) == IF h = <<>> THEN {1} ELSE {h[Len(h)].block, h[Len(h)].block + 1}
Longer(H, More(_, _)) ==
  UNION {{h \o <<e>> : e \in UNION {More(h, b) : b \in NextBlocks(h)}} : h \in H}

Grown(More(_, _), n) ==
  LET one == Longer({<<>>}, More)
      two == Longer(one, More)
      three == Longer(two, More)
  IN CASE n = 2 -> two [] n = 3 -> three [] OTHER -> Longer(three, More)

MCHistories ==
  Grown(Votes, MaxEvents) \union Grown(Locking, MaxEvents) \union Grown(Listing, MaxEvents)
    \union Grown(Escrow, MaxEvents + 1)
=============================================================================
