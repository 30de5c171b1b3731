---------------------------- MODULE MCLogCrawler ----------------------------
(* Small instances of LogCrawler: a chain of a few blocks with two events    *)
(* types interleaved in them.                                                *)
EXTENDS LogCrawler

CONSTANTS c1, c2

MCLogs == {<<1, 0>>, <<2, 0>>, <<2, 1>>, <<4, 0>>}
MCKind == [l \in MCLogs |-> IF l = <<2, 0>> THEN "other" ELSE "main"]
=============================================================================
