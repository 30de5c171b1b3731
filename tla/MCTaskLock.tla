----------------------------- MODULE MCTaskLock -----------------------------
(* Two processes, the first with two overlapping runners; on one host, or on *)
(* two.                                                                      *)
EXTENDS TaskLock

MCProc == [r1 |-> "p", r1b |-> "p", r2 |-> "q"]
MCRunners == DOMAIN MCProc
MCProcEach == [r1 |-> "p", r2 |-> "q"]
MCRunnersEach == DOMAIN MCProcEach
OneHost == [p |-> "host", q |-> "host"]
TwoHosts == [p |-> "host", q |-> "other"]
Pids == [p |-> 11, q |-> 12]
=============================================================================
