--------------------------- MODULE MCMessageQueue ---------------------------
(* Three messages, two of one id, from two callers; one caller lives in the   *)
(* process of the consumer, as the indexer's and the plugins' do. The message *)
(* of the other id is throttled.                                              *)
EXTENDS MessageQueue

MCId == [m1 |-> "a", m2 |-> "a", m3 |-> "b"]
MCMessages == DOMAIN MCId
MCCaller == [m1 |-> "x", m2 |-> "y", m3 |-> "x"]
MCHome == [x |-> "p", y |-> "q"]
MCThrottled == {"m3"}
=============================================================================
