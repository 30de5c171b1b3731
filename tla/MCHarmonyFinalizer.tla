------------------------- MODULE MCHarmonyFinalizer -------------------------
(* Two proposals and two voters on a chain whose blocks partly share their    *)
(* timestamps; the snapshot of one is taken after its end. Both windows end   *)
(* within the chain.                                                          *)
EXTENDS HarmonyFinalizer

MCTimestamp == [b \in 0 .. MaxBlock |-> <<1, 2, 2, 3, 4, 5, 5, 6>>[b + 1]]
MCEndDate == <<3, 4>>
MCSnapshot == <<1, 5>>
MCVoters == {"v", "w"}

Event(b, v, into) == [block |-> b, voter |-> v, into |-> into]
\* Nobody; one who leaves when the second proposal is under way; one late.
MCRegistries ==
  {<<>>,
   <<Event(1, "v", TRUE), Event(1, "w", TRUE), Event(2, "v", FALSE)>>,
   <<Event(1, "w", TRUE), Event(5, "v", TRUE)>>}

Cast(a, b) == [v |-> a, w |-> b]
MCBallots == {<<Cast(2, 0), Cast(3, 3)>>, <<Cast(1, 2), Cast(0, 0)>>}
\* Where nobody votes on the second proposal, somebody does on another plugin's.
MCOthers == [cast \in MCBallots |-> IF cast[2]["v"] = 0 THEN {"v"} ELSE {}]
=============================================================================
