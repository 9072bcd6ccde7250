------------------------ MODULE MCForwardLedger ------------------------
(* Eleven days with four ticks each, of which day 4 has no price.  One event
   is decided late on day 7 and one at the start of day 8, so a run may
   forecast both; FRED may publish days 7 and 8 late.  The older events leave
   two training rows, one that rises and one that falls.  The clock stops at
   the ticks where an event, a deadline or a price changes what a job does. *)
EXTENDS ForwardLedger

MCEvents == <<"fomc", "opec">>
MCDecisionAt == [e \in {"fomc", "opec"} |-> IF e = "fomc" THEN 31 ELSE 32]
MCPastTimes == {6, 10, 17, 26}
MCPrice == [d \in (0..10) \ {4} |-> IF d \in {3, 5, 7, 9} THEN 2 ELSE 1]
MCPastDays == {0, 1, 2, 3, 5, 6}
MCLateDays == {7, 8}
MCInstants == {28, 31, 32, 40, 44}
=======================================================================
