---------------------------- MODULE MCPaperLive ----------------------------
(* Small instances of PaperLive: exposures are quarters of a full position. *)
EXTENDS PaperLive

Late == {0, 2}
LongOnly == {4}
BothSides == {4, -2}
AllLevels == Level

\* In calm markets a quarter is one lot; in wild ones it is half a lot and
\* halves round to even.
MCLotsAt ==
    [m \in Markets |-> [x \in Exposure |->
        CASE m = "calm" -> x
          [] m = "wild" -> CASE x \in {-4, -3} -> -2 [] x = -2 -> -1 [] x \in {-1, 0, 1} -> 0
                             [] x = 2 -> 1 [] x \in {3, 4} -> 2]]
CalmOnly == {"calm"}
=============================================================================
