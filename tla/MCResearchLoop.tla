--------------------------- MODULE MCResearchLoop ---------------------------
(***************************************************************************)
(* ResearchLoop on a small instance: one feed that releases every other    *)
(* tick, read by one desk in two regimes.                                  *)
(***************************************************************************)
EXTENDS ResearchLoop

CONSTANTS f1, d1, r1, r2

OneFeed == <<f1>>
FeedOne == {f1}
OneDesk == {d1}
TwoRegimes == {r1, r2}
OneConsumer == [f \in {f1} |-> {d1}]
OddFirings == [f \in {f1} |-> {1, 2}]
=============================================================================
