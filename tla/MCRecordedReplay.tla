-------------------------- MODULE MCRecordedReplay --------------------------
(* RecordedReplay on files of up to three rows out of five. *)
EXTENDS RecordedReplay

RowOf(t, sym, seq, p) == [ts |-> t, symbol |-> sym, sequence |-> seq, price |-> p]
TwoSymbols == {"CL1", "CL2"}
Rows == {RowOf(0, "CL1", "10", 1), RowOf(1, "CL1", "9", 2), RowOf(2, "CL1", "", 1),
         RowOf(2, "CL1", "11", 3), RowOf(1, "CL2", "9", 1)}
MCFeeds == UNION {[1..n -> Rows] : n \in 1..3}
SequenceTexts == <<"", "10", "11", "9">>
Follow == [s \in {-1, 0, 1} |-> s]
=============================================================================
