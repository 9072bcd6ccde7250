---------------------------- MODULE MCController ----------------------------
(* Small instances of Controller: the cold-start weight is 1. *)
EXTENDS Controller

CONSTANTS d1, d2
TwoDesks == {d1, d2}
LongAndShort == {-1, 2}
RetireOrDouble == {0, 2}
OneRegime == {"normal"}
=============================================================================
