----------------------------- MODULE MCPitStore -----------------------------
(***************************************************************************)
(* PitStore on a small instance: a few ticks, two releases of two periods, *)
(* two payloads.                                                           *)
(***************************************************************************)
EXTENDS PitStore, TLC

CONSTANTS A, B

TwoPeriods == {1, 2}
TwoPayloads == {A, B}

PayloadSymmetry == Permutations(Payloads)
=============================================================================
