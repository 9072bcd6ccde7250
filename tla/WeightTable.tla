---------------------------- MODULE WeightTable ----------------------------
(***************************************************************************)
(* The signal_weights table of the v1 system (persistence/db.py) and the   *)
(* writes the research loop makes to it (research_loop/remediation.py,     *)
(* promotion.py): append-only rows, of which the one with the greatest     *)
(* (promotion_ts_utc, weight_id) per (regime, desk, target) is in force.   *)
(*                                                                         *)
(* A desk has one target variable.  A weight is 0 (the desk is retired) or *)
(* 1 (any positive weight).  weight_id is a random uuid, so rows with one  *)
(* promotion_ts_utc rank in any order: a key's rows are kept in ascending  *)
(* order and a new row goes anywhere among its equals.                     *)
(***************************************************************************)
EXTENDS Naturals, Sequences, SequencesExt

CONSTANTS
    Regimes,   \* regime ids
    Desks,     \* forecasting desks
    Feeds      \* upstream data feeds

Keys == Regimes \X Desks
Weights == {0, 1}
\* validation_artefact: the reason a row was written for
Tags == {<<"cold_start">>, <<"auto">>, <<"harmful">>}
        \cup {<<"unreliable", f>> : f \in Feeds}
        \cup {<<"reinstate", f>> : f \in Feeds}
SignalWeight == [weight : Weights, ts : Nat, tag : Tags]

\* Every table insert_signal_weight may leave: the new row among its equals.
InsertSignalWeight(table, k, row) ==
    {[table EXCEPT ![k] = InsertAt(@, i, row)] :
        i \in {j \in 1..(Len(table[k]) + 1) :
                 /\ \A m \in 1..(j - 1) : table[k][m].ts <= row.ts
                 /\ \A m \in j..Len(table[k]) : table[k][m].ts >= row.ts}}

\* get_latest_signal_weights, for one key
LatestWeight(table, k) == Last(table[k])
Active(table, k) == LatestWeight(table, k).weight > 0

\* seed_cold_start: one row per (regime, desk), all with boot_ts
SeedColdStart(boot_ts) ==
    [k \in Keys |-> <<[weight |-> 1, ts |-> boot_ts, tag |-> <<"cold_start">>]>>]

\* A write in progress: one row for one key.
Write == [key : Keys, row : SignalWeight]
WriteOf(k, w, t, g) == [key |-> k, row |-> [weight |-> w, ts |-> t, tag |-> g]]

\* retire_desk_for_regime
RetireForRegime(k, t) == {WriteOf(k, 0, t, <<"harmful">>)}

\* Mutant: the desk is retired in one regime only.
RetireForOneRegime(table, d, f, t) ==
    {WriteOf(k, 0, t, <<"unreliable", f>>) :
        k \in {x \in Keys : x = (CHOOSE y \in Keys : y[2] = d) /\ Active(table, x)}}
\* retire_desk_for_all_regimes: every regime in which the desk has weight
RetireForAllRegimes(table, d, f, t) ==
    {WriteOf(k, 0, t, <<"unreliable", f>>) :
        k \in {x \in Keys : x[2] = d /\ Active(table, x)}}

\* Mutant: every retired desk counts as retired for the feed.
RetiredForAnyReason(table, f) == {k \in Keys : ~Active(table, k)}
\* retired_desks_for_feed
RetiredForFeed(table, f) ==
    {k \in Keys : ~Active(table, k) /\ LatestWeight(table, k).tag = <<"unreliable", f>>}

\* reinstate_desk_direct for every key retired for f.  The weight is the
\* desk's Shapley share, its last positive weight or the fallback; each is
\* positive.
ReinstateForFeed(table, f, t) ==
    {WriteOf(k, 1, t, <<"reinstate", f>>) : k \in RetiredForFeed(table, f)}

\* propose_weights_from_shapley when some desk has positive value: weight
\* to those desks, none to the others of the regime.
ProposeFromShapley(r, positive, t) ==
    {WriteOf(<<r, d>>, IF d \in positive THEN 1 ELSE 0, t, <<"auto">>) : d \in Desks}
=============================================================================
