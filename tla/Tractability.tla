------------------------- MODULE Tractability -------------------------
(***************************************************************************)
(* How the feasibility harness projects events on a daily price series     *)
(* (feasibility/tractability_v1.py and the audit that shares it).          *)
(*                                                                         *)
(* Time is counted in ticks, PerDay of them to a UTC day.  A price series  *)
(* is the set of days that have a row; the row of day d is stamped with    *)
(* the first tick of d.  The statistics over the kept observations (HAC    *)
(* and bootstrap sizes, detectable effects) are left out.                  *)
(***************************************************************************)
EXTENDS Integers, FiniteSets, SequencesExt

CONSTANTS
    PerDay,     \* ticks of a day
    Horizon,    \* HORIZON_DAYS, in rows of the series
    Gap         \* purge_days + embargo_days

RowsFrom(prices, t) == {d \in prices : PerDay * d >= t}

(* The row an event at t is anchored on, and the row its return ends on.    *)
HasAnchor(prices, t) == RowsFrom(prices, t) # {}
HasWindow(prices, t) == Cardinality(RowsFrom(prices, t)) > Horizon
Anchor(prices, t) == CHOOSE d \in RowsFrom(prices, t) :
                        \A x \in RowsFrom(prices, t) : d <= x
WindowEnd(prices, t) == CHOOSE d \in RowsFrom(prices, t) :
                        Cardinality({x \in RowsFrom(prices, t) : x < d}) = Horizon

(* The last row strictly before the day of t; the feature also needs the    *)
(* row before that one.                                                     *)
RowsBefore(prices, t) == {d \in prices : d < t \div PerDay}
HasFeature(prices, t) == Cardinality(RowsBefore(prices, t)) >= 2
FeatureRow(prices, t) == CHOOSE d \in RowsBefore(prices, t) :
                            \A x \in RowsBefore(prices, t) : x <= d
FeatureAge(prices, t) == t \div PerDay - FeatureRow(prices, t)

(* An observation carries its anchor, not the time of its event.            *)
Observations(times, prices) ==
    {Anchor(prices, t) : t \in {u \in times : HasWindow(prices, u)}}

Newest(days) == IF days = {} THEN 0 ELSE CHOOSE d \in days : \A x \in days : x <= d

KeptTouching(days) ==   \* a mutant: a day exactly Gap later is kept
    LET last[d \in -1..Newest(days)] ==
            IF d < 0 THEN -Gap - 1
            ELSE LET before == last[d - 1]
                 IN  IF d \in days /\ d >= before + Gap THEN d ELSE before
    IN  {d \in days : last[d] = d}

(* Greedy thinning: a day within Gap of the last day kept is skipped.       *)
Kept(days) ==
    LET last[d \in -1..Newest(days)] ==    \* the last day kept up to d
            IF d < 0 THEN -Gap - 1
            ELSE LET before == last[d - 1]
                 IN  IF d \in days /\ d > before + Gap THEN d ELSE before
    IN  {d \in days : last[d] = d}

(* A family counts only if the store holds an admissible vintage of it.     *)
Admissible(families, quality) ==
    {f \in families : quality[f] \in {"true_first_release",
                                      "release_lag_safe_revision_unknown"}}

FamilyN(families, times, quality, prices) ==
    Cardinality(Kept(UNION {Observations(times[f], prices) :
                            f \in Admissible(families, quality)}))

(* The additive guard: what a family adds to the families before it.        *)
AdditiveDelta(base, f, times, quality, prices) ==
    FamilyN(base \union {f}, times, quality, prices)
        - FamilyN(base, times, quality, prices)
=======================================================================
