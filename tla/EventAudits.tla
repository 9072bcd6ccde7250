---------------------------- MODULE EventAudits ----------------------------
(***************************************************************************)
(* The Phase-3 audits of the feasibility studies: does a model of the      *)
(* events of one family (or several) predict the sign of the return that   *)
(* follows?  Six audits look three rows ahead, one looks one row ahead     *)
(* (feasibility/scripts/audit_*_phase3.py, with the features of            *)
(* feasibility/candidates).  Events are projected on the price series and  *)
(* thinned as in Tractability; the rest of an audit is a monthly           *)
(* walk-forward whose residuals the harness counts.                        *)
(*                                                                         *)
(* `data` is what an audit finds: price (a function on the days that have  *)
(* a row), releases (the decision times of each family), content (the      *)
(* release times whose stored vintages can be read and are complete),      *)
(* daily (the days of the GPR snapshot), admissible (the families with an  *)
(* admissible vintage) and since (POST_2020_START).  The value of a        *)
(* feature is left out: a row says when what it was computed from is       *)
(* stamped.  So are the fitted model and its predictions, a trailing       *)
(* deviation of exactly 0 (the z-score is NaN), and the length of the      *)
(* trailing window.                                                        *)
(***************************************************************************)
EXTENDS Integers, FiniteSets, FiniteSetsExt

CONSTANTS
    PerDay,         \* ticks of a day
    MonthDays,      \* days of a month
    WarmupDays,     \* WARMUP_WEEKS, in days
    LagRows,        \* rows of the lagged return, 5
    MinPeriods,     \* min_periods of the trailing z-scores, 26
    MinTrainEvents, \* MIN_TRAIN_EVENTS, 52
    LongHorizon     \* HORIZON_DAYS of the three-day audits

\* HORIZON_DAYS is 1 or LongHorizon; purge_days and embargo_days are as many each.
One == INSTANCE Tractability WITH Horizon <- 1, Gap <- 2
Far == INSTANCE Tractability WITH Horizon <- LongHorizon, Gap <- 2 * LongHorizon

Prices(data) == DOMAIN data.price
RowStamp(d) == PerDay * d      \* the stamp of the row of day d
Earlier(S, x) == {y \in S : y < x}

FamiliesOf(name) ==
    CASE name = "fomc" -> {"wpsr", "fomc", "opec_ministerial"}
      [] name = "wti_lag" -> {"wpsr", "fomc", "steo", "opec_ministerial", "psm", "gpr"}
      [] OTHER -> {name}
HorizonOf(name) == IF name = "wti_lag" THEN 1 ELSE LongHorizon

\* The anchors left after the 2020 cut and the thinning
KeptAnchors(horizon, families, data) ==
    LET times == UNION {data.releases[f] : f \in families}
    IN  IF horizon = 1
        THEN One!Kept({d \in One!Observations(times, Prices(data)) : d >= data.since})
        ELSE Far!Kept({d \in Far!Observations(times, Prices(data)) : d >= data.since})

LabelEnd(horizon, d, data) ==
    IF horizon = 1 THEN One!WindowEnd(Prices(data), RowStamp(d)) ELSE Far!WindowEnd(Prices(data), RowStamp(d))
Positive(horizon, d, data) == data.price[LabelEnd(horizon, d, data)] > data.price[d]
-----------------------------------------------------------------------------
(* Features.  A release that has them is mapped to the stamps they rest on. *)

\* A z-score against at least MinPeriods earlier changes, so against more
\* than MinPeriods earlier values
Trailing(releases) == {t \in releases : Cardinality(Earlier(releases, t)) > MinPeriods}

\* The GPR value of a release is the last daily row up to the release's date.
GprValued(data) == {t \in data.releases["gpr"] : \E d \in data.daily : d <= t \div PerDay}
GprValue(t, data) == Max({d \in data.daily : d <= t \div PerDay})
GprFeatures(data) ==
    [t \in Trailing(GprValued(data)) |->
        {RowStamp(GprValue(x, data)) : x \in Earlier(GprValued(data), t) \cup {t}}]

WpsrFeatures(data) ==
    LET panel == data.releases["wpsr"] \cap data.content
    IN  [t \in Trailing(panel) |-> Earlier(panel, t) \cup {t}]

\* The month of the release, and the days since the one before; the PSM
\* features differ in the months that count as special.
CalendarFeatures(family, data) ==
    LET issues == data.releases[family] \cap data.content
    IN  [t \in issues |-> IF Earlier(issues, t) = {} THEN {t} ELSE {t, Max(Earlier(issues, t))}]

PsmFeatures(data) == CalendarFeatures("psm", data)

OpecFeatures(data) == [t \in data.releases["opec_ministerial"] \cap data.content |-> {t}]

\* anchor_release_features_to_target_prices
ReleasesOn(features, d, data) ==
    {t \in DOMAIN features : One!HasAnchor(Prices(data), t) /\ One!Anchor(Prices(data), t) = d}

\* _compute_wti_5d_lagged_return, which ends on the anchor's own row
HasLaggedReturn(d, data) == Cardinality(Earlier(Prices(data), d)) >= LagRows
LaggedReturnRows(d, data) ==
    {RowStamp(d), RowStamp(CHOOSE x \in Earlier(Prices(data), d) :
                        Cardinality({y \in Prices(data) : x <= y /\ y < d}) = LagRows)}

\* build_event_features_and_labels of the audits with release features; of
\* several releases on one anchor the first counts, or the last (WPSR).
EventRow(d, reads, horizon, data) ==
    [day |-> d, reads |-> reads, positive |-> Positive(horizon, d, data), copy |-> 1]
ReleaseRows(kept, features, keepLast, data) ==
    {LET on == ReleasesOn(features, d, data)
         release == IF keepLast THEN Max(on) ELSE Min(on)
     IN  EventRow(d, features[release] \cup LaggedReturnRows(d, data), LongHorizon, data)
     : d \in {x \in kept : ReleasesOn(features, x, data) # {} /\ HasLaggedReturn(x, data)}}

Kept(name, data) == KeptAnchors(HorizonOf(name), FamiliesOf(name), data)
GprRows(data) == ReleaseRows(Kept("gpr", data), GprFeatures(data), FALSE, data)
SteoRows(data) == ReleaseRows(Kept("steo", data), CalendarFeatures("steo", data), FALSE, data)
PsmRows(data) == ReleaseRows(Kept("psm", data), PsmFeatures(data), FALSE, data)
OpecRows(data) == ReleaseRows(Kept("opec_ministerial", data), OpecFeatures(data), FALSE, data)

\* The WPSR audit alone keeps every observation of a kept anchor: releases on
\* one anchor give equal rows.
ObservedOn(d, data) ==
    Cardinality({t \in data.releases["wpsr"] : One!HasAnchor(Prices(data), t)
                                                  /\ One!Anchor(Prices(data), t) = d})
WpsrRows(data) ==
    UNION {{[r EXCEPT !.copy = n] : n \in 1..ObservedOn(r.day, data)}
           : r \in ReleaseRows(Kept("wpsr", data), WpsrFeatures(data), TRUE, data)}

\* The FOMC audit has an indicator of the event's family and the lagged return.
FomcRows(data) ==
    {EventRow(d, LaggedReturnRows(d, data), LongHorizon, data)
     : d \in {x \in Kept("fomc", data) : HasLaggedReturn(x, data)}}

\* The one-day audit has the last return before the anchor's day.
LagRowsOf(data) ==
    {LET last == One!FeatureRow(Prices(data), RowStamp(d))
     IN  EventRow(d, {RowStamp(last), RowStamp(Max(Earlier(Prices(data), last)))}, 1, data)
     : d \in {x \in Kept("wti_lag", data) : One!HasFeature(Prices(data), RowStamp(x))}}
-----------------------------------------------------------------------------
(* The walk-forward *)

Month(d) == d \div MonthDays

TrainedOn(rows, month) == {r \in rows : Month(r.day) < month}

Fittable(train, minimum) ==
    Cardinality(train) >= minimum /\ {r.positive : r \in train} = BOOLEAN

\* Every month with an event from `warm` on is tested, all its events
\* included, by a model fitted on the events before the month.
MonthlyRefit(rows, warm, minimum) ==
    LET months == {Month(r.day) : r \in {x \in rows : x.day >= warm}}
        tested == {r \in rows : /\ Month(r.day) \in months
                                /\ Fittable(TrainedOn(rows, Month(r.day)), minimum)}
    IN  {[row |-> r, train |-> TrainedOn(rows, Month(r.day))] : r \in tested}

WarmAfterWeeks(rows) == Min({r.day : r \in rows}) + WarmupDays
WeeksWalk(rows) == IF rows = {} THEN {} ELSE MonthlyRefit(rows, WarmAfterWeeks(rows), 2)

\* The warm-up ends at the event number MinTrainEvents, or at the last one.
WarmAfterEvents(rows) ==
    LET days == {r.day : r \in rows}
    IN  CHOOSE d \in days :
            Cardinality(Earlier(days, d)) = Min({MinTrainEvents, Cardinality(days) - 1})
EventsWalk(rows) ==
    IF rows = {} THEN {} ELSE MonthlyRefit(rows, WarmAfterEvents(rows), MinTrainEvents)
-----------------------------------------------------------------------------
(* main() of each script *)

GprAudit(data) == WeeksWalk(GprRows(data))
SteoAudit(data) == WeeksWalk(SteoRows(data))
PsmAudit(data) == WeeksWalk(PsmRows(data))
OpecAudit(data) == WeeksWalk(OpecRows(data))
WpsrAudit(data) == WeeksWalk(WpsrRows(data))
FomcAudit(data) == WeeksWalk(FomcRows(data))
LagAudit(data) == EventsWalk(LagRowsOf(data))

AuditNames == {"gpr", "steo", "psm", "opec_ministerial", "wpsr", "fomc", "wti_lag"}
Audit(name, data) ==
    CASE name = "gpr" -> GprAudit(data)
      [] name = "steo" -> SteoAudit(data)
      [] name = "psm" -> PsmAudit(data)
      [] name = "opec_ministerial" -> OpecAudit(data)
      [] name = "wpsr" -> WpsrAudit(data)
      [] name = "fomc" -> FomcAudit(data)
      [] name = "wti_lag" -> LagAudit(data)

\* compute_target_result in residual mode: the harness thins the events of the
\* admissible families again and counts the anchors that have a residual.
ResidualN(name, scored, data) ==
    Cardinality({s.row.day : s \in scored}
                    \cap KeptAnchors(HorizonOf(name), FamiliesOf(name) \cap data.admissible, data))
=============================================================================
