---------------------------- MODULE FamilySignal ----------------------------
(***************************************************************************)
(* From the desks' forecasts of one tick to a lot count: the checks of     *)
(* ForecastV2 (v2/contracts/forecast_v2.py), the family synthesiser        *)
(* (v2/synthesiser/), the control law and the execution adapter            *)
(* (v2/execution/).  PaperLive takes the results of this chain as given.   *)
(*                                                                         *)
(* Quantiles are whole numbers of a return step, levels and scores whole   *)
(* numbers of a unit each; everything derived from them is an exact        *)
(* fraction <<n, d>>, d > 0.  The pool takes its grid as an argument; the  *)
(* grid here holds the levels the control law reads, 0.05, 0.50 and 0.95.  *)
(***************************************************************************)
EXTENDS Integers, Sequences, FiniteSets, FiniteSetsExt

CONSTANTS
    NULL,
    Desks,
    Forecasts,      \* what a desk may emit
    FullScore,      \* the score 1.0
    Gain, SigmaFloor,   \* k and sigma_floor, fractions
    ZWidth,         \* z_95 - z_05, a fraction
    LotRisks,       \* lots that the reference risk buys at full budget, fractions
    Roundings, MaxAbsLots

VARIABLES
    stage,          \* "collect", "pool", "size", "done" or "raised"
    forecasts,      \* desk -> forecast or NULL
    family,         \* the FamilyForecast or NULL
    budget,         \* b_t or NULL
    order           \* the adapter's inputs and result or NULL

vars == <<stage, forecasts, family, budget, order>>

-----------------------------------------------------------------------------
(* Fractions *)

Gcd[a \in Nat, b \in Nat] == IF b = 0 THEN a ELSE Gcd[b, a % b]
Abs(n) == IF n < 0 THEN -n ELSE n
Frac(n, d) ==
    LET g == Gcd[Abs(n), Abs(d)]
        s == IF d < 0 THEN -1 ELSE 1
    IN  <<s * (n \div g), s * (d \div g)>>
Leq(x, y) == x[1] * y[2] <= y[1] * x[2]
Less(x, y) == x[1] * y[2] < y[1] * x[2]
Times(x, y) == Frac(x[1] * y[1], x[2] * y[2])
Over(x, y) == Frac(x[1] * y[2], x[2] * y[1])
Minus(x, y) == Frac(x[1] * y[2] - y[1] * x[2], x[2] * y[2])
Absolute(x) == <<Abs(x[1]), x[2]>>
One == <<1, 1>>
ClipOne(x) == IF Less(One, x) THEN One ELSE IF Less(x, <<-1, 1>>) THEN <<-1, 1>> ELSE x

-----------------------------------------------------------------------------
(* weighted_linear_pool_cdf *)

LevelUnits == 20
Levels == <<1, 10, 19>>
Grid == DOMAIN Levels

\* Mutant: the ends of the clipping are swapped.
DeskCdfSwapped(v, y) ==
    IF y < v[1] THEN <<Levels[Len(Levels)], 1>>
    ELSE LET j == Max({i \in Grid : v[i] <= y})
         IN  IF j = Len(Levels) THEN <<Levels[1], 1>>
             ELSE Frac(Levels[j] * (v[j + 1] - v[j]) + (Levels[j + 1] - Levels[j]) * (y - v[j]),
                       v[j + 1] - v[j])
\* np.interp(y, v, levels): the last i with v[i] <= y, then a straight line
DeskCdf(v, y) ==
    IF y < v[1] THEN <<Levels[1], 1>>
    ELSE LET j == Max({i \in Grid : v[i] <= y})
         IN  IF j = Len(Levels) THEN <<Levels[j], 1>>
             ELSE Frac(Levels[j] * (v[j + 1] - v[j]) + (Levels[j + 1] - Levels[j]) * (y - v[j]),
                       v[j + 1] - v[j])

Support(fs) == UNION {{f.quantile_vector[i] : i \in Grid} : f \in fs}
WeightRaw(f) == f.calibration_score * f.data_quality_score
TotalRaw(fs) == MapThenSumSet(WeightRaw, fs)

Plus(x, y) == Frac(x[1] * y[2] + y[1] * x[2], x[2] * y[2])
\* The sum of the weighted desk CDFs at y
FamilyCdf(fs, y) ==
    FoldSet(LAMBDA f, sum : Plus(sum, Times(Frac(WeightRaw(f), TotalRaw(fs)),
                                            DeskCdf(f.quantile_vector, y))),
            <<0, 1>>, fs)

\* np.interp(level, family_cdf, support)
FamilyQuantile(fs, level) ==
    LET below == {y \in Support(fs) : Leq(FamilyCdf(fs, y), <<level, 1>>)}
    IN  IF below = {} THEN <<Min(Support(fs)), 1>>
        ELSE LET y0 == Max(below)
                 above == {y \in Support(fs) : y > y0}
             IN  IF above = {} THEN <<y0, 1>>
                 ELSE LET y1 == Min(above)
                          run == Minus(FamilyCdf(fs, y1), FamilyCdf(fs, y0))
                          rise == Minus(<<level, 1>>, FamilyCdf(fs, y0))
                      IN  Plus(<<y0, 1>>, Times(<<y1 - y0, 1>>, Over(rise, run)))
Pool(fs) == [i \in Grid |-> FamilyQuantile(fs, Levels[i])]

-----------------------------------------------------------------------------
(* synthesise_family *)

Given(f) == {f[d] : d \in {e \in Desks : f[e] # NULL}}
\* assert_compatible, and the provenance the caller passes
Compatible(fs) == \A f \in fs : f.unit = "ours"
Abstaining(fs) == {f \in fs : f.abstain}
Contributing(fs) == {f \in fs : WeightRaw(f) > 0}

AbstainingFamily == [abstain |-> TRUE, quantile_vector |-> NULL, contributing |-> {}]
SynthesiseFamily(fs) ==
    IF Abstaining(fs) # {} \/ Contributing(fs) = {} THEN AbstainingFamily
    ELSE [abstain |-> FALSE, quantile_vector |-> Pool(Contributing(fs)),
          contributing |-> Contributing(fs)]

-----------------------------------------------------------------------------
(* compute_target_risk_budget *)

WeightedAvg(fs, score(_)) ==
    Frac(MapThenSumSet(LAMBDA f : WeightRaw(f) * score(f), fs), TotalRaw(fs) * FullScore)
Calibration(fs) == WeightedAvg(fs, LAMBDA f : f.calibration_score)
DataQuality(fs) == WeightedAvg(fs, LAMBDA f : f.data_quality_score)

SigmaEff(qv) ==
    LET sigma == Over(Minus(qv[3], qv[1]), ZWidth)
    IN  IF Less(sigma, SigmaFloor) THEN SigmaFloor ELSE sigma
TargetRiskBudget(fam) ==
    IF fam.abstain THEN NULL
    ELSE ClipOne(Times(Times(Gain, Over(fam.quantile_vector[2], SigmaEff(fam.quantile_vector))),
                       Times(Calibration(fam.contributing), DataQuality(fam.contributing))))

\* monotone_b_tilde: the rule without scores that Layer 3 audits a family by
ShadowBudget(q50, sigma) ==
    ClipOne(Times(Gain, Over(q50, IF Less(sigma, SigmaFloor) THEN SigmaFloor ELSE sigma)))

-----------------------------------------------------------------------------
(* target_lots; full is reference_risk / (multiplier * price * volatility) *)

Floor(x) == x[1] \div x[2]
Ceil(x) == -((-x[1]) \div x[2])
\* Python's round: to even on a half
Nearest(x) ==
    LET low == Floor(x)
        twice == 2 * x[1] - 2 * low * x[2]
    IN  IF twice < x[2] \/ (twice = x[2] /\ low % 2 = 0) THEN low ELSE low + 1
Cap(n) == IF n > MaxAbsLots THEN MaxAbsLots ELSE IF n < -MaxAbsLots THEN -MaxAbsLots ELSE n
Rounded(x, rounding) ==
    CASE rounding = "nearest" -> Nearest(x)
      [] rounding = "floor" -> Floor(x)
      [] OTHER -> Ceil(x)

\* Mutant: the budget is divided by the lots of a full budget.
TargetLotsInverted(b, full, rounding) ==
    LET lots == Cap(Rounded(Over(b, full), rounding))
    IN  [full |-> full, rounding |-> rounding, rounded_lots |-> lots,
         effective_b |-> ClipOne(Over(<<lots, 1>>, full))]
TargetLots(b, full, rounding) ==
    LET lots == Cap(Rounded(Times(b, full), rounding))
    IN  [full |-> full, rounding |-> rounding, rounded_lots |-> lots,
         effective_b |-> ClipOne(Over(<<lots, 1>>, full))]

-----------------------------------------------------------------------------
(* One tick *)

Init ==
    /\ stage = "collect" /\ forecasts = [d \in Desks |-> NULL]
    /\ family = NULL /\ budget = NULL /\ order = NULL

By(d, f) ==
    [desk_id |-> d, quantile_vector |-> f.quantile_vector, abstain |-> f.abstain, unit |-> f.unit,
     calibration_score |-> f.calibration_score, data_quality_score |-> f.data_quality_score]
\* The validators of ForecastV2
Valid(f) ==
    f.abstain \/ \A i \in 1..(Len(Levels) - 1) : f.quantile_vector[i] <= f.quantile_vector[i + 1]

\* A desk's forecast; one that fails its validators raises out of the tick.
Emit(d, f) ==
    /\ stage = "collect" /\ forecasts[d] = NULL
    /\ IF Valid(f)
       THEN forecasts' = [forecasts EXCEPT ![d] = By(d, f)] /\ UNCHANGED stage
       ELSE stage' = "raised" /\ UNCHANGED forecasts
    /\ UNCHANGED <<family, budget, order>>

Synthesise ==
    /\ stage = "collect" /\ \A d \in Desks : forecasts[d] # NULL
    /\ IF Compatible(Given(forecasts))
       THEN stage' = "pool" /\ family' = SynthesiseFamily(Given(forecasts))
       ELSE stage' = "raised" /\ UNCHANGED family
    /\ UNCHANGED <<forecasts, budget, order>>

ControlLaw ==
    /\ stage = "pool"
    /\ budget' = TargetRiskBudget(family)
    /\ stage' = IF budget' = NULL THEN "done" ELSE "size"
    /\ UNCHANGED <<forecasts, family, order>>

Adapt(full, rounding) ==
    /\ stage = "size" /\ stage' = "done"
    /\ order' = TargetLots(budget, full, rounding)
    /\ UNCHANGED <<forecasts, family, budget>>

Next ==
    \/ \E d \in Desks, f \in Forecasts : Emit(d, f)
    \/ Synthesise
    \/ ControlLaw
    \/ \E full \in LotRisks, rounding \in Roundings : Adapt(full, rounding)

Spec == Init /\ [][Next]_vars
-----------------------------------------------------------------------------
Pooled == family # NULL /\ ~family.abstain
\* Neither two quantiles of a desk nor two desks' weights make the CDF jump
Smooth(f) == \A i \in 1..(Len(Levels) - 1) : f.quantile_vector[i] < f.quantile_vector[i + 1]

\* The stages are passed in order, budgets are within [-1, 1], and no order is
\* larger than the cap.
TypeOK ==
    /\ stage \in {"collect", "pool", "size", "done", "raised"}
    /\ \A d \in Desks : forecasts[d] # NULL => \E f \in Forecasts : forecasts[d] = By(d, f)
    /\ budget # NULL => Leq(Absolute(budget), One)
    /\ order # NULL => order.rounded_lots \in -MaxAbsLots..MaxAbsLots

\* A desk of no weight, by calibration or by data quality, has no influence:
\* the budget is the one the family would have without it.
ExcludedHasNoSay ==
    (Pooled /\ budget # NULL) =>
        \A d \in Desks :
            forecasts[d].calibration_score = 0 \/ forecasts[d].data_quality_score = 0 =>
                budget = TargetRiskBudget(SynthesiseFamily({forecasts[e] : e \in Desks \ {d}}))

\* The family's quantiles are ordered, and each lies between the desks' own.
WithinDesks ==
    (Pooled /\ \A f \in family.contributing : Smooth(f)) =>
        /\ \A i \in 1..(Len(Levels) - 1) :
              Leq(family.quantile_vector[i], family.quantile_vector[i + 1])
        /\ \A i \in Grid :
              /\ \E f \in family.contributing : Leq(<<f.quantile_vector[i], 1>>, family.quantile_vector[i])
              /\ \E f \in family.contributing : Leq(family.quantile_vector[i], <<f.quantile_vector[i], 1>>)

\* Pooling never makes the family bolder than its boldest desk, when their
\* scores are equal.
NeverBolder ==
    (/\ Pooled /\ budget # NULL
     /\ \A f, g \in family.contributing :
           Smooth(f) /\ f.calibration_score = g.calibration_score
                     /\ f.data_quality_score = g.data_quality_score) =>
        \E f \in family.contributing :
            Leq(Absolute(budget), Absolute(TargetRiskBudget(SynthesiseFamily({f}))))

\* The scores only take risk away: the budget has the direction of the shadow
\* rule on the same quantiles and is no larger.
WithinShadow ==
    (Pooled /\ budget # NULL) =>
        LET qv == family.quantile_vector
            shadow == ShadowBudget(qv[2], Over(Minus(qv[3], qv[1]), ZWidth))
        IN  Leq(Absolute(budget), Absolute(shadow)) /\ budget[1] * shadow[1] >= 0

\* Combining desks gives a view between theirs and no more risk than theirs.
PoolingIsModest == ExcludedHasNoSay /\ WithinDesks /\ NeverBolder /\ WithinShadow

\* Desks that agree on a direction never get a position in the other one, and an
\* order differs from what the budget asks for by less than a lot.
OrderFollowsDesks ==
    order # NULL =>
        /\ (\A f \in family.contributing : Smooth(f) /\ f.quantile_vector[2] >= 0)
              => order.rounded_lots >= 0
        /\ (\A f \in family.contributing : Smooth(f) /\ f.quantile_vector[2] <= 0)
              => order.rounded_lots <= 0
        /\ Abs(order.rounded_lots) < MaxAbsLots =>
              Less(Absolute(Minus(<<order.rounded_lots, 1>>, Times(budget, order.full))), One)
=============================================================================
