----------------------------- MODULE EvalDrills -----------------------------
(***************************************************************************)
(* The validation functions run after the S4 drills, each on inputs of its *)
(* own: a cross-validation, a walk-forward row by row, the scores of a     *)
(* quantile vector, the gates, the grading of one forecast, and an event   *)
(* audit.  As there, a drill leaves only whether it raised.                *)
(***************************************************************************)
EXTENDS S4Drills, Validation, EventAudits

CONSTANTS
    Sizes, SplitParams,     \* inputs of the cross-validation, bad ones included
    Series,                 \* rows of a walk-forward
    Warmup, WalkHorizon,
    Outcomes, Vectors,      \* outcome series, quantile vectors
    Nominals,               \* nominal coverages
    SkillCases,             \* <<forecasts, prints>>
    SignCases,              \* <<dev, test, expected_sign>>
    RhoFloor,               \* dev_rho_floor
    GradeCases,             \* <<forecast, print>>
    AuditCases              \* what an audit finds

\* What a forecast and a print may hold.
ForecastRow ==
    [target : STRING, kind : {"event", "clock"}, event_id : STRING, emission : Int,
     duration : Int, point : Int, sign : {"positive", "negative", "none"},
     lower : {Nothing} \cup Int, upper : {Nothing} \cup Int]
PrintRow == [target : STRING, event_id : STRING, realised : Int, value : Int]
\* ForecastV2 admits monotone vectors on the grid only; scores come with their
\* outcomes one by one.
ASSUME JudgementAssumption ==
    /\ Outcomes \subseteq Seq(Int) /\ Nominals \subseteq 0..LevelUnits
    /\ \A v \in Vectors : /\ v \in Seq(Int) /\ Len(v) = Len(QLevels)
                          /\ \A i, j \in DOMAIN v : i <= j => v[i] <= v[j]
    /\ SkillCases \subseteq Seq(Int) \X Seq(Int)
    /\ \A c \in SignCases : \A split \in {c[1], c[2]} :
          split \in Seq(Int) \X Seq(Int) /\ Len(split[1]) = Len(split[2])
    /\ RhoFloor \in Nat \X Nat
    /\ GradeCases \subseteq ForecastRow \X PrintRow

\* The sizes and the split's parameters are counts; a block (a month, a week,
\* "all") is a function of the bar's time that never goes back; each family's
\* releases are in the study, and prices are on days that begin at an epoch.
ASSUME EvaluationAssumption ==
    /\ Sizes \subseteq Nat
    /\ SplitParams \subseteq [n_blocks : Nat, test_blocks : Nat, horizon : Nat, embargo : Nat]
    /\ Warmup \in Nat /\ WalkHorizon \in Nat \ {0}
    /\ \A rows \in Series :
          /\ rows \in Seq([ts : Int, block : Int, realised : BOOLEAN])
          /\ \A i, j \in DOMAIN rows : rows[i].ts <= rows[j].ts => rows[i].block <= rows[j].block
    /\ {PerDay, MonthDays, LagRows, LongHorizon} \subseteq Nat \ {0}
    /\ {WarmupDays, MinPeriods, MinTrainEvents} \subseteq Nat
    /\ \A data \in AuditCases :
          /\ DOMAIN data.price \subseteq Nat
          /\ DOMAIN data.price # {} => \E last \in DOMAIN data.price : \A d \in DOMAIN data.price : d <= last
          /\ data.price \in [DOMAIN data.price -> Int]
          /\ data.releases \in [FamiliesOf("wti_lag") -> SUBSET Nat]
          /\ data.daily \subseteq Nat /\ data.since \in Nat

Move(to, with, res) == drill' = to /\ input' = with /\ result' = res
Keep == UNCHANGED <<day, history>>

SplitDrill ==
    /\ drill = "done"
    /\ \E n \in Sizes, p \in SplitParams :
          /\ Move("split", [n |-> n, p |-> p], IF ValidSplit(n, p) THEN Splits(n, p) ELSE {})
          /\ ok' = (ok /\ ValidSplit(n, p))
    /\ Keep

StartWalk ==
    /\ drill = "split"
    /\ \E rows \in Series :
          /\ ok' = (ok /\ ValidRows(rows, Warmup, WalkHorizon))
          /\ Move(IF ValidRows(rows, Warmup, WalkHorizon) THEN "walk" ELSE "walked",
                  [rows |-> rows, next |-> Warmup], BeforeWalk)
    /\ Keep
NextRow ==
    /\ drill = "walk"
    /\ result' = WalkRow(result, input.rows, input.next)
    /\ input' = [input EXCEPT !.next = @ + 1]
    /\ drill' = IF input.next + 1 = Len(input.rows) THEN "walked" ELSE "walk"
    /\ UNCHANGED <<day, history, ok>>

ScoreDrill ==
    /\ drill = "walked"
    /\ \E ys \in Outcomes, qv \in Vectors, nominal \in Nominals :
          /\ Move("score", [ys |-> ys, qv |-> qv, nominal |-> nominal],
                  [pinball |-> PinballSum(ys, qv), crps |-> Crps(ys, qv),
                   inside |-> IF HasInterval(nominal) THEN Covered(ys, qv, nominal) ELSE Nothing])
          /\ ok' = (ok /\ HasInterval(nominal))
    /\ Keep

GateDrill ==
    /\ drill = "score"
    /\ \E skill \in SkillCases, kind \in {"persistence", "zero"}, metric \in {"rmse", "mae"} :
          Move("skill", [forecasts |-> skill[1], prints |-> skill[2], kind |-> kind, metric |-> metric],
               [passed |-> GateSkill(skill[1], skill[2], kind, metric)])
    /\ UNCHANGED <<day, history, ok>>
SignDrill ==
    /\ drill = "skill"
    /\ \E c \in SignCases :
          Move("sign", [skill |-> result.passed, dev |-> c[1], test |-> c[2], expected |-> c[3]],
               [passed |-> GateSign(c[1], c[2], c[3], RhoFloor)])
    /\ UNCHANGED <<day, history, ok>>
HotSwapDrill ==
    /\ drill = "sign"
    /\ \E real, stub \in {"true", "false"} \cup Raised :
          Move("report", [skill |-> input.skill, sign |-> result.passed, real |-> real, stub |-> stub],
               [gate3 |-> GateHotSwap(real, stub),
                all_passed |-> AllPassed(input.skill, result.passed, GateHotSwap(real, stub))])
    /\ UNCHANGED <<day, history, ok>>

GradeDrill ==
    /\ drill = "report"
    /\ \E c \in GradeCases :
          /\ Move("grade", [f |-> c[1], p |-> c[2]], GradePairs(<<c>>))
          /\ ok' = (ok /\ Matches(c[1], c[2]))
    /\ Keep

\* An event audit is a script of its own.
AuditDrill ==
    /\ drill = "done"
    /\ \E name \in AuditNames, data \in AuditCases :
          Move("audit", [name |-> name, data |-> data], Audit(name, data))
    /\ UNCHANGED <<day, history, ok>>

EvalNext == \/ DrillNext \/ SplitDrill \/ StartWalk \/ NextRow \/ ScoreDrill \/ GateDrill
            \/ SignDrill \/ HotSwapDrill \/ GradeDrill \/ AuditDrill
EvalSpec == DrillInit /\ [][EvalNext]_drill_vars
-----------------------------------------------------------------------------
\* Properties.

\* The label of no training row reaches a test row, whichever blocks are tested;
\* with an embargo of at least a label's length the label of no test row
\* reaches a later training row either.
PurgeIsEnough ==
    drill = "split" => \A s \in result :
        /\ NoLabelLeakage(s, input.p.horizon)
        /\ input.p.embargo >= input.p.horizon =>
              \A i \in s.test : (i..(i + input.p.horizon)) \cap s.train = {}

\* Every row is tested equally often, and a row is kept out of the training
\* only if a test row is within its label or its embargo.
PurgeIsNotMore ==
    (drill = "split" /\ ValidSplit(input.n, input.p)) =>
        /\ \A i \in 0..(input.n - 1) : \A j \in 0..(input.n - 1) :
              Cardinality({s \in result : i \in s.test}) = Cardinality({s \in result : j \in s.test})
        /\ \A s \in result : \A i \in (0..(input.n - 1)) \ (s.test \cup s.train) :
              \E t \in s.test : t - input.p.horizon <= i /\ i <= t + input.p.embargo

\* The walk scores every realised row after the warm-up once; no forecast sees
\* a bar of its own time or later as long as no two bars have the same time,
\* and one forecaster serves each block.
WalkLooksBack ==
    drill = "walked" /\ ValidRows(input.rows, Warmup, WalkHorizon) =>
        LET row(x) == input.rows[x.row + 1]
            distinct == \A i, j \in DOMAIN input.rows : i < j => input.rows[i].ts < input.rows[j].ts
        IN  /\ {x.row : x \in ToSet(result.scored)}
                 = {i \in Warmup..(Len(input.rows) - 1) : input.rows[i + 1].realised}
            /\ \A x, y \in ToSet(result.scored) :
                  row(x).block = row(y).block <=> x.instance = y.instance
            /\ distinct => \A x \in ToSet(result.scored) : \A h \in x.history :
                  input.rows[h + 1].ts < row(x).ts

\* What an event was scored on was known when its anchor was: its features are
\* stamped no later, and as long as no label spans more days than the thinning
\* leaves between anchors, every training label had ended.
Horizon == HorizonOf(input.name)
LabelEnded(d) == LabelEnd(Horizon, d, input.data)
ScoredOnTheKnown ==
    drill = "audit" => \A s \in result :
        /\ \A t \in s.row.reads : t <= RowStamp(s.row.day)
        /\ (\A r \in s.train : LabelEnded(r.day) - r.day <= 2 * Horizon)
              => \A r \in s.train : LabelEnded(r.day) < s.row.day

\* An audit made on the day a label ended scores that event the same, whatever
\* was released or traded later, if the event follows the warm-up.
Cut(data, d) ==
    [price |-> [x \in {y \in Prices(data) : y <= d} |-> data.price[x]],
     releases |-> [f \in DOMAIN data.releases |-> {t \in data.releases[f] : t <= RowStamp(d)}],
     daily |-> {x \in data.daily : x <= d},
     content |-> data.content, admissible |-> data.admissible, since |-> data.since]
AfterWarmup(s) ==
    \/ input.name = "wti_lag"
    \/ s.row.day >= WarmupDays + Min({r.day : r \in s.train})
LaterDataChangesNothing ==
    drill = "audit" => \A s \in result :
        AfterWarmup(s) => s \in Audit(input.name, Cut(input.data, LabelEnded(s.row.day)))

\* The harness counts every anchor that was scored if it admits the audit's
\* families, and counts it once.
ResidualsCount ==
    (drill = "audit" /\ FamiliesOf(input.name) \subseteq input.data.admissible) =>
        ResidualN(input.name, result, input.data) = Cardinality({s.row.day : s \in result})

\* No row that is evaluated on helped to make the forecast it is compared with.
EvaluationLooksBack ==
    /\ PurgeIsEnough /\ PurgeIsNotMore /\ WalkLooksBack
    /\ ScoredOnTheKnown /\ LaterDataChangesNothing /\ ResidualsCount

\* The vector of the outcomes' own quantiles has the least pinball loss and the
\* least CRPS of all vectors: a desk cannot gain by misreporting.
IsEmpiricalQuantile(q, level, ys) ==
    /\ LevelUnits * Cardinality({t \in DOMAIN ys : ys[t] < q}) <= level * Len(ys)
    /\ level * Len(ys) <= LevelUnits * Cardinality({t \in DOMAIN ys : ys[t] <= q})
ScoresAreProper ==
    (drill = "score" /\ \A k \in DOMAIN QLevels : IsEmpiricalQuantile(input.qv[k], QLevels[k], input.ys)) =>
        \A other \in Vectors :
            result.pinball <= PinballSum(input.ys, other) /\ result.crps <= Crps(input.ys, other)

\* An interval with both ends further out covers no less, and the wider nominal
\* interval of one vector covers what the narrower does.
CoverageGrows ==
    (drill = "score" /\ HasInterval(input.nominal)) =>
        /\ \A other \in Vectors :
              (/\ \A k \in DOMAIN QLevels : 2 * QLevels[k] < LevelUnits => other[k] <= input.qv[k]
               /\ \A k \in DOMAIN QLevels : 2 * QLevels[k] > LevelUnits => other[k] >= input.qv[k]
               /\ \A k \in DOMAIN QLevels : 2 * QLevels[k] = LevelUnits => other[k] = input.qv[k])
                  => Covered(input.ys, other, input.nominal) >= result.inside
        /\ \A wider \in Nominals : HasInterval(wider) /\ wider >= input.nominal =>
              Covered(input.ys, input.qv, wider) >= result.inside

\* A desk that repeats the baseline never beats it, and a desk that passes
\* still passes when one of its forecasts is put right.
SkillIsEarned ==
    drill = "skill" =>
        /\ ~GateSkill([i \in DOMAIN input.prints |->
                          BaselineValue(input.kind, SubSeq(input.prints, 1, i - 1))],
                      input.prints, input.kind, input.metric)
        /\ result.passed => \A i \in DOMAIN input.prints :
              GateSkill([input.forecasts EXCEPT ![i] = input.prints[i]],
                        input.prints, input.kind, input.metric)

\* Gate 2 looks at the order of the scores only: any rescaling gives the same
\* verdict, and so does turning the scores and the claim round together.  No
\* desk passes with a claim and with its opposite.
Negated(s) == [i \in DOMAIN s |-> -s[i]]
Rescaled(s) == [i \in DOMAIN s |-> s[i] * s[i] * s[i] + s[i] - 1]
Opposite(sign) ==
    CASE sign = "positive" -> "negative" [] sign = "negative" -> "positive" [] OTHER -> sign
SignIsOrdinal ==
    drill = "sign" =>
        LET verdict(op(_), sign) ==
                GateSign(<<op(input.dev[1]), input.dev[2]>>, <<op(input.test[1]), input.test[2]>>,
                         sign, RhoFloor)
        IN  /\ verdict(Rescaled, input.expected) = result.passed
            /\ verdict(Negated, Opposite(input.expected)) = result.passed
            /\ result.passed => ~GateSign(input.dev, input.test, Opposite(input.expected), RhoFloor)

\* Grading has no favourite side: a forecast and its print turned round get the
\* same grade, and a claim and its opposite are never both right or both wrong.
GradeIsEven ==
    (drill = "grade" /\ result # Nothing) =>
        LET f == input.f
            mirrored == [f EXCEPT !.point = -f.point, !.sign = Opposite(f.sign),
                                  !.lower = IF f.upper = Nothing THEN Nothing ELSE -f.upper,
                                  !.upper = IF f.lower = Nothing THEN Nothing ELSE -f.lower]
            grade == result[1]
        IN  /\ Grade(mirrored, [input.p EXCEPT !.value = -input.p.value]) = grade
            /\ grade.sign_agreement # Nothing =>
                  Grade([f EXCEPT !.sign = Opposite(f.sign)], input.p).sign_agreement # grade.sign_agreement
            /\ Matches(f, [input.p EXCEPT !.realised = 2 * Expected(f) - input.p.realised])

\* What a desk is judged by does not depend on anything but how good it was.
JudgementsAreFair ==
    ScoresAreProper /\ CoverageGrows /\ SkillIsEarned /\ SignIsOrdinal /\ GradeIsEven
=============================================================================
