----------------------------- MODULE Validation -----------------------------
(***************************************************************************)
(* How forecasts are judged: the splits and the walk-forward of Layer 3    *)
(* (v2/eval/cpcv.py, v2/eval/walk_forward.py), its scores                  *)
(* (v2/eval/scoring.py), the three v1 gates (eval/gates.py, eval/data.py)  *)
(* and the grading of a forecast against a print (grading/match.py).       *)
(*                                                                         *)
(* Rows are numbered from 0.  Values are whole numbers of a step, levels   *)
(* whole numbers of 1/LevelUnits, and a mean is compared as a sum over the *)
(* same number of rows; Diebold-Mariano and the bootstrap are left out.    *)
(***************************************************************************)
EXTENDS Integers, Sequences, FiniteSets, FiniteSetsExt, Functions

CONSTANTS
    LevelUnits,     \* the level 1.0
    QLevels,        \* the quantile grid, increasing
    MinSamples,     \* samples of a split that gate 2 asks for, 10
    Tolerance,      \* DEFAULT_CLOCK_TOLERANCE
    Nothing         \* None, and a bound that is NaN

\* FIXED_QUANTILE_LEVELS: the grid is increasing and holds the median.
ASSUME GridAssumption ==
    /\ LevelUnits \in Nat /\ QLevels \in Seq(0..LevelUnits)
    /\ \A i \in 1..(Len(QLevels) - 1) : QLevels[i] < QLevels[i + 1]
    /\ \E m \in DOMAIN QLevels : 2 * QLevels[m] = LevelUnits
ASSUME NothingAssumption == Nothing \notin Int

Magnitude(x) == IF x < 0 THEN -x ELSE x
SignOf(x) == CASE x > 0 -> 1 [] x < 0 -> -1 [] OTHER -> 0

-----------------------------------------------------------------------------
(* Combinatorial purged cross-validation *)

\* chronological_block_bounds, as the set of rows of each block
Block(n, n_blocks, i) == ((i * n) \div n_blocks)..(((i + 1) * n) \div n_blocks - 1)

ValidSplit(n, p) == p.test_blocks < p.n_blocks /\ p.n_blocks \in 1..n

\* Mutant: the purge forgets the label's horizon.
PurgeEmbargoOnly(block, n, p) == Min(block)..(Max(block) + p.embargo) \cap 0..(n - 1)
\* Rows whose label reaches the block, and rows too soon after it
Purge(block, n, p) == (Min(block) - p.horizon)..(Max(block) + p.embargo) \cap 0..(n - 1)

\* generate_cpcv_splits: one split for each choice of the test blocks
Splits(n, p) ==
    {LET test == UNION {Block(n, p.n_blocks, i) : i \in ids}
         purged == UNION {Purge(Block(n, p.n_blocks, i), n, p) : i \in ids}
     IN  [ids |-> ids, test |-> test, train |-> (0..(n - 1)) \ (test \cup purged)]
     : ids \in kSubset(p.test_blocks, 0..(p.n_blocks - 1))}

\* assert_no_label_leakage passes
NoLabelLeakage(split, horizon) ==
    \A i \in split.train : (i..(i + horizon)) \cap split.test = {}

-----------------------------------------------------------------------------
(* run_walk_forward, one row at a time.  rows[i] has the bar's time, its     *)
(* block (month, week or "all") and whether its outcome is realised.         *)

BeforeWalk == [block |-> Nothing, instance |-> 0, scored |-> <<>>]

\* A row is a zero-based index; its history is the rows before it.
WalkRow(walk, rows, i) ==
    IF ~rows[i + 1].realised THEN walk
    ELSE LET refit == rows[i + 1].block # walk.block
             instance == IF refit THEN walk.instance + 1 ELSE walk.instance
         IN  [block |-> rows[i + 1].block, instance |-> instance,
              scored |-> Append(walk.scored, [row |-> i, instance |-> instance,
                                              history |-> 0..(i - 1)])]

\* Long enough, and the bars' times never go back
ValidRows(rows, warmup, horizon) ==
    /\ Len(rows) >= warmup + horizon
    /\ \A i \in 1..(Len(rows) - 1) : rows[i].ts <= rows[i + 1].ts

-----------------------------------------------------------------------------
(* Scores of a quantile vector *)

\* pinball_loss, times LevelUnits
Pinball(y, q, level) ==
    IF y >= q THEN level * (y - q) ELSE (LevelUnits - level) * (q - y)
PinballSum(ys, qv) ==
    SumFunction([t \in DOMAIN ys |->
        SumFunction([k \in DOMAIN qv |-> Pinball(ys[t], qv[k], QLevels[k])])])

\* approx_crps_from_quantiles, times the square of LevelUnits
Crps(ys, qv) ==
    SumFunction([t \in DOMAIN ys |->
        SumFunction([k \in 1..(Len(qv) - 1) |->
            (QLevels[k + 1] - QLevels[k])
                * (Pinball(ys[t], qv[k], QLevels[k]) + Pinball(ys[t], qv[k + 1], QLevels[k + 1]))])])

\* The sign of y minus the quantile at tau, a straight line between levels
Against(y, qv, tau) ==
    IF tau = QLevels[Len(QLevels)] THEN SignOf(y - qv[Len(qv)])
    ELSE LET j == Max({k \in DOMAIN QLevels : QLevels[k] <= tau})
         IN  SignOf((y - qv[j]) * (QLevels[j + 1] - QLevels[j])
                        - (qv[j + 1] - qv[j]) * (tau - QLevels[j]))
\* interval_coverage raises for an interval wider than the grid
HasInterval(nominal) ==
    LET tail == (LevelUnits - nominal) \div 2
    IN  tail >= QLevels[1] /\ LevelUnits - tail <= QLevels[Len(QLevels)]
\* ... and otherwise counts the outcomes inside, its ends included.
Covered(ys, qv, nominal) ==
    LET tail == (LevelUnits - nominal) \div 2
    IN  Cardinality({t \in DOMAIN ys : /\ Against(ys[t], qv, tail) >= 0
                                       /\ Against(ys[t], qv, LevelUnits - tail) <= 0})

-----------------------------------------------------------------------------
(* Gate 1: skill against a baseline that sees the prints before the row *)

PersistenceBaseline(prior) == IF prior = <<>> THEN 0 ELSE prior[Len(prior)]
ZeroReturnBaseline(prior) == 0
BaselineValue(kind, prior) ==
    IF kind = "persistence" THEN PersistenceBaseline(prior) ELSE ZeroReturnBaseline(prior)
BaselineErrors(kind, prints) ==
    [i \in DOMAIN prints |-> prints[i] - BaselineValue(kind, SubSeq(prints, 1, i - 1))]

Loss(errors, metric) ==
    SumFunction([i \in DOMAIN errors |-> IF metric = "rmse" THEN errors[i] * errors[i]
                                                           ELSE Magnitude(errors[i])])
GateSkill(forecasts, prints, kind, metric) ==
    /\ Len(forecasts) = Len(prints) /\ Len(prints) >= 2
    /\ metric \in {"rmse", "mae"}
    /\ Loss([i \in DOMAIN prints |-> prints[i] - forecasts[i]], metric)
         < Loss(BaselineErrors(kind, prints), metric)

-----------------------------------------------------------------------------
(* Gate 2: the sign of Spearman's rho on the dev and on the test split *)

\* Mutant: tied values are ranked in the order they come.
RanksByPosition(s) ==
    [i \in DOMAIN s |-> 2 * Cardinality({j \in DOMAIN s : s[j] < s[i] \/ (s[j] = s[i] /\ j < i)}) + 2]
\* Twice the rank; tied values share the mean of theirs.
Ranks(s) ==
    [i \in DOMAIN s |-> 2 * Cardinality({j \in DOMAIN s : s[j] < s[i]})
                          + Cardinality({j \in DOMAIN s : s[j] = s[i]}) + 1]
Centred(r) == [i \in DOMAIN r |-> Len(r) * r[i] - SumFunction(r)]
Covariance(a, b) ==
    LET x == Centred(Ranks(a))
        y == Centred(Ranks(b))
    IN  SumFunction([i \in DOMAIN x |-> x[i] * y[i]])
\* rho is NaN when either side is constant
Defined(a, b) == Covariance(a, a) # 0 /\ Covariance(b, b) # 0
\* |rho| >= dev_rho_floor, the fraction floor
ReachesFloor(a, b, floor) ==
    Covariance(a, b) * Covariance(a, b) * floor[2] * floor[2]
        >= floor[1] * floor[1] * Covariance(a, a) * Covariance(b, b)

\* dev and test are <<scores, outcomes>>
GateSign(dev, test, expected_sign, floor) ==
    LET wanted == IF expected_sign = "positive" THEN 1 ELSE -1
        rho(split) == SignOf(Covariance(split[1], split[2]))
    IN  /\ expected_sign \in {"positive", "negative"}
        /\ Len(dev[1]) >= MinSamples /\ Len(test[1]) >= MinSamples
        /\ Defined(dev[1], dev[2]) /\ Defined(test[1], test[2])
        /\ rho(dev) = wanted /\ ReachesFloor(dev[1], dev[2], floor)
        /\ rho(test) = rho(dev)

-----------------------------------------------------------------------------
(* Gate 3 and the report.  A closure returns or raises. *)

Raised == {"assertion_failure", "controller_exception"}
GateHotSwap(real, stub) ==
    IF real \in Raised THEN [passed |-> FALSE, failure_mode |-> real, ran_stub |-> FALSE]
    ELSE IF stub \in Raised THEN [passed |-> FALSE, failure_mode |-> stub, ran_stub |-> TRUE]
    ELSE [passed |-> real = "true" /\ stub = "true", ran_stub |-> TRUE,
          failure_mode |-> IF real = "true" /\ stub = "true" THEN "passed" ELSE "controller_exception"]

\* GateRunner.run and GateReport.all_passed
AllPassed(skill, sign, hotSwap) == skill /\ sign /\ hotSwap.passed

-----------------------------------------------------------------------------
(* Grading *)

\* When a clock horizon ends, and when an event was expected at emission
Expected(f) == f.emission + f.duration
Matches(f, p) ==
    /\ f.target = p.target
    /\ IF f.kind = "event" THEN p.event_id = f.event_id
       ELSE Magnitude(p.realised - Expected(f)) <= Tolerance

SignAgreement(f, err) ==
    IF f.sign = "none" \/ err = 0 THEN Nothing
    ELSE (IF err > 0 THEN "positive" ELSE "negative") = f.sign
Grade(f, p) ==
    LET err == p.value - f.point
    IN  [squared_error |-> err * err, absolute_error |-> Magnitude(err),
         sign_agreement |-> SignAgreement(f, err),
         within_uncertainty |-> IF Nothing \in {f.lower, f.upper} THEN Nothing
                                ELSE f.lower <= p.value /\ p.value <= f.upper,
         slip |-> IF f.kind = "event" THEN p.realised - Expected(f) ELSE Nothing]
\* A batch with a pair that does not match raises; none of it is graded.
GradePairs(pairs) ==
    IF \A i \in DOMAIN pairs : Matches(pairs[i][1], pairs[i][2])
    THEN [i \in DOMAIN pairs |-> Grade(pairs[i][1], pairs[i][2])] ELSE Nothing
=============================================================================
