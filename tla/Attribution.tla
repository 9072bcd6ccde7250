---------------------------- MODULE Attribution ----------------------------
(***************************************************************************)
(* The arithmetic of the v1 decision path: Controller.decide of            *)
(* controller/decision.py, and the four places that recompute its signal   *)
(* for themselves: leave-one-desk-out (attribution/lodo.py), Shapley       *)
(* values (attribution/shapley.py), and the hot-swap gate                  *)
(* (eval/hot_swap.py).                                                     *)
(*                                                                         *)
(* A desk has one target variable, so a (desk, target) key is a desk.      *)
(* Weights and point estimates are integers, in units of the cold-start    *)
(* weight 1/n and of a price step.  weights is a regime's latest row per   *)
(* desk, recent the forecast per desk that the caller hands over.          *)
(***************************************************************************)
EXTENDS Integers, FiniteSets, FiniteSetsExt, Functions, SequencesExt

CONSTANTS
    Desks,    \* desk names
    NULL      \* no forecast, no row

Forecasting(recent) == {d \in Desks : recent[d] # NULL}
Fresh(recent) == {d \in Forecasting(recent) : ~recent[d].staleness}
Weighted(weights) == {d \in Desks : weights[d] # NULL}

Clip(x, limit) == IF x > limit THEN limit ELSE IF x < -limit THEN -limit ELSE x

-----------------------------------------------------------------------------
(* Controller.decide *)

\* Mutant: a stale forecast still counts.
ContributingStale(weights, recent) ==
    {d \in Weighted(weights) \cap Forecasting(recent) : weights[d] # 0}
\* The desks that enter the decision: a row, a fresh forecast, weight not zero.
Contributing(weights, recent) ==
    {d \in Weighted(weights) \cap Fresh(recent) : weights[d] # 0}

CombinedSignal(weights, recent) ==
    SumFunction([d \in Contributing(weights, recent) |->
                    weights[d] * recent[d].point_estimate])

PositionSize(weights, params, recent) ==
    Clip(params.k_regime * CombinedSignal(weights, recent), params.pos_limit_regime)

-----------------------------------------------------------------------------
(* Leave one desk out *)

\* _counterfactual_combined_signal; NULL leaves nobody out
CounterfactualSignal(weights, recent, leaveOut) ==
    SumFunction([d \in (Weighted(weights) \cap Fresh(recent)) \ {leaveOut} |->
                    weights[d] * recent[d].point_estimate])

\* _counterfactual_position_size
CounterfactualPosition(weights, params, recent, leaveOut) ==
    Clip(params.k_regime * CounterfactualSignal(weights, recent, leaveOut),
         params.pos_limit_regime)

\* compute_lodo_signal_space raises unless it can reproduce the position ...
LodoReproduces(weights, params, decision) ==
    CounterfactualPosition(weights, params, decision.recent, NULL) = decision.position_size
\* ... and then gives every desk with a weight row the move it caused.
Lodo(weights, params, decision) ==
    [d \in Weighted(weights) |->
        decision.position_size - CounterfactualPosition(weights, params, decision.recent, d)]

\* compute_lodo_grading_space, against the unclipped signal
GradingLodoReproduces(weights, decision) ==
    CounterfactualSignal(weights, decision.recent, NULL) = decision.combined_signal
Square(x) == x * x
GradingLodo(weights, decision, print) ==
    [d \in Weighted(weights) |->
        Square(CounterfactualSignal(weights, decision.recent, d) - print)
            - Square(decision.combined_signal - print)]

-----------------------------------------------------------------------------
(* Shapley values, all multiplied by n! so that they stay whole numbers. *)

CoalitionSignal(weights, recent, S) ==
    SumFunction([d \in {x \in S \cap Weighted(weights) \cap Fresh(recent) : weights[x] # 0} |->
                    weights[d] * recent[d].point_estimate])
CoalitionPosition(weights, params, recent, S) ==
    Clip(params.k_regime * CoalitionSignal(weights, recent, S), params.pos_limit_regime)

Factorial[n \in 0..Cardinality(Desks)] == IF n = 0 THEN 1 ELSE n * Factorial[n - 1]

\* Mutant: the coalition's weight counts the desk itself.
OrderingsThrough(s, n) == Factorial[s] * Factorial[n - s]
\* Orderings of n desks in which a coalition of s comes just before a given desk.
Orderings(s, n) == Factorial[s] * Factorial[n - s - 1]

\* _shapley_values_for_decision, for a characteristic function v
ShapleyValues(players, v) ==
    [d \in players |->
        SumFunction([S \in SUBSET (players \ {d}) |->
                        Orderings(Cardinality(S), Cardinality(players))
                            * (v[S \cup {d}] - v[S])])]

\* One sample of _shapley_values_for_decision_sampled: the marginals along a
\* permutation, starting from the value of nobody.
SampleValues(permutation, v) ==
    [d \in ToSet(permutation) |->
        LET i == CHOOSE j \in DOMAIN permutation : permutation[j] = d
            before == {permutation[j] : j \in 1..(i - 1)}
        IN  v[before \cup {d}] - v[before]]

SignalValue(weights, params, recent) ==
    [S \in SUBSET Weighted(weights) |-> CoalitionPosition(weights, params, recent, S)]
Shapley(weights, params, recent) ==
    ShapleyValues(Weighted(weights), SignalValue(weights, params, recent))

(***************************************************************************)
(* The grading-space variant z-scores forecasts and prints over the review *)
(* window and takes the mean of the fresh forecasts of the coalition.  In a *)
(* window of at most two values a z-score is -1, 0 or 1.                    *)
(***************************************************************************)
ZScore(x, series) ==
    LET mean2 == FoldSeq(+, 0, series)
    IN  CASE Len(series) < 2 -> 0
          [] 2 * x > mean2 -> 1
          [] 2 * x < mean2 -> -1
          [] OTHER -> 0

\* _normalized_grading_inputs over the decisions that have a print
Normalised(decisions, i, prints) ==
    LET window == SelectSeq([j \in DOMAIN decisions |-> j], LAMBDA j : prints[j] # NULL)
        fresh(d) == SelectSeq(window, LAMBDA j : d \in Fresh(decisions[j].recent))
        points(d) == [m \in DOMAIN fresh(d) |-> decisions[fresh(d)[m]].recent[d].point_estimate]
    IN  [d \in Fresh(decisions[i].recent) |->
            ZScore(decisions[i].recent[d].point_estimate, points(d))]
NormalisedPrint(decisions, i, prints) ==
    LET window == SelectSeq([j \in DOMAIN decisions |-> j],
                            LAMBDA j : prints[j] # NULL /\ Fresh(decisions[j].recent) # {})
    IN  ZScore(prints[i], [m \in DOMAIN window |-> prints[window[m]]])

\* _coalition_grading_value_normalized, times the square of n!
GradingValue(players, scores, print) ==
    [S \in SUBSET players |->
        LET active == S \cap DOMAIN scores
            unit == Factorial[Cardinality(players)]
            mean == IF active = {} THEN 0
                    ELSE SumFunction([d \in active |-> scores[d]]) * (unit \div Cardinality(active))
        IN  -Square(mean - unit * print)]
GradingShapley(weights, decisions, i, prints) ==
    ShapleyValues(Weighted(weights),
                  GradingValue(Weighted(weights), Normalised(decisions, i, prints),
                               NormalisedPrint(decisions, i, prints)))

-----------------------------------------------------------------------------
(* Gate 3: the controller with the desk, then with a stub in its place *)

StubForecast == [id |-> 0, point_estimate |-> 0, staleness |-> TRUE]

\* The assertions of _run_real and _run_stub; the desk has weight not zero.
HotSwapPasses(weights, params, recent, d) ==
    LET swapped == [recent EXCEPT ![d] = StubForecast]
        real == CombinedSignal(weights, recent)
        stub == CombinedSignal(weights, swapped)
    IN  /\ d \in Fresh(recent) => d \in Contributing(weights, recent)
        /\ d \notin Contributing(weights, swapped)
        /\ stub - real = IF d \in Fresh(recent) THEN -(weights[d] * recent[d].point_estimate) ELSE 0
=============================================================================
