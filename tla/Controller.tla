----------------------------- MODULE Controller -----------------------------
(***************************************************************************)
(* The v1 decision service over one database: publishing forecasts and     *)
(* prints on the bus (bus/bus.py, persistence/db.py), the cold start       *)
(* (controller/cold_start.py), weight promotions, and Controller.decide.   *)
(*                                                                         *)
(* The process is single-threaded and every insert commits by itself, so a *)
(* crash can leave a part of a cold start or of a promotion; a new process *)
(* cold-starts again with a later boot_ts.  A new row is the latest of its *)
(* key (WeightTable models the ties).                                      *)
(***************************************************************************)
EXTENDS Attribution

CONSTANTS
    Regimes,        \* regime ids
    Points,         \* point estimates of forecasts
    PrintValues,    \* values of prints
    WeightValues,   \* weights a promotion can write; 0 retires the desk
    K, Limit,       \* k_regime and pos_limit_regime of the cold start
    MaxForecasts,   \* bound: forecasts published
    MaxDecisions,   \* bound: decisions
    MaxPromotions,  \* bound: promotions
    MaxCrashes      \* bound: crashes

VARIABLES
    signal_weights,     \* regime -> desk -> weight of the latest row, or NULL
    controller_params,  \* regime -> latest row or NULL
    forecasts,          \* ids in the forecasts table
    published,          \* forecasts constructed so far
    recent,             \* desk -> the forecast the subscriber of the bus holds
    decisions,          \* the decisions table, each with what decide() used
    prints,             \* decision -> its print or NULL
    writes,             \* the inserts still to do of a cold start or promotion
    promotions, crashes

tables == <<signal_weights, controller_params>>
log == <<forecasts, published, decisions, prints>>
service_vars == <<tables, log, recent, writes, promotions, crashes>>

Forecast == [id : 0..MaxForecasts, point_estimate : Points \cup {0}, staleness : BOOLEAN]
Params == [k_regime : {K}, pos_limit_regime : {Limit}]
NoForecasts == [d \in Desks |-> NULL]

ASSUME ControllerAssumption ==
    /\ IsFiniteSet(Desks) /\ IsFiniteSet(Regimes)
    /\ Points \subseteq Int /\ PrintValues \subseteq Int /\ WeightValues \subseteq Int
    /\ K \in Int /\ Limit \in Nat
    /\ {MaxForecasts, MaxDecisions, MaxPromotions, MaxCrashes} \subseteq Nat
    /\ NULL \notin Desks \cup WeightValues \cup PrintValues \cup {1}
    /\ NULL \notin Forecast /\ NULL \notin Params

\* One regime of seed_cold_start: the weights, then the params.
SeedRegime(r) ==
    [i \in 1..Cardinality(Desks) |->
        [table |-> "signal_weights", regime |-> r, desk |-> SetToSeq(Desks)[i], weight |-> 1]]
    \o <<[table |-> "controller_params", regime |-> r]>>
SeedColdStart == FlattenSeq([i \in 1..Cardinality(Regimes) |-> SeedRegime(SetToSeq(Regimes)[i])])

ServiceInit ==
    /\ signal_weights = [r \in Regimes |-> [d \in Desks |-> NULL]]
    /\ controller_params = [r \in Regimes |-> NULL]
    /\ forecasts = {} /\ published = 0 /\ decisions = <<>>
    /\ prints = [i \in 1..MaxDecisions |-> NULL]
    /\ recent = NoForecasts
    /\ writes = SeedColdStart
    /\ promotions = 0 /\ crashes = 0

\* insert_signal_weight or insert_controller_params
Insert ==
    /\ writes # <<>>
    /\ LET row == Head(writes)
       IN  IF row.table = "signal_weights"
           THEN /\ signal_weights' = [signal_weights EXCEPT ![row.regime][row.desk] = row.weight]
                /\ UNCHANGED controller_params
           ELSE /\ controller_params' = [controller_params EXCEPT ![row.regime] =
                                            [k_regime |-> K, pos_limit_regime |-> Limit]]
                /\ UNCHANGED signal_weights
    /\ writes' = Tail(writes)
    /\ UNCHANGED <<log, recent, promotions, crashes>>

\* promote_weights: a row for each desk that has one, written one after the
\* other
Promote(r, candidate) ==
    /\ writes = <<>> /\ promotions < MaxPromotions
    /\ LET desks == SetToSeq(Weighted(signal_weights[r]))
       IN  writes' = [i \in DOMAIN desks |->
                        [table |-> "signal_weights", regime |-> r, desk |-> desks[i],
                         weight |-> candidate[desks[i]]]]
    /\ promotions' = promotions + 1
    /\ UNCHANGED <<tables, log, recent, crashes>>

\* Mutant: subscribers are told before the row is inserted.
PublishUnsaved(d, point, stale, delivered) ==
    /\ writes = <<>> /\ published < MaxForecasts
    /\ published' = published + 1
    /\ recent' = [recent EXCEPT ![d] = [id |-> published + 1, point_estimate |-> point,
                                        staleness |-> stale]]
    /\ forecasts' = IF delivered THEN forecasts \cup {published + 1} ELSE forecasts
    /\ UNCHANGED <<tables, decisions, prints, writes, promotions, crashes>>
\* Bus.publish_forecast: insert, then the handlers in order; one that raises
\* keeps the forecast from those after it, but the row stays.
PublishForecast(d, point, stale, delivered) ==
    /\ writes = <<>> /\ published < MaxForecasts
    /\ published' = published + 1
    /\ forecasts' = forecasts \cup {published + 1}
    /\ recent' = IF delivered
                 THEN [recent EXCEPT ![d] = [id |-> published + 1, point_estimate |-> point,
                                             staleness |-> stale]]
                 ELSE recent
    /\ UNCHANGED <<tables, decisions, prints, writes, promotions, crashes>>

\* Mutant: decide() runs with whatever rows there are.
Seeded(r) == Weighted(signal_weights[r]) # {}
\* decide() raises without params or without any weight row.
Decidable(r) == controller_params[r] # NULL /\ Weighted(signal_weights[r]) # {}

\* Controller.decide and insert_decision
Decide(r) ==
    /\ writes = <<>> /\ Len(decisions) < MaxDecisions
    /\ Decidable(r)
    /\ decisions' = Append(decisions,
            [regime |-> r,
             combined_signal |-> CombinedSignal(signal_weights[r], recent),
             position_size |-> PositionSize(signal_weights[r], controller_params[r], recent),
             input_forecast_ids |-> {recent[d].id : d \in Contributing(signal_weights[r], recent)},
             recent |-> recent, weights |-> signal_weights[r]])
    /\ UNCHANGED <<tables, forecasts, published, prints, recent, writes, promotions, crashes>>

\* Bus.publish_print, for the decision it will grade
PublishPrint(i, value) ==
    /\ writes = <<>> /\ i \in DOMAIN decisions /\ prints[i] = NULL
    /\ prints' = [prints EXCEPT ![i] = value]
    /\ UNCHANGED <<tables, forecasts, published, decisions, recent, writes, promotions, crashes>>

\* The process dies and a new one cold-starts.
Crash ==
    /\ crashes < MaxCrashes
    /\ crashes' = crashes + 1
    /\ recent' = NoForecasts
    /\ writes' = SeedColdStart
    /\ UNCHANGED <<tables, log, promotions>>
\* The process dies in the middle of its writes; a new one is started on the
\* database without a cold start.
CrashWithoutSeed ==
    /\ crashes < MaxCrashes /\ writes # <<>>
    /\ crashes' = crashes + 1
    /\ recent' = NoForecasts
    /\ writes' = <<>>
    /\ UNCHANGED <<tables, log, promotions>>

ServiceNext ==
    \/ Insert
    \/ \E r \in Regimes, c \in [Desks -> WeightValues] : Promote(r, c)
    \/ \E d \in Desks, p \in Points, stale, delivered \in BOOLEAN :
          PublishForecast(d, p, stale, delivered)
    \/ \E r \in Regimes : Decide(r)
    \/ \E i \in DOMAIN decisions, v \in PrintValues : PublishPrint(i, v)
    \/ Crash
    \/ CrashWithoutSeed

ServiceSpec == ServiceInit /\ [][ServiceNext]_service_vars
-----------------------------------------------------------------------------
(* The database and what the process holds are well-formed; positions are
   within the regime's limit. *)
ServiceTypeOK ==
    /\ signal_weights \in [Regimes -> [Desks -> WeightValues \cup {1, NULL}]]
    /\ controller_params \in [Regimes -> Params \cup {NULL}]
    /\ forecasts \subseteq 1..MaxForecasts /\ published \in 0..MaxForecasts
    /\ recent \in [Desks -> Forecast \cup {NULL}]
    /\ \A i \in DOMAIN decisions : decisions[i].position_size \in -Limit..Limit
    /\ prints \in [1..MaxDecisions -> PrintValues \cup {NULL}]
    /\ promotions \in 0..MaxPromotions /\ crashes \in 0..MaxCrashes

Unmoved(i) == decisions[i].weights = signal_weights[decisions[i].regime]
WeightsOf(i) == signal_weights[decisions[i].regime]
ParamsOf(i) == controller_params[decisions[i].regime]

\* Every forecast a decision names is in the forecasts table, whatever handler
\* failed while it was published: a decision can be replayed from the database.
InputsPersisted == \A i \in DOMAIN decisions : decisions[i].input_forecast_ids \subseteq forecasts

\* No decision is taken on a regime whose cold start was cut short: there is a
\* row for every desk.
NoPartialColdStart ==
    \A i \in DOMAIN decisions : Weighted(decisions[i].weights) = Desks

\* A decision can be made again from the tables: its inputs and a whole set of
\* weights are in them.
DecisionsReplay == InputsPersisted /\ NoPartialColdStart

\* Attribution agrees with the decision it explains as long as the weights have
\* not moved: leave-one-out is what decide() itself would have changed had the
\* desk not forecast, in both spaces, and a desk that did not enter the
\* decision gets no credit.
AttributionReproduces ==
    \A i \in DOMAIN decisions : Unmoved(i) =>
        LET d == decisions[i]
            without(desk) == [d.recent EXCEPT ![desk] = NULL]
        IN  /\ LodoReproduces(WeightsOf(i), ParamsOf(i), d)
            /\ GradingLodoReproduces(WeightsOf(i), d)
            /\ \A desk \in Weighted(d.weights) :
                  /\ Lodo(WeightsOf(i), ParamsOf(i), d)[desk]
                       = d.position_size - PositionSize(d.weights, ParamsOf(i), without(desk))
                  /\ prints[i] # NULL =>
                       GradingLodo(WeightsOf(i), d, prints[i])[desk]
                         = Square(CombinedSignal(d.weights, without(desk)) - prints[i])
                             - Square(d.combined_signal - prints[i])
            /\ \A desk \in Desks \ Contributing(d.weights, d.recent) :
                  Shapley(WeightsOf(i), ParamsOf(i), d.recent)[desk] = 0

\* The exact values share out the whole position, clipping included, and are
\* the mean of the sampled ones over all orderings; graded against a print they
\* share out the loss, and a desk whose forecast was stale has no part in it.
ShapleyIsFair ==
    \A i \in DOMAIN decisions : Unmoved(i) =>
        LET v == SignalValue(WeightsOf(i), ParamsOf(i), decisions[i].recent)
            exact == ShapleyValues(Desks, v)
            scores == Normalised(decisions, i, prints)
            graded == GradingValue(Desks, scores, NormalisedPrint(decisions, i, prints))
            credit == GradingShapley(WeightsOf(i), decisions, i, prints)
        IN  /\ SumFunction(exact)
                 = Factorial[Cardinality(Desks)] * decisions[i].position_size
            /\ \A d \in Desks :
                 exact[d] = SumFunction([p \in SetToSeqs(Desks) |-> SampleValues(p, v)[d]])
            /\ prints[i] # NULL =>
                 /\ SumFunction(credit)
                      = Factorial[Cardinality(Desks)] * (graded[Desks] - graded[{}])
                 /\ \A d \in Desks : d \notin Fresh(decisions[i].recent) => credit[d] = 0

\* The credit handed out adds up to what was decided, by either account.
AttributionAddsUp == AttributionReproduces /\ ShapleyIsFair

\* A desk that passes the hot-swap gate's preconditions passes the gate,
\* whatever the other desks forecast: the gate never blames the wrong desk.
GateIsSound ==
    writes = <<>> => \A r \in Regimes, d \in Desks :
        (/\ Decidable(r) /\ d \in Weighted(signal_weights[r]) /\ signal_weights[r][d] # 0
         /\ recent[d] # NULL)
            => HotSwapPasses(signal_weights[r], controller_params[r], recent, d)

=============================================================================
