------------------------------- MODULE Replay -------------------------------
(***************************************************************************)
(* The hold-out replay of agent/forecast_engine.py, by which the promotion *)
(* job compares the ensemble with the first version, and its gates.  What  *)
(* ForecastEngine leaves open, whether the numbers pass, is computed here. *)
(***************************************************************************)
EXTENDS Demand

CONSTANTS
    EvalHoldout,    \* EVAL_HOLDOUT_DAYS, 7
    EvalMinTrain,   \* EVAL_MIN_TRAIN_DAYS, 14
    HighVelocity,   \* HIGH_VELOCITY_DAILY, in units a day
    MinEvaluable,   \* MIN_EVALUABLE_SKUS
    MapeRatioMax,   \* MAPE_RATIO_MAX
    BiasMax,        \* BIAS_MAX
    CoverageMin,    \* COVERAGE_MIN
    ZHalf           \* Z_50, half the width of the middle half in sigmas

ASSUME ReplayAssumption == EvalHoldout \in 1..MaxHorizon

\* The rows in the order of their days: the replay takes them for consecutive days.
Ordered(rows) == SetToSortSeq(DOMAIN rows, <)
Values(rows) == LET days == Ordered(rows) IN [i \in 1..Len(days) |-> Whole(rows[days[i]])]

Splits(rows) == Cardinality(DOMAIN rows) - EvalHoldout

TrainDays(rows) == {Ordered(rows)[i] : i \in 1..Splits(rows)}
Actual(rows) == SubSeq(Values(rows), Splits(rows) + 1, Len(Values(rows)))

\* Long enough, and sold in the hold-out.
Evaluable(rows) ==
    /\ Splits(rows) >= EvalMinTrain
    /\ Sold(Actual(rows)) # << >>

Errors(predicted, actual) ==
    LET sold == SetToSortSeq({i \in 1..Len(actual) : actual[i] # Zero}, <)
    IN  [j \in 1..Len(sold) |->
            Over(Distance(predicted[sold[j]], actual[sold[j]]), actual[sold[j]])]

\* evaluate_sku_holdout, of a SKU that can be evaluated.  Prophet takes no part.
Evaluated(rows) ==
    LET train == [d \in TrainDays(rows) |-> rows[d]]
        actual == Actual(rows)
        bundle == Ensemble(train, EvalHoldout, NoCandidate, TRUE)
        v1 == Flat(Legacy(Values(train)), EvalHoldout)
        low == Low(bundle.predictions, bundle.sigma, ZHalf)
        high == High(bundle.predictions, bundle.sigma, ZHalf)
        covered == {i \in 1..EvalHoldout : AtMost(low[i], actual[i]) /\ AtMost(actual[i], high[i])}
    IN  [avg |-> Mean(Values(rows)),
         mape |-> Mean(Errors(bundle.predictions, actual)),
         mape_v1 |-> Mean(Errors(v1, actual)),
         bias |-> Over(Minus(Total(bundle.predictions), Total(actual)), Total(actual)),
         coverage |-> Frac(Cardinality(covered), EvalHoldout),
         positive |-> Len(Sold(actual)),
         sold |-> Total(actual)]

\* Mutant: every SKU counts the same.
PooledAlike(metrics, field, weights) == Mean([i \in 1..Len(metrics) |-> metrics[i][field]])

\* The mean of a field over the SKUs by their weights.
Pooled(metrics, field, weights) ==
    Over(Total([i \in 1..Len(metrics) |-> Times(metrics[i][field], weights[i])]),
         Total(weights))

ByDays(metrics) == [i \in 1..Len(metrics) |-> Whole(metrics[i].positive)]
BySales(metrics) == [i \in 1..Len(metrics) |-> metrics[i].sold]
Equally(metrics) == [i \in 1..Len(metrics) |-> One]

Fast(metrics) == SelectSeq(metrics, LAMBDA m : AtMost(HighVelocity, m.avg))

\* summarize_holdout
Summary(histories) ==
    LET evaluable == SelectSeq(histories, Evaluable)
        metrics == [i \in 1..Len(evaluable) |-> Evaluated(evaluable[i])]
    IN  [evaluable |-> Len(evaluable),
         metrics |-> metrics,
         mape |-> IF metrics = << >> THEN Zero ELSE Pooled(metrics, "mape", ByDays(metrics)),
         mape_v1 |-> IF metrics = << >> THEN Zero ELSE Pooled(metrics, "mape_v1", ByDays(metrics)),
         bias |-> IF Fast(metrics) = << >> THEN Zero ELSE Pooled(Fast(metrics), "bias", BySales(Fast(metrics))),
         coverage |-> IF metrics = << >> THEN Zero ELSE Pooled(metrics, "coverage", Equally(metrics))]

\* build_gates, but for the days on shadow.  No proof against a first version without
\* error, and no bias without a fast SKU.
NumericGates(summary) ==
    /\ summary.evaluable >= MinEvaluable
    /\ summary.mape_v1 # Zero
    /\ AtMost(Over(summary.mape, summary.mape_v1), MapeRatioMax)
    /\ AtMost(Distance(summary.bias, Zero), BiasMax)
    /\ AtMost(CoverageMin, summary.coverage)
=============================================================================
