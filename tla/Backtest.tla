------------------------------ MODULE Backtest ------------------------------
(***************************************************************************)
(* scripts/forecast_backtest.py, the report people read before they let    *)
(* the ensemble forecast: it compares both versions on the last days of    *)
(* every SKU, several folds back.  Unlike the replay of the promotion job  *)
(* it goes by the calendar, so that a day without a row counts as one on   *)
(* which nothing was sold.                                                 *)
(***************************************************************************)
EXTENDS Replay

CONSTANTS
    Held,        \* --holdout, rows held out
    MinHistory,  \* --min-history, rows a SKU needs and rows that are used of it
    Folds,       \* --folds
    LeastTrain,  \* rows to train on beyond those held out, 7
    ManyZeros,   \* share of days without sales that makes a SKU intermittent, 3/10
    SlowDaily,   \* units a day below which it is, 3/2
    FastDaily    \* units a day from which it is fast, 10

ASSUME BacktestAssumption ==
    /\ Held \in Nat \ {0}
    /\ MinHistory \in Nat \ {0}
    /\ Folds \in Nat \ {0}
    /\ LeastTrain \in Nat

Tiers == {"high", "medium", "intermittent"}

\* classify_tier, which sees rows and not days.
Tier(values) ==
    CASE \/ AtMost(ManyZeros, Frac(Len(values) - Len(Sold(values)), Len(values)))
         \/ Less(Mean(values), SlowDaily) -> "intermittent"
      [] AtMost(FastDaily, Mean(values)) -> "high"
      [] OTHER -> "medium"

\* Mutant: the rows that are held out, whatever their days.
RowsOf(train, test) == Values(test)

\* aligned_actual: what was sold on every day from the end of the training to the last
\* row.  When the series begins later than that, the index of its first day is negative
\* and counts from the end.
Aligned(train, test) ==
    LET days == DOMAIN train \cup DOMAIN test
        values == Series([d \in days |-> IF d \in DOMAIN train THEN train[d] ELSE test[d]])
        n == Len(values)
        cutoff == n - (Latest(days) - Latest(DOMAIN train))
        first == IF cutoff < 0 THEN Latest({0, n + cutoff}) ELSE cutoff
    IN  SubSeq(values, first + 1, n)

\* The folds of a SKU, each of its rows to train on and its rows held out; the first is
\* the newest, and one that leaves too little to train on ends them.
Split(rows) ==
    LET days == Ordered(rows)
        used == SubSeq(days, Len(days) - MinHistory + 1, Len(days))
        Start(k) == MinHistory - k * Held
        Part(from, to) == [d \in ToSet(SubSeq(used, from, to)) |-> rows[d]]
        enough == SelectSeq([k \in 1..Folds |-> k], LAMBDA k : Start(k) >= Held + LeastTrain)
    IN  [i \in 1..Len(enough) |->
            [train |-> Part(1, Start(enough[i])),
             test |-> Part(Start(enough[i]) + 1, Start(enough[i]) + Held)]]

\* What the ensemble forecasts for the days held out.
FoldBundle(fold) ==
    Ensemble(fold.train, Len(Aligned(fold.train, fold.test)), NoCandidate, TRUE)

\* The band is read on a day it was not computed for, which ends the backtest.
Raises(fold) == Len(FoldBundle(fold).p10) < Len(Aligned(fold.train, fold.test))

\* One evaluation.
Compared(fold) ==
    LET train == Values(fold.train)
        actual == Aligned(fold.train, fold.test)
        bundle == FoldBundle(fold)
        within == {i \in 1..Len(actual) :
                      AtMost(bundle.p10[i], actual[i]) /\ AtMost(actual[i], bundle.p90[i])}
    IN  [tier |-> Tier(train),
         v1 |-> Wmape(Flat(Legacy(train), Len(actual)), actual),
         v2 |-> Wmape(bundle.predictions, actual),
         coverage |-> Frac(Cardinality(within), Len(actual)),
         sold |-> Total(actual)]

\* The folds of the SKUs that load_history returns.
AllFolds(histories) ==
    LET long == SelectSeq(histories, LAMBDA rows : Cardinality(DOMAIN rows) >= MinHistory)
    IN  FlattenSeq([i \in 1..Len(long) |-> Split(long[i])])

\* _pooled_wmape
PooledWmape(evaluations, version) ==
    IF \A i \in 1..Len(evaluations) : evaluations[i].sold = Zero THEN Zero
    ELSE Pooled(evaluations, version, BySales(evaluations))

\* _tier_stats.  The bias of the forecasts is left out.
Stats(evaluations) ==
    [evaluations |-> Len(evaluations),
     v1 |-> PooledWmape(evaluations, "v1"),
     v2 |-> PooledWmape(evaluations, "v2"),
     coverage |-> Pooled(evaluations, "coverage", Equally(evaluations))]

\* run_backtest: one report of all evaluations, and of those of every tier that has any;
\* or none, if a fold raises.
Reports(histories) ==
    LET folds == AllFolds(histories)
        evaluations == [i \in 1..Len(folds) |-> Compared(folds[i])]
        Of(tier) == SelectSeq(evaluations, LAMBDA e : e.tier = tier)
    IN  IF \E i \in 1..Len(folds) : Raises(folds[i]) THEN {}
        ELSE {[all |-> Stats(evaluations),
               by_tier |-> [tier \in {t \in Tiers : Of(t) # << >>} |-> Stats(Of(tier))]]}
=============================================================================
