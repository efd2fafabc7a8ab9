---------------------------- MODULE Forecasting ----------------------------
(***************************************************************************)
(* The forecasting runs of ForecastNode while sales are written, and what  *)
(* follows from the sales: the forecasts of Demand, what the promotion     *)
(* gates make of them in Replay, and the report in Backtest.               *)
(***************************************************************************)
EXTENDS ForecastNode, Backtest

CONSTANTS
    Portfolios,    \* what may have been sold: sequences of histories
    Externals      \* what Prophet may say of a history, or NoCandidate

ASSUME ForecastingAssumption ==
    /\ \A histories \in Portfolios : \A k \in 1..Len(histories) : History(histories[k])
    /\ \A x \in Externals \ {NoCandidate} : x.wmape \in Fraction

VARIABLE sales     \* the sales_history rows: a history for every SKU that has sold

history == <<node, sales>>

Opened == Unused /\ sales = << >>

\* The synchronisation and webhooks write what was sold.  The module SalesSync shows how.
Sell ==
    /\ sales' \in Portfolios
    /\ UNCHANGED node

Proceed ==
    \/ Operate /\ UNCHANGED sales
    \/ Sell

Selling == Opened /\ [][Proceed]_history

-----------------------------------------------------------------------------
(* Properties of the arithmetic: what follows from the sales, whatever     *)
(* they come to be.                                                        *)

Slow(rows) == Less(Mean(Series(rows)), TrendMinDaily)
Sales(rows) == {rows[d] : d \in DOMAIN rows}

\* It sold on one of the days the forecast goes by.
SoldLately(rows) == \E i \in 1..Len(Series(rows)) : Series(rows)[i] # Zero

\* Up to two days of forecasts of histories that sold little.
FlatWithin(histories) ==
    \A k \in 1..Len(histories), x \in Externals :
        LET rows == histories[k]
            bundle == Ensemble(rows, 2, x, TRUE)
        IN  Slow(rows) /\ SoldLately(rows) /\ "prophet" \notin bundle.models =>
                \A i \in 1..Len(bundle.predictions) :
                    /\ Less(Zero, bundle.predictions[i])
                    /\ AtMost(bundle.predictions[i], Whole(Latest(Sales(rows))))

\* A SKU that sells little, but sold on a day of its series, is never forecast to sell
\* nothing, which would take it out of the risk assessment, nor more than on its best day,
\* whatever the gaps in its history; only Prophet may say so (build_ensemble).
FlatWithinSales == [][FlatWithin(sales')]_sales

\* The days that are held out of a portfolio, with what was forecast for them.
HeldOut(histories) ==
    LET Days(rows) ==
            LET end == Latest(TrainDays(rows))
                train == [d \in TrainDays(rows) |-> rows[d]]
                path == Ensemble(train, EvalHoldout, NoCandidate, TRUE).predictions
            IN  [i \in 1..EvalHoldout |->
                    [actual |-> Whole(rows[end + i]), ensemble |-> path[i],
                     v1 |-> Legacy(Values(train))]]
    IN  FlattenSeq([i \in 1..Len(histories) |-> Days(histories[i])])

\* No day is missing from the days held out.
Gapless(rows) ==
    LET end == Latest(TrainDays(rows)) IN (end + 1)..(end + EvalHoldout) \subseteq DOMAIN rows

\* The summary against the days held out, where none of them is missing.
SummaryShows(histories) ==
    LET evaluable == SelectSeq(histories, Evaluable)
        days == HeldOut(evaluable)
        fast == HeldOut(SelectSeq(evaluable,
                    LAMBDA rows : AtMost(HighVelocity, Mean(Values(rows)))))
        summary == Summary(histories)
        Of(s, field) == [i \in 1..Len(s) |-> s[i][field]]
    IN  (\A i \in 1..Len(evaluable) : Gapless(evaluable[i])) =>
            /\ summary.mape = Mean(Errors(Of(days, "ensemble"), Of(days, "actual")))
            /\ summary.mape_v1 = Mean(Errors(Of(days, "v1"), Of(days, "actual")))
            /\ fast # << >> =>
                Times(summary.bias, Total(Of(fast, "actual")))
                    = Minus(Total(Of(fast, "ensemble")), Total(Of(fast, "actual")))

\* Where no day is missing from them, what the gates compare is what the whole portfolio
\* shows: the mean error of all days held out, every day counting the same, and what was
\* forecast too much for the fast SKUs in all over what they sold (summarize_holdout).
SummaryIsOfAllDays == [][SummaryShows(sales')]_sales

\* How many days the backtest holds out in a fold, and those days, the ones without a row
\* among them.
Span(fold) == Latest(DOMAIN fold.test) - Latest(DOMAIN fold.train)
Calendar(fold) ==
    LET end == Latest(DOMAIN fold.train)
        path == Ensemble(fold.train, Span(fold), NoCandidate, TRUE).predictions
    IN  [i \in 1..Span(fold) |->
            [actual |-> IF end + i \in DOMAIN fold.test THEN Whole(fold.test[end + i]) ELSE Zero,
             ensemble |-> path[i], v1 |-> Legacy(Values(fold.train))]]

\* The report against the days of its folds.
ReportShows(histories) ==
    LET folds == AllFolds(histories)
        spans == {Span(folds[i]) : i \in 1..Len(folds)}
        InTier(tier) == SelectSeq(folds, LAMBDA fold : Tier(Values(fold.train)) = tier)
        Shows(stats, chosen) ==
            LET days == FlattenSeq([i \in 1..Len(chosen) |-> Calendar(chosen[i])])
                Of(field) == [i \in 1..Len(days) |-> days[i][field]]
                Missed(field) ==
                    Total([i \in 1..Len(days) |-> Distance(days[i][field], days[i].actual)])
            IN  /\ Times(stats.v1, Total(Of("actual"))) = Missed("v1")
                /\ Times(stats.v2, Total(Of("actual"))) = Missed("ensemble")
    IN  /\ spans # {} /\ spans \subseteq 1..MaxHorizon =>
               \E report \in Reports(histories) :
                  /\ Shows(report.all, folds)
                  /\ \A tier \in Tiers : InTier(tier) # << >> =>
                        Shows(report.by_tier[tier], InTier(tier))
        /\ spans \cap (MaxHorizon + 1)..MaxSeriesDays # {} => Reports(histories) = {}

\* What the report says of all SKUs, and of those of a tier, is what their days show: the
\* units forecast wrongly on all days held out over the units sold, whichever days have no
\* row.  scripts/forecast_backtest.py:15 has it that such SKUs "are therefore scored
\* honestly"; but with more days between the training and the last row than are forecast
\* there is no report at all (run_backtest).
BacktestIsOfAllDays == [][ReportShows(sales')]_sales
=============================================================================
