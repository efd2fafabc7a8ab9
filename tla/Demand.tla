------------------------------- MODULE Demand -------------------------------
(***************************************************************************)
(* Forecasting one SKU: agent/forecast.py, over exact fractions.  From the *)
(* days on which a SKU sold to a daily forecast with its band: the days    *)
(* between are filled with zeros, probable stockouts with demand, every    *)
(* candidate model is scored on the last days, the best one, or two that   *)
(* are close, forecasts.                                                   *)
(*                                                                         *)
(* The code's numbers are parameters, so that short series meet every      *)
(* case.  Rounding to three or four digits is left out.                    *)
(***************************************************************************)
EXTENDS Fractions, FiniteSets

CONSTANTS
    MaxSeriesDays,    \* MAX_SERIES_DAYS, 730
    Week,             \* days of a week, 7
    WeeklyStrength,   \* WEEKLY_STRENGTH_THRESHOLD, 3/10
    ZeroShare,        \* INTERMITTENT_ZERO_SHARE, 6/10
    MinNonzero,       \* INTERMITTENT_MIN_NONZERO, 14
    MinActive,        \* days with sales that make a window active, 3
    TrendMinDaily,    \* TREND_MIN_DAILY, 10 units a day
    Tolerance,        \* BLEND_RELATIVE_TOLERANCE, 1/10
    AlphaGrid,        \* ALPHA_GRID
    HoltGrid,         \* HOLT_ALPHA_GRID and HOLT_BETA_GRID, as pairs
    Damping,          \* DAMPING_PHI, 9/10
    CrostonAlpha,     \* alpha of fit_croston, 1/5
    LegacyAlpha,      \* alpha of exponential_smoothing, 3/10
    HoldoutSteps,     \* <<n, days>>: with n observations so many days are held out
    MaxHorizon,       \* most days that are forecast, 365
    Spread,           \* Spread[i]: the square root of i, not above 2
    ToSigma,          \* 1.4826
    ToBand,           \* 1.2816
    LeastError,       \* 1e-6, the least error a weight is the inverse of
    NoCandidate

\* More than nothing and less than all.
Share(a) == a \in Fraction /\ 0 < a[1] /\ a[1] < a[2]

ASSUME DemandAssumption ==
    /\ MaxSeriesDays \in Nat \ {0}
    /\ MaxHorizon \in 1..MaxSeriesDays
    /\ Week \in Nat \ {0}
    /\ AlphaGrid \in Seq(Fraction) /\ AlphaGrid # << >>
    /\ \A i \in 1..Len(AlphaGrid) : Share(AlphaGrid[i])
    /\ HoltGrid # << >>
    /\ Share(CrostonAlpha)
    /\ IsFiniteSet(HoldoutSteps) /\ HoldoutSteps \subseteq Nat \X Nat
    /\ \A step \in HoldoutSteps : step[2] < step[1]
    /\ LeastError \in Fraction /\ LeastError[1] > 0

-----------------------------------------------------------------------------
(* The series and its diagnosis.                                           *)

\* The greatest and the least of a set of numbers.
Latest(days) == CHOOSE x \in days : \A y \in days : y <= x
Earliest(days) == CHOOSE x \in days : \A y \in days : x <= y

\* What a SKU sold on the days it has a row for.
History(rows) ==
    /\ IsFiniteSet(DOMAIN rows) /\ DOMAIN rows \subseteq Nat
    /\ \A d \in DOMAIN rows : rows[d] \in Nat

\* prepare_series: rows[d] is what the SKU sold on day d; a day without a row is a zero.
Series(rows) ==
    IF DOMAIN rows = {} THEN << >>
    ELSE LET end == Latest(DOMAIN rows)
             start == Latest({Earliest(DOMAIN rows), end - MaxSeriesDays + 1})
         IN  [i \in 1..(end - start + 1) |->
                 LET day == start + i - 1
                 IN  IF day \in DOMAIN rows THEN Whole(rows[day]) ELSE Zero]

Sold(values) == SelectSeq(values, LAMBDA v : v # Zero)

\* The means of the days of the week.
Phases(values) ==
    [p \in 1..Week |->
        Mean([i \in 1..((Len(values) + Week - p) \div Week) |-> values[Week * (i - 1) + p]])]

\* _weekly_strength, compared with its threshold.
Weekly(values) ==
    LET n == Len(values)
        means == Phases(values)
        overall == Mean(values)
    IN  /\ n >= 2 * Week
        /\ overall # Zero
        /\ \E p, q \in 1..Week :
              AtMost(Times(WeeklyStrength, overall), Minus(means[p], means[q]))

\* diagnose: few sales, or few days with sales.
Intermittent(values) ==
    LET n == Len(values)
        sold == Len(Sold(values))
    IN  n = 0 \/ sold < MinNonzero \/ AtMost(ZeroShare, Frac(n - sold, n))

\* impute_censored_days: a day without sales between days with sales, in an active
\* window, is taken for a stockout and gets the mean of those days.
Impute(values) ==
    [i \in 1..Len(values) |->
        LET lo == Latest({1, i - Week})
            hi == Earliest({Len(values), i + Week})
            around == Sold(SubSeq(values, lo, hi))
        IN  IF /\ values[i] = Zero
               /\ Len(around) >= MinActive
               /\ Sold(SubSeq(values, lo, i - 1)) # << >>
               /\ Sold(SubSeq(values, i + 1, hi)) # << >>
            THEN Mean(around) ELSE values[i]]

-----------------------------------------------------------------------------
(* The models.  Each forecasts h days from a series.                       *)

Flat(rate, h) == [i \in 1..h |-> rate]

\* _ses_path: the level after each value, which the value is already part of.
Levels(values, alpha) ==
    LET level[i \in 1..Len(values)] ==
            IF i = 1 THEN values[1] ELSE Mix(alpha, values[i], level[i - 1])
    IN  level

\* _one_step_mse, but for the common factor: what a fitted path is away from the values.
Misfit(values, fitted) ==
    Total([i \in 1..(Len(values) - 1) |->
              LET d == Minus(values[i + 1], fitted[i + 1]) IN Times(d, d)])

\* The first of the parameters whose path fits best; below three values all fit alike.
BestFit(grid, values, paths) ==
    IF Len(values) < 3 THEN grid[1]
    ELSE grid[CHOOSE i \in 1..Len(grid) :
            \A j \in 1..Len(grid) :
               LET mine == Misfit(values, paths[i])
                   other == Misfit(values, paths[j])
               IN  IF j < i THEN Less(mine, other) ELSE AtMost(mine, other)]

\* fit_ses
Ses(values, h) ==
    IF values = << >> THEN Flat(Zero, h)
    ELSE LET paths == [i \in 1..Len(AlphaGrid) |-> Levels(values, AlphaGrid[i])]
             alpha == BestFit(AlphaGrid, values, paths)
         IN  Flat(Levels(values, alpha)[Len(values)], h)

\* _holt_state: level, trend and the value that was expected, after each value.
HoltStates(values, ab) ==
    LET state[i \in 1..Len(values)] ==
            IF i = 1
            THEN [level |-> values[1], expected |-> values[1],
                  trend |-> IF Len(values) > 1 THEN Minus(values[2], values[1]) ELSE Zero]
            ELSE LET old == state[i - 1]
                     damped == Times(Damping, old.trend)
                     expected == Plus(old.level, damped)
                     level == Mix(ab[1], values[i], expected)
                 IN  [level |-> level, expected |-> expected,
                      trend |-> Mix(ab[2], Minus(level, old.level), damped)]
    IN  state

\* The trend of i days, each damped once more than the one before.
Trend(trend, i) ==
    LET sum[k \in 0..i] == IF k = 0 THEN Zero ELSE Times(Damping, Plus(trend, sum[k - 1]))
    IN  sum[i]

\* fit_holt
Holt(values, h) ==
    LET Expected(ab) == [i \in 1..Len(values) |-> HoltStates(values, ab)[i].expected]
        paths == [i \in 1..Len(HoltGrid) |-> Expected(HoltGrid[i])]
        end == HoltStates(values, BestFit(HoltGrid, values, paths))[Len(values)]
    IN  IF values = << >> THEN Flat(Zero, h)
        ELSE [i \in 1..h |-> Larger(Zero, Plus(end.level, Trend(end.trend, i)))]

\* fit_seasonal: Holt without the pattern of the week, and the pattern again.
Seasonal(values, h) ==
    LET means == Phases(values)
        center == Mean(means)
        Index(i) == Minus(means[((i - 1) % Week) + 1], center)
        raw == Holt([i \in 1..Len(values) |-> Minus(values[i], Index(i))], h)
    IN  [i \in 1..h |-> Larger(Zero, Plus(raw[i], Index(Len(values) + i)))]

\* fit_croston: the mean sale over the mean interval, both smoothed.
Croston(values, h) ==
    LET nothing == [q |-> Zero, p |-> Zero, last |-> 0, rate |-> Zero]
        state[t \in 0..Len(values)] ==
            IF t = 0 THEN nothing
            ELSE LET old == state[t - 1]
                     first == old.last = 0
                     q == IF first THEN values[t] ELSE Mix(CrostonAlpha, values[t], old.q)
                     p == IF first THEN One
                          ELSE Mix(CrostonAlpha, Whole(t - old.last), old.p)
                     half == Over(CrostonAlpha, Whole(2))
                 IN  IF values[t] = Zero THEN old
                     ELSE [q |-> q, p |-> p, last |-> t,
                           rate |-> Times(Over(q, p), Minus(One, half))]
    IN  Flat(state[Len(values)].rate, h)

\* _fitter_for
Predict(name, values, h) ==
    CASE name = "ses" -> Ses(values, h)
      [] name = "holt" -> Holt(values, h)
      [] name = "seasonal_holt" -> Seasonal(values, h)
      [] name = "croston" -> Croston(values, h)
      [] name = "mean" -> Flat(Mean(values), h)

\* The seasonal model needs two weeks.
Fits(name, values) == name = "seasonal_holt" => Len(values) >= 2 * Week

\* legacy_predict_daily, the first version of the forecast.
Legacy(values) ==
    IF values = << >> THEN Zero
    ELSE Larger(Levels(values, LegacyAlpha)[Len(values)], Over(Mean(values), Whole(2)))

-----------------------------------------------------------------------------
(* Scores, the choice of a model, and the band.                            *)

\* holdout_days
Holdout(n) ==
    LET reached == {step \in HoldoutSteps : step[1] <= n}
    IN  IF reached = {} THEN 0 ELSE Latest({step[2] : step \in reached})

\* wmape: the sum of the errors over what was sold, at least one unit.
Wmape(predicted, actual) ==
    Over(Total([i \in 1..Len(actual) |-> Distance(predicted[i], actual[i])]),
         Larger(Total(actual), One))

\* score_fit
Score(name, train, actual) ==
    LET predicted == Predict(name, train, Len(actual))
    IN  [name |-> name,
         wmape |-> Wmape(predicted, actual),
         residuals |-> [i \in 1..Len(actual) |-> Minus(predicted[i], actual[i])]]

\* robust_sigma
RobustSigma(residuals) ==
    IF Len(residuals) < 3 THEN Zero
    ELSE LET median == Median(residuals)
         IN  Times(ToSigma,
                   Median([i \in 1..Len(residuals) |-> Distance(residuals[i], median)]))

\* confidence_band: it widens with the horizon, up to twice its width.
Width(sigma, i) == Times(Smaller(Larger(Spread[i], One), Whole(2)), sigma)
Low(path, sigma, z) ==
    [i \in 1..Len(path) |-> Larger(Zero, Minus(path[i], Times(z, Width(sigma, i))))]
High(path, sigma, z) ==
    [i \in 1..Len(path) |-> Plus(path[i], Times(z, Width(sigma, i)))]

\* Mutant: no gate for trends.
CandidatesAll(work, train, velocity) == <<"ses", "holt", "mean", "croston">>

\* The candidates that can be fitted; below a volume only those without a trend.
Candidates(work, train, velocity) ==
    LET weekly == IF Weekly(work) /\ Fits("seasonal_holt", train)
                  THEN <<"seasonal_holt">> ELSE << >>
    IN  IF Less(velocity, TrendMinDaily) THEN <<"ses", "mean", "croston">>
        ELSE <<"ses", "holt">> \o weekly \o <<"mean", "croston">>

\* The series the candidates work on: stockouts are filled at the same volume only.
Work(rows, correction) ==
    LET values == Series(rows)
    IN  IF correction /\ AtMost(TrendMinDaily, Mean(values)) THEN Impute(values) ELSE values

\* The scores in the order in which equal ones are preferred.
Scores(rows, external, correction) ==
    LET work == Work(rows, correction)
        n == Len(work)
        h == Holdout(n)
        train == SubSeq(work, 1, n - h)
        names == Candidates(work, train, Mean(Series(rows)))
        own == [i \in 1..Len(names) |-> Score(names[i], train, SubSeq(work, n - h + 1, n))]
    IN  IF h = 0 THEN << >>
        ELSE IF external = NoCandidate THEN own
        ELSE Append(own, [name |-> "prophet", wmape |-> external.wmape,
                          residuals |-> external.residuals])

\* The first of the lowest scores.
Best(scores, among) ==
    CHOOSE i \in among :
        \A j \in among :
            IF j < i THEN Less(scores[i].wmape, scores[j].wmape)
            ELSE AtMost(scores[i].wmape, scores[j].wmape)

\* _horizon_path: the model fitted to the whole series; Prophet brings its own path.
HorizonPath(name, work, h, external) ==
    LET path == IF name = "prophet"
                THEN [i \in 1..h |-> external.path[Earliest({i, Len(external.path)})]]
                ELSE IF Fits(name, work) THEN Predict(name, work, h) ELSE Flat(Zero, h)
    IN  [i \in 1..h |-> Larger(Zero, path[i])]

Blend(a, b, wa, wb) ==
    [i \in 1..Len(a) |->
        Over(Plus(Times(wa, a[i]), Times(wb, b[i])), Plus(wa, wb))]

Bundle(path, sigma, models) ==
    [predictions |-> path, sigma |-> sigma, models |-> models,
     p10 |-> Low(path, sigma, ToBand), p90 |-> High(path, sigma, ToBand)]

SigmaFloor(path) == Times(Frac(1, 10), Larger(Mean(path), One))

\* No history, or nothing but zeros.
EmptyBundle(h) == Bundle(Flat(Zero, h), Zero, {})

\* Too short to hold anything out: one model, by what the series looks like.
DefaultBundle(work, h) ==
    LET model == IF Intermittent(work) THEN "croston" ELSE "ses"
        path == Predict(model, work, h)
    IN  Bundle(path, SigmaFloor(path), {model})

\* The best, blended with the next when that is hardly worse.
ChosenBundle(scores, work, h, external) ==
    LET first == scores[Best(scores, 1..Len(scores))]
        others == {i \in 1..Len(scores) : scores[i] # first}
        second == scores[Best(scores, others)]
        close == /\ others # {}
                 /\ AtMost(second.wmape, Times(first.wmape, Plus(One, Tolerance)))
        Path(score) == HorizonPath(score.name, work, h, external)
        Weight(score) == Over(One, Larger(score.wmape, LeastError))
        path == IF close THEN Blend(Path(first), Path(second), Weight(first), Weight(second))
                ELSE Path(first)
    IN  Bundle(path,
               Larger(RobustSigma(first.residuals), SigmaFloor(path)),
               {first.name} \cup IF close THEN {second.name} ELSE {})

\* build_ensemble: a longer horizon than MaxHorizon is cut.
Ensemble(rows, horizon, external, correction) ==
    LET h == Latest({1, Earliest({horizon, MaxHorizon})})
        work == Work(rows, correction)
        scores == Scores(rows, external, correction)
    IN  IF \A i \in 1..Len(work) : work[i] = Zero THEN EmptyBundle(h)
        ELSE IF scores = << >> THEN DefaultBundle(work, h)
        ELSE ChosenBundle(scores, work, h, external)
=============================================================================
