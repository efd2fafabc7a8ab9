------------------------------ MODULE Planning ------------------------------
(***************************************************************************)
(* The arithmetic of replenishment: how long the stock of a SKU lasts      *)
(* (agent/nodes/forecast_node.py), how much at risk it is (agent/risk.py)  *)
(* and how many units to order (agent/ordering.py).                        *)
(*                                                                         *)
(* Stock and orders are whole units, days of cover tenths of a day.  A     *)
(* forecast is an exact daily demand, counted in grains: how long stock    *)
(* lasts is computed from it, and what is passed on is the same demand     *)
(* rounded to hundredths of a unit, by which orders are planned.           *)
(***************************************************************************)
EXTENDS Integers

CONSTANTS
    None,    \* no forecast, no p90 band, no cover
    Grains   \* grains in a hundredth of a unit

ASSUME PlanningAssumption == Grains \in Nat \ {0}

SafetyBufferDays == 7

\* round(a / b) for a positive b, ties to even.
RoundDiv(a, b) ==
    LET twice == 2 * (a % b)
        up == twice > b \/ (twice = b /\ (a \div b) % 2 = 1)
    IN  IF up THEN a \div b + 1 ELSE a \div b

\* An exact demand in hundredths, as the forecast's row and the state carry it.
Rounded(demand) == IF demand = None THEN None ELSE RoundDiv(demand, Grains)

\* How long stock lasts at an exact demand, in tenths of a day; 999 days and more is no
\* statement at all.
DaysOfCover(stock, demand) ==
    IF demand = None THEN None
    ELSE IF demand <= 0 THEN None
    ELSE LET days == RoundDiv(1000 * Grains * stock, demand)
         IN  IF days < 9990 THEN days ELSE None

\* The lead time is the critical threshold, one and a half times it the warning one.
Classify(days, lead) ==
    IF days <= 10 * lead THEN "critical"
    ELSE IF days <= 15 * lead THEN "warning"
    ELSE "safe"

Severity == [safe |-> 0, warning |-> 1, critical |-> 2]

\* The level of the point forecast, or of its p90 band when that is worse.
RiskLevel(days, lead, daysP90) ==
    IF days = None THEN "safe"
    ELSE LET level == Classify(days, lead) IN
         IF daysP90 = None THEN level
         ELSE LET worst == Classify(daysP90, lead)
              IN  IF Severity[worst] > Severity[level] THEN worst ELSE level

\* Orders are planned for the p90 demand, where the forecast has one.
PlanningDailyDemand(predicted, p90) ==
    IF p90 = None THEN predicted
    ELSE IF p90 <= 0 \/ p90 <= predicted THEN predicted
    ELSE p90

\* Stock wanted until an order placed now has arrived, and a week longer.
Target(demand, lead) == demand * (lead + SafetyBufferDays)

\* What is missing to the target, in whole units, rounded up.
Missing(demand, stock, lead, onOrder) ==
    LET needed == Target(demand, lead) - 100 * (stock + onOrder)
    IN  IF needed <= 0 THEN 0 ELSE (needed + 99) \div 100

\* Mutant: the week of safety stock is forgotten.
ReorderQuantityNoBuffer(demand, stock, lead, moq, onOrder) ==
    IF demand <= 0 THEN 0
    ELSE LET needed == demand * lead - 100 * (stock + onOrder)
         IN  IF needed <= 0 THEN 0
             ELSE IF (needed + 99) \div 100 < moq THEN moq
             ELSE (needed + 99) \div 100

\* The missing units, but no fewer than the supplier sells.
ReorderQuantity(demand, stock, lead, moq, onOrder) ==
    IF demand <= 0 THEN 0
    ELSE LET quantity == Missing(demand, stock, lead, onOrder)
         IN  IF quantity > 0 /\ quantity < moq THEN moq ELSE quantity

\* What rounding hides is less than the week of safety stock: half a hundredth on every
\* day planned for, and half a tenth of a day of cover.
SurvivesRounding(demand, lead) == 10 * Grains * (lead + SafetyBufferDays) < 139 * demand
=============================================================================
