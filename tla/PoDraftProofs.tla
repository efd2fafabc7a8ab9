---------------------------- MODULE PoDraftProofs ----------------------------
(***************************************************************************)
(* Proofs about the arithmetic of Planning, for all stocks, demands, lead  *)
(* times and minimum order quantities, about what the chat's tools make of *)
(* it, and about the pipeline runs of PoDraft, which order by it.          *)
(***************************************************************************)
EXTENDS PoDraft, ChatTools, FiniteSetTheorems, TLAPS

-----------------------------------------------------------------------------
(* What to order.                                                          *)

\* Rounding up to whole hundreds: the result covers x, and one less would not.
LEMMA CeilHundred ==
    ASSUME NEW x \in Int
    PROVE  LET c == (x + 99) \div 100
           IN  c \in Int /\ x <= 100 * c /\ 100 * c < x + 100
  OBVIOUS

\* The missing units are just enough: with them the stock and the units on order
\* reach the target, with one less they do not.
THEOREM MissingIsExact ==
    ASSUME NEW demand \in Int, NEW stock \in Int, NEW lead \in Int, NEW onOrder \in Int
    PROVE  LET q == Missing(demand, stock, lead, onOrder) IN
           /\ q \in Nat
           /\ 100 * (stock + onOrder + q) >= Target(demand, lead)
           /\ q > 0 => 100 * (stock + onOrder + q - 1) < Target(demand, lead)
<1> DEFINE t == Target(demand, lead)
<1> DEFINE needed == t - 100 * (stock + onOrder)
<1>1. t \in Int /\ needed \in Int
  BY DEF Target, SafetyBufferDays
<1>2. Missing(demand, stock, lead, onOrder) = IF needed <= 0 THEN 0 ELSE (needed + 99) \div 100
  BY DEF Missing
<1> HIDE DEF t
<1>3. QED
  BY <1>1, <1>2, CeilHundred DEF t

\* A rounded quotient is at most half below the true one.
LEMMA RoundDivBound ==
    ASSUME NEW a \in Int, NEW b \in Int, b > 0
    PROVE  RoundDiv(a, b) \in Int /\ 2 * a <= 2 * (b * RoundDiv(a, b)) + b
<1> DEFINE q == a \div b
<1> DEFINE m == a % b
<1>1. q \in Int /\ m \in Int /\ a = b * q + m /\ 0 <= m /\ m < b
  OBVIOUS
<1> HIDE DEF q, m
<1>2. CASE RoundDiv(a, b) = q + 1
  <2>1. b * (q + 1) = b * q + b
    BY <1>1
  <2> QED BY <1>1, <1>2, <2>1
<1>3. CASE RoundDiv(a, b) = q /\ 2 * m <= b
  BY <1>1, <1>3
<1>4. RoundDiv(a, b) = q + 1 \/ (RoundDiv(a, b) = q /\ 2 * m <= b)
  BY <1>1 DEF RoundDiv, q, m
<1> QED BY <1>2, <1>3, <1>4

\* Stock whose cover is critical at a demand falls short of the target at that demand as
\* it is rounded, if the demand survives it.
LEMMA CriticalIsShort ==
    ASSUME NEW stock \in Int, NEW lead \in Nat, NEW demand \in Int, demand > 0,
           RoundDiv(1000 * Grains * stock, demand) <= 10 * lead,
           NEW exact \in Int, demand <= exact, SurvivesRounding(exact, lead),
           NEW basis \in Int, 2 * exact <= 2 * (Grains * basis) + Grains
    PROVE  basis > 0 /\ Target(basis, lead) - 100 * stock > 0
<1> DEFINE days == RoundDiv(1000 * Grains * stock, demand)
<1> DEFINE need == Grains * stock
<1> DEFINE have == Grains * basis
<1>1. Grains \in Int /\ Grains > 0
  BY PlanningAssumption
<1>2. need \in Int /\ have \in Int /\ 1000 * Grains * stock = 1000 * need
  BY <1>1
<1>3. days \in Int /\ 2 * (1000 * need) <= 2 * (demand * days) + demand
  BY <1>1, <1>2, RoundDivBound
<1>4. demand * days <= demand * (10 * lead)
  BY <1>3
<1>5. demand * (10 * lead) = 10 * (demand * lead) /\ demand * lead <= exact * lead
      /\ demand * lead \in Int /\ exact * lead \in Int /\ Grains * lead \in Int
  BY <1>1
<1>6. 2000 * need <= 20 * (exact * lead) + exact
  <2> HIDE DEF days, need
  <2> QED BY <1>2, <1>3, <1>4, <1>5
<1>7. 10 * Grains * (lead + 7) = 10 * (Grains * lead) + 70 * Grains
  BY <1>1
<1>8. 10 * (Grains * lead) + 70 * Grains < 139 * exact
  BY <1>7 DEF SurvivesRounding, SafetyBufferDays
\* The rounded demand over the days planned for, in grains.
<1>9. /\ Grains * Target(basis, lead) = have * lead + 7 * have
      /\ have * lead \in Int /\ Target(basis, lead) \in Int
  BY <1>1 DEF Target, SafetyBufferDays
<1>10. 2 * (exact * lead) <= 2 * (have * lead) + Grains * lead
  <2>1. (2 * exact) * lead <= (2 * have + Grains) * lead
    BY <1>1, <1>2
  <2> QED BY <2>1, <1>1, <1>2
<1>11. Grains * Target(basis, lead) > 100 * need
  <2>1. 2 * exact <= 2 * have + Grains
    OBVIOUS
  <2>2. Grains * lead >= 0
    BY <1>1
  <2> HIDE DEF need, have
  <2> QED BY <2>1, <2>2, <1>1, <1>2, <1>5, <1>6, <1>8, <1>9, <1>10
<1>12. basis > 0
  <2>1. have > 0
    <3>1. Grains * lead >= 0 /\ 2 * exact <= 2 * have + Grains
      BY <1>1
    <3> HIDE DEF need, have
    <3> QED BY <3>1, <1>1, <1>2, <1>5, <1>8
  <2> QED BY <2>1, <1>1
<1>13. Target(basis, lead) - 100 * stock > 0
  <2>1. Grains * (Target(basis, lead) - 100 * stock) > 0
    BY <1>1, <1>9, <1>11
  <2>2. Target(basis, lead) - 100 * stock \in Int
    BY <1>9
  <2> HIDE DEF need, have
  <2> QED BY <2>1, <2>2, <1>1
<1> QED BY <1>12, <1>13

\* Rounding a demand pair and planning for it loses half a hundredth at most.
LEMMA PlannedIsRounded ==
    ASSUME None \notin Int,
           NEW predicted \in Int, predicted > 0, NEW p90 \in Int \cup {None}
    PROVE  LET exact == PlanningDailyDemand(predicted, p90)
               basis == PlanningDailyDemand(Rounded(predicted), Rounded(p90))
           IN  /\ exact \in Int /\ basis \in Int
               /\ predicted <= exact /\ (p90 # None => p90 <= exact)
               /\ 2 * exact <= 2 * (Grains * basis) + Grains
<1> DEFINE exact == PlanningDailyDemand(predicted, p90)
<1> DEFINE basis == PlanningDailyDemand(Rounded(predicted), Rounded(p90))
<1>1. Grains \in Int /\ Grains > 0
  BY PlanningAssumption
<1>2. ASSUME NEW d \in Int
      PROVE  Rounded(d) \in Int /\ 2 * d <= 2 * (Grains * Rounded(d)) + Grains
  BY <1>1, RoundDivBound DEF Rounded
<1>3. /\ exact \in {predicted, p90} /\ exact \in Int
      /\ predicted <= exact /\ (p90 # None => p90 <= exact)
  BY DEF PlanningDailyDemand
<1>4. Rounded(predicted) \in Int /\ Rounded(predicted) >= 0
  <2>1. 2 * predicted <= 2 * (Grains * Rounded(predicted)) + Grains
    BY <1>2
  <2>2. Rounded(predicted) \in Int
    BY <1>2
  <2>3. Grains * Rounded(predicted) > -Grains
    BY <2>1, <2>2, <1>1
  <2>4. Grains * (Rounded(predicted) + 1) > 0
    BY <2>2, <2>3, <1>1
  <2>5. Rounded(predicted) + 1 > 0
    BY <2>2, <2>4, <1>1
  <2> QED BY <2>2, <2>5
<1>5. /\ basis \in Int /\ Rounded(predicted) <= basis
      /\ p90 # None => Rounded(p90) \in Int /\ Rounded(p90) <= basis
  <2>1. p90 # None => Rounded(p90) \in Int
    BY <1>2
  <2>2. p90 = None => Rounded(p90) = None
    BY DEF Rounded
  <2> QED BY <1>4, <2>1, <2>2 DEF PlanningDailyDemand
<1>6. Rounded(exact) \in Int /\ Rounded(exact) <= basis
  BY <1>3, <1>4, <1>5
<1>7. Grains * Rounded(exact) <= Grains * basis
  BY <1>1, <1>5, <1>6
<1>8. 2 * exact <= 2 * (Grains * Rounded(exact)) + Grains
  BY <1>2, <1>3
<1>9. Grains * Rounded(exact) \in Int /\ Grains * basis \in Int
  BY <1>1, <1>5, <1>6
<1>10. 2 * exact <= 2 * (Grains * basis) + Grains
  <2> HIDE DEF exact, basis
  <2> QED BY <1>1, <1>3, <1>7, <1>8, <1>9
<1> QED BY <1>3, <1>5, <1>10

\* risk.py and ordering.py agree: a SKU that is critical, by its forecast or by the
\* p90 band, is ordered whenever nothing is on order, whatever the numbers, unless its
\* demand is so small that rounding it outweighs the week of safety stock.
THEOREM CriticalIsReordered ==
    ASSUME None \notin Int,
           NEW stock \in Int, NEW lead \in Nat, NEW moq \in Nat,
           NEW predicted \in Int, NEW p90 \in Int \cup {None},
           RiskLevel(DaysOfCover(stock, predicted), lead, DaysOfCover(stock, p90))
               = "critical",
           SurvivesRounding(PlanningDailyDemand(predicted, p90), lead)
    PROVE  ReorderQuantity(PlanningDailyDemand(Rounded(predicted), Rounded(p90)),
                           stock, lead, moq, 0) > 0
<1> DEFINE exact == PlanningDailyDemand(predicted, p90)
<1> DEFINE basis == PlanningDailyDemand(Rounded(predicted), Rounded(p90))
\* One of the two demands is critical, and orders are planned for no less.
<1>1. PICK d \in {predicted, p90} : /\ DaysOfCover(stock, d) # None
                                   /\ Classify(DaysOfCover(stock, d), lead) = "critical"
  BY DEF RiskLevel
<1>2. /\ d \in Int
      /\ d > 0
      /\ DaysOfCover(stock, d) = RoundDiv(1000 * Grains * stock, d)
  BY <1>1 DEF DaysOfCover
<1>3. RoundDiv(1000 * Grains * stock, d) \in Int /\ RoundDiv(1000 * Grains * stock, d) <= 10 * lead
  <2>1. 1000 * Grains * stock \in Int
    BY PlanningAssumption
  <2> QED BY <1>1, <1>2, <2>1, RoundDivBound DEF Classify
<1>4. DaysOfCover(stock, predicted) # None
  BY DEF RiskLevel
<1>5. predicted > 0
  BY <1>4 DEF DaysOfCover
<1>6. exact \in Int /\ basis \in Int /\ d <= exact
      /\ 2 * exact <= 2 * (Grains * basis) + Grains
  <2>1. /\ exact \in Int /\ basis \in Int
        /\ predicted <= exact /\ (p90 # None => p90 <= exact)
        /\ 2 * exact <= 2 * (Grains * basis) + Grains
    BY <1>5, PlannedIsRounded
  <2>2. d = predicted \/ (d = p90 /\ p90 # None)
    BY <1>2
  <2> HIDE DEF exact, basis
  <2> QED BY <2>1, <2>2
<1> HIDE DEF exact, basis
<1>7. basis > 0 /\ Target(basis, lead) - 100 * stock > 0
  BY <1>2, <1>3, <1>6, CriticalIsShort DEF exact
<1>8. Missing(basis, stock, lead, 0) \in Nat /\ Missing(basis, stock, lead, 0) > 0
  <2>1. /\ Missing(basis, stock, lead, 0) \in Nat
        /\ 100 * (stock + 0 + Missing(basis, stock, lead, 0)) >= Target(basis, lead)
    <3>1. basis \in Int /\ lead \in Int /\ 0 \in Int
      BY <1>6
    <3> QED BY <3>1, MissingIsExact, Zenon
  <2>2. Target(basis, lead) \in Int
    BY <1>6 DEF Target, SafetyBufferDays
  <2> QED BY <1>7, <2>1, <2>2
<1>9. ReorderQuantity(basis, stock, lead, moq, 0) > 0
  BY <1>6, <1>7, <1>8 DEF ReorderQuantity
<1> QED BY <1>9 DEF basis

-----------------------------------------------------------------------------
(* The chat's tools.                                                       *)

\* A greater demand never misses fewer units.
LEMMA MissingGrows ==
    ASSUME NEW a \in Int, NEW b \in Int, a <= b,
           NEW stock \in Int, NEW lead \in Nat, NEW onOrder \in Int
    PROVE  /\ Missing(a, stock, lead, onOrder) \in Nat
           /\ Missing(b, stock, lead, onOrder) \in Nat
           /\ Missing(a, stock, lead, onOrder) <= Missing(b, stock, lead, onOrder)
<1> DEFINE p == Target(a, lead) - 100 * (stock + onOrder)
<1> DEFINE q == Target(b, lead) - 100 * (stock + onOrder)
<1>1. p \in Int /\ q \in Int
  BY DEF Target, SafetyBufferDays
<1>2. p <= q
  <2>1. a * (lead + 7) <= b * (lead + 7)
    OBVIOUS
  <2> QED BY <2>1 DEF Target, SafetyBufferDays
<1>3. /\ Missing(a, stock, lead, onOrder) = IF p <= 0 THEN 0 ELSE (p + 99) \div 100
      /\ Missing(b, stock, lead, onOrder) = IF q <= 0 THEN 0 ELSE (q + 99) \div 100
  BY DEF Missing
<1> HIDE DEF p, q
<1>4. (p + 99) \div 100 \in Int /\ (q + 99) \div 100 \in Int
  BY <1>1
<1>5. p > 0 => (p + 99) \div 100 >= 0
  BY <1>1
<1>6. q > 0 => (q + 99) \div 100 >= 0
  BY <1>1
<1>7. (p + 99) \div 100 <= (q + 99) \div 100
  BY <1>1, <1>2
<1> QED BY <1>2, <1>3, <1>4, <1>5, <1>6, <1>7, <1>1

\* The chat's risk is the point forecast's, which the pipeline's is never below; and it
\* orders for the predicted demand, which the pipeline plans for at least.
THEOREM ToolsAreNoBolder ==
    ASSUME None \notin Int,
           NEW row,
           row.stock \in Int, row.on_order \in Int, row.moq \in Nat,
           row.predicted \in Int \cup {None}, row.p90 \in Int \cup {None},
           row.days \in Int \cup {None}, row.days_p90 \in Int \cup {None}
    PROVE  NoBolder(row)
<1> DEFINE daysP90 == row.days_p90
<1> DEFINE planned == PlanningDailyDemand(row.predicted, row.p90)
<1>1. Severity[ToolRisk(row.days)] <= Severity[RiskLevel(row.days, Lead, daysP90)]
  <2> HIDE DEF daysP90
  <2>1. \A days : Classify(days, Lead) \in {"safe", "warning", "critical"}
    BY DEF Classify
  <2>2. \A level \in {"safe", "warning", "critical"} : Severity[level] \in Int
    BY DEF Severity
  <2>3. CASE row.days = None
    BY <2>2, <2>3 DEF ToolRisk, RiskLevel
  <2>4. CASE row.days # None
    <3> DEFINE level == Classify(row.days, Lead)
    <3> DEFINE worst == Classify(daysP90, Lead)
    <3>1. ToolRisk(row.days) = level
      BY <2>4 DEF ToolRisk, RiskLevel
    <3>2. \/ RiskLevel(row.days, Lead, daysP90) = level
          \/ /\ RiskLevel(row.days, Lead, daysP90) = worst
             /\ Severity[worst] > Severity[level]
      BY <2>4 DEF RiskLevel
    <3>3. Severity[level] \in Int /\ Severity[worst] \in Int
      BY <2>1, <2>2
    <3> HIDE DEF level, worst
    <3> QED BY <3>1, <3>2, <3>3
  <2> QED BY <2>3, <2>4
<1>2. ASSUME row.predicted # None
      PROVE  Suggested(row)
                 <= ReorderQuantity(planned, row.stock, Lead, row.moq, row.on_order)
  <2>1. planned \in Int /\ row.predicted <= planned /\ row.predicted \in Int
    BY <1>2 DEF PlanningDailyDemand
  <2> DEFINE few == Missing(row.predicted, row.stock, Lead, row.on_order)
  <2> DEFINE many == Missing(planned, row.stock, Lead, row.on_order)
  <2>2. few \in Nat /\ many \in Nat /\ few <= many
    <3> HIDE DEF planned
    <3> QED BY <2>1, MissingGrows, ChatToolsAssumption
  <2>3. Suggested(row)
            = IF row.predicted <= 0 THEN 0
              ELSE IF few > 0 /\ few < row.moq THEN row.moq ELSE few
    BY <1>2 DEF Suggested, ReorderQuantity
  <2>4. ReorderQuantity(planned, row.stock, Lead, row.moq, row.on_order)
            = IF planned <= 0 THEN 0
              ELSE IF many > 0 /\ many < row.moq THEN row.moq ELSE many
    BY DEF ReorderQuantity
  <2> HIDE DEF planned, few, many
  <2> QED BY <2>1, <2>2, <2>3, <2>4
<1> QED BY <1>1, <1>2 DEF NoBolder

\* The order of the answer is that of the answers of find_at_risk_skus: what precedes a
\* row precedes whatever that row precedes.
LEMMA PrecedesIsTransitive ==
    ASSUME NEW all, NEW x \in all, NEW y \in all, NEW z \in all,
           \A r \in all : ToolRisk(r.days) \in {"warning", "critical"} /\ r.days \in Int /\ r.id \in Int,
           Precedes(x, y), Precedes(y, z)
    PROVE  Precedes(x, z)
<1> DEFINE level(r) == Severity[ToolRisk(r.days)]
<1>1. ASSUME NEW r \in all PROVE level(r) \in Int
  BY <1>1 DEF Severity
<1>2. ASSUME NEW q \in all, NEW r \in all
      PROVE  Precedes(q, r) <=> \/ level(q) > level(r)
                                \/ level(q) = level(r) /\ q.days < r.days
                                \/ level(q) = level(r) /\ q.days = r.days /\ q.id < r.id
  BY DEF Precedes
<1> HIDE DEF level
<1>3. level(x) \in Int /\ level(y) \in Int /\ level(z) \in Int
  BY <1>1
<1> QED BY <1>2, <1>3

\* Whatever precedes a row of the answer precedes by as few, so a row that is left out
\* precedes none of the answer: whoever is in it is at least as critical, with no more
\* cover, and as many as the answer holds are ahead of it (find_at_risk_skus).
THEOREM CriticalIsShownFirst ==
    ASSUME NEW rows, IsFiniteSet(rows), NEW ahead, NEW severity,
           None \notin Int,
           \A r \in rows : r.days \in Int \cup {None} /\ r.id \in Int
    PROVE  CriticalFirst(rows, ahead, severity)
<1> DEFINE all == AtRisk(rows, ahead, severity)
<1> DEFINE answer == FindAtRisk(rows, ahead, severity)
<1> DEFINE Ahead(r) == {q \in all : Precedes(q, r)}
<1> DEFINE Worse(r) == {q \in all \ {r} : ToolRisk(q.days) = "critical" /\ q.days <= r.days}
<1> SUFFICES ASSUME NEW r \in all \ answer, ToolRisk(r.days) = "critical"
             PROVE  answer \subseteq Worse(r) /\ Cardinality(Worse(r)) >= MaxRows
  BY DEF CriticalFirst
<1>1. IsFiniteSet(all)
  BY FS_Subset DEF AtRisk
<1>2. \A x \in all : /\ ToolRisk(x.days) \in {"warning", "critical"}
                     /\ x.days \in Int /\ x.id \in Int
  BY DEF AtRisk, ToolRisk, RiskLevel, Classify
<1>3. \A x \in all : IsFiniteSet(Ahead(x)) /\ Cardinality(Ahead(x)) \in Nat
  BY <1>1, FS_Subset, FS_CardinalityType
<1>4. ~(Cardinality(Ahead(r)) < MaxRows)
  BY DEF FindAtRisk
<1>5. Ahead(r) \subseteq Worse(r)
  <2> SUFFICES ASSUME NEW x \in all, Precedes(x, r)
               PROVE  x # r /\ ToolRisk(x.days) = "critical" /\ x.days <= r.days
    OBVIOUS
  <2>1. ToolRisk(x.days) = "critical"
    BY <1>2 DEF Precedes, Severity
  <2>2. \/ x.days < r.days
        \/ x.days = r.days /\ x.id < r.id
    BY <2>1 DEF Precedes, Severity
  <2> QED BY <1>2, <2>1, <2>2
<1>6. Cardinality(Worse(r)) >= MaxRows
  <2>1. IsFiniteSet(Worse(r))
    BY <1>1, FS_Subset
  <2>2. Cardinality(Ahead(r)) <= Cardinality(Worse(r)) /\ Cardinality(Worse(r)) \in Nat
    BY <1>5, <2>1, FS_Subset, FS_CardinalityType
  <2> HIDE DEF Ahead, Worse, all, answer
  <2> QED BY <1>3, <1>4, <2>2, ChatToolsAssumption
<1>7. ASSUME NEW q \in answer PROVE q \in Worse(r)
  <2>1. q \in all /\ q # r /\ Cardinality(Ahead(q)) < MaxRows
    BY <1>7 DEF FindAtRisk
  <2>2. ~(Ahead(r) \subseteq Ahead(q))
    <3>1. Ahead(r) \subseteq Ahead(q) => Cardinality(Ahead(r)) <= Cardinality(Ahead(q))
      BY <1>3, <2>1, FS_Subset
    <3> HIDE DEF Ahead
    <3> QED BY <1>3, <1>4, <2>1, <3>1, ChatToolsAssumption
  <2>3. ~Precedes(r, q)
    BY <1>2, <2>1, <2>2, PrecedesIsTransitive
  \* Rows with the same cover have the same rows ahead of them, unless read in order.
  <2>4. \/ Precedes(q, r)
        \/ ToolRisk(q.days) = "critical" /\ q.days = r.days
    BY <1>2, <2>1, <2>3 DEF Precedes, Severity
  <2>5. CASE Precedes(q, r)
    BY <1>5, <2>1, <2>5
  <2>6. CASE ToolRisk(q.days) = "critical" /\ q.days = r.days
    BY <1>2, <2>1, <2>6
  <2> QED BY <2>4, <2>5, <2>6
<1> QED BY <1>6, <1>7

-----------------------------------------------------------------------------
(* Runs.  What an order is worth (Batch, QuantityOf, the sums of           *)
(* ReadOnOrder) is left unexpanded where it plays no part.                 *)

\* The part of the type invariant that the proofs rest on.
Shape ==
    /\ clock \in Int
    /\ status \in [Runs -> [Skus -> OrderStatus]]
    /\ created_at \in [Runs -> [Skus -> Int]]
    /\ pc \in [Runs -> {"idle"} \cup Active \cup Over]
    /\ skus \in [Runs -> [Skus -> Stocks \cup {None}]]
    /\ forecasts \in [Runs -> [Skus -> Demands \cup {None}]]
    /\ risk_alerts \in [Runs -> SUBSET Skus]
    /\ cutoff \in [Runs -> Int]
    /\ existing \in [Runs -> SUBSET Rows]
    /\ began \in [Runs -> Int]
    /\ already \in [Runs -> SUBSET Skus]
    /\ met \in [Runs -> SUBSET Runs]
    /\ tied \in [Runs -> SUBSET Runs]

\* A run has orders only when it is over, so it makes them once.
OrdersOfPaused == \A r \in Runs, s \in Skus : status[r][s] # "none" => pc[r] = "paused"

\* The hour a run looks back begins no later than an hour ago.
CutoffPast == \A r \in Runs : pc[r] \in {"on_order", "recheck"} => cutoff[r] + Window <= clock

\* Of two runs about to insert, the later one found the other there.
InsertersTied ==
    \A r, q \in Runs : r # q /\ pc[r] = "insert" /\ pc[q] = "insert"
                           => r \in tied[q] \/ q \in tied[r]

\* A pending order for something a run is about to insert was seen, or is older
\* than the window, or comes from a run it is tied with.
SecondLook ==
    \A r, q \in Runs, s \in Skus :
        /\ r # q
        /\ pc[r] = "insert"
        /\ s \in Batch(r, on_order[r])
        /\ Pending(q, s)
        => \/ s \in already[r]
           \/ created_at[q][s] + Window < began[r]
           \/ r \in tied[q]
           \/ q \in tied[r]

DInv == Shape /\ OrdersOfPaused /\ CutoffPast /\ InsertersTied /\ SecondLook
              /\ NoDuplicateUnlessTied

\* The worker runs one queued graph at a time, so their runs never meet.
OneAtATime ==
    \A r, q \in Queued : r # q /\ pc[r] \in Active => pc[q] \notin Active

QInv == Shape /\ OneAtATime /\ QueueSerialises

-----------------------------------------------------------------------------
(* What a step does to a run and its orders.                               *)

\* An assessment changes what one run knows, and neither orders nor other runs.
LEMMA AssessStep ==
    ASSUME Shape, NEW p \in Runs, Assess(p)
    PROVE  /\ pc[p] = "idle"
           /\ p \in Queued => WorkerFree
           /\ \E end \in {"ended", "existing"} : pc' = [pc EXCEPT ![p] = end]
           /\ skus' \in [Runs -> [Skus -> Stocks \cup {None}]]
           /\ forecasts' \in [Runs -> [Skus -> Demands \cup {None}]]
           /\ risk_alerts' \in [Runs -> SUBSET Skus]
           /\ \A q \in Runs : q # p => /\ risk_alerts'[q] = risk_alerts[q]
                                      /\ forecasts'[q] = forecasts[q]
                                      /\ skus'[q] = skus[q]
           /\ UNCHANGED <<clock, orders, cutoff, existing, on_order, began, already,
                          met, tied>>
<1>1. PICK alerts \in SUBSET Skus, snapshot \in [Skus -> Stocks],
          fs \in [Skus -> Demands \cup {None}] :
         /\ p \in Queued => WorkerFree
         /\ \/ /\ Move(p, "idle", "ended")
               /\ UNCHANGED <<skus, forecasts, risk_alerts>>
            \/ /\ Move(p, "idle", "existing")
               /\ skus' = [skus EXCEPT ![p] = snapshot]
               /\ forecasts' = [forecasts EXCEPT ![p] = fs]
               /\ risk_alerts' = [risk_alerts EXCEPT ![p] = alerts]
         /\ UNCHANGED <<clock, orders, cutoff, existing, on_order, began, already,
                        met, tied>>
  <2>1. PICK snapshot \in [Skus -> Stocks], fs \in [Skus -> Demands \cup {None}],
             covered \in [Skus -> Stocks] :
         Raise(p, snapshot, fs, {s \in Skus : fs[s] # None /\ RiskOf(covered[s], fs[s]) # "safe"})
    BY DEF Assess
  <2>2. {s \in Skus : fs[s] # None /\ RiskOf(covered[s], fs[s]) # "safe"} \in SUBSET Skus
    OBVIOUS
  <2> QED BY <2>1, <2>2 DEF Assess, Raise, Move
<1>2. CASE /\ Move(p, "idle", "ended")
           /\ UNCHANGED <<skus, forecasts, risk_alerts>>
  BY <1>1, <1>2 DEF Shape, Move
<1>3. CASE /\ Move(p, "idle", "existing")
           /\ skus' = [skus EXCEPT ![p] = snapshot]
           /\ forecasts' = [forecasts EXCEPT ![p] = fs]
           /\ risk_alerts' = [risk_alerts EXCEPT ![p] = alerts]
  <2>1. /\ skus' \in [Runs -> [Skus -> Stocks \cup {None}]]
        /\ \A q \in Runs : q # p => skus'[q] = skus[q]
    BY <1>3 DEF Shape
  <2>2. /\ forecasts' \in [Runs -> [Skus -> Demands \cup {None}]]
        /\ \A q \in Runs : q # p => forecasts'[q] = forecasts[q]
    BY <1>3 DEF Shape
  <2>3. /\ risk_alerts' \in [Runs -> SUBSET Skus]
        /\ \A q \in Runs : q # p => risk_alerts'[q] = risk_alerts[q]
    BY <1>3 DEF Shape
  <2> QED BY <1>1, <1>3, <2>1, <2>2, <2>3 DEF Move
<1> QED BY <1>1, <1>2, <1>3

\* Every step keeps the shape of the state.
LEMMA ShapeStep == ASSUME Shape, [Next]_vars PROVE Shape'
<1> USE PoDraftAssumption DEF Shape
<1>1. ASSUME NEW p \in Runs, Assess(p) PROVE Shape'
  BY <1>1, AssessStep DEF orders, Active, Over
<1>2. ASSUME NEW p \in Runs, ReadExisting(p) PROVE Shape'
  <2>1. {row \in Runs \X risk_alerts[p] : row[1] \in Recent(row[2], clock - Window)}
           \in SUBSET Rows
    BY DEF Rows
  <2> QED BY <1>2, <2>1 DEF ReadExisting, Move, orders, Active, Drafting
<1>3. ASSUME NEW p \in Runs, ReadOnOrder(p) PROVE Shape'
  BY <1>3 DEF ReadOnOrder, Move, orders, Active, Drafting, Over
<1>4. ASSUME NEW p \in Runs, Recheck(p) PROVE Shape'
  <2>1. {s \in Batch(p, on_order[p]) : Recent(s, cutoff[p]) # {}} \in SUBSET Skus
    BY DEF Batch
  <2> QED BY <1>4, <2>1 DEF Recheck, Move, orders, Active, Drafting
<1>5. ASSUME NEW p \in Runs, Insert(p) PROVE Shape'
  <2>1. /\ status' \in [Runs -> [Skus -> OrderStatus]]
        /\ created_at' \in [Runs -> [Skus -> Int]]
    BY <1>5 DEF Insert, OrderStatus
  <2>2. pc' \in [Runs -> {"idle"} \cup Active \cup Over]
    BY <1>5 DEF Insert, Move, Over
  <2>3. UNCHANGED <<clock, plan, met, tied>>
    BY <1>5 DEF Insert
  <2> QED BY <2>1, <2>2, <2>3 DEF plan
<1>6. ASSUME NEW p \in Runs, GiveUp(p) PROVE Shape'
  BY <1>6 DEF GiveUp, Move, orders, plan, Over
<1>7. ASSUME NEW r \in Runs, NEW s \in Skus, Approve(r, s) \/ Reject(r, s) PROVE Shape'
  <2>1. PICK new \in OrderStatus : status' = [status EXCEPT ![r][s] = new]
    BY <1>7 DEF Approve, Reject, OrderStatus
  <2>2. status' \in [Runs -> [Skus -> OrderStatus]]
    BY <2>1
  <2>3. UNCHANGED <<clock, created_at, pc, plan, met, tied>>
    BY <1>7 DEF Approve, Reject
  <2> QED BY <2>2, <2>3 DEF plan
<1>8. CASE Tick
  BY <1>8 DEF Tick, orders, plan
<1>9. CASE UNCHANGED vars
  BY <1>9 DEF vars, orders, plan
<1> QED BY <1>1, <1>2, <1>3, <1>4, <1>5, <1>6, <1>7, <1>8, <1>9 DEF Next, Run

\* What a run orders depends on nothing but what it has read.
LEMMA BatchKept ==
    ASSUME NEW r \in Runs,
           skus'[r] = skus[r], forecasts'[r] = forecasts[r],
           risk_alerts'[r] = risk_alerts[r], existing'[r] = existing[r],
           on_order'[r] = on_order[r]
    PROVE  Batch(r, on_order[r])' = Batch(r, on_order[r])
  BY DEF Batch, QuantityOf, DemandOf, Existing

\* A run that is about to insert was so before the step, with the same orders at
\* hand, or it takes its second look in this step.
LEMMA InserterStep ==
    ASSUME Shape, [Next]_vars, NEW r \in Runs, pc'[r] = "insert"
    PROVE  \/ Recheck(r)
           \/ /\ pc[r] = "insert"
              /\ Batch(r, on_order[r])' = Batch(r, on_order[r])
              /\ already'[r] = already[r]
              /\ began'[r] = began[r]
<1> USE DEF Shape
<1> DEFINE Same == /\ pc[r] = "insert"
                   /\ skus'[r] = skus[r] /\ forecasts'[r] = forecasts[r]
                   /\ risk_alerts'[r] = risk_alerts[r] /\ existing'[r] = existing[r]
                   /\ on_order'[r] = on_order[r] /\ already'[r] = already[r]
                   /\ began'[r] = began[r]
<1> SUFFICES Recheck(r) \/ Same
  BY BatchKept
<1>1. ASSUME NEW p \in Runs, Assess(p) PROVE Same
  BY <1>1, AssessStep
<1>2. ASSUME NEW p \in Runs, ReadExisting(p) PROVE Same
  BY <1>2 DEF ReadExisting, Move
<1>3. ASSUME NEW p \in Runs, ReadOnOrder(p) PROVE Same
  BY <1>3 DEF ReadOnOrder, Move
<1>4. ASSUME NEW p \in Runs, Recheck(p), p # r PROVE Same
  BY <1>4 DEF Recheck, Move
<1>5. ASSUME NEW p \in Runs, Insert(p) PROVE Same
  BY <1>5 DEF Insert, Move, plan
<1>6. ASSUME NEW p \in Runs, GiveUp(p) PROVE Same
  BY <1>6 DEF GiveUp, Move, plan
<1>7. ASSUME NEW p \in Runs, NEW s \in Skus, Approve(p, s) \/ Reject(p, s) PROVE Same
  BY <1>7 DEF Approve, Reject, plan
<1>8. CASE Tick
  BY <1>8 DEF Tick, plan
<1>9. CASE UNCHANGED vars
  BY <1>9 DEF vars, plan
<1> QED BY <1>1, <1>2, <1>3, <1>4, <1>5, <1>6, <1>7, <1>8, <1>9 DEF Next, Run

\* A pending order was pending before the step, or is inserted in this step.
LEMMA PendingStep ==
    ASSUME Shape, [Next]_vars, NEW q \in Runs, NEW s \in Skus, Pending(q, s)'
    PROVE  \/ Pending(q, s) /\ created_at'[q][s] = created_at[q][s]
           \/ /\ Insert(q)
              /\ s \in Batch(q, on_order[q]) \ already[q]
              /\ created_at'[q][s] = began[q]
<1> USE DEF Shape, Pending, orders
<1>1. CASE UNCHANGED <<status, created_at>>
  BY <1>1
<1>2. ASSUME NEW p \in Runs, Insert(p)
      PROVE  \/ Pending(q, s) /\ created_at'[q][s] = created_at[q][s]
             \/ /\ p = q
                /\ s \in Batch(q, on_order[q]) \ already[q]
                /\ created_at'[q][s] = began[q]
  BY <1>2 DEF Insert
<1>3. ASSUME NEW r \in Runs, NEW t \in Skus, Approve(r, t) \/ Reject(r, t)
      PROVE  Pending(q, s) /\ created_at'[q][s] = created_at[q][s]
  <2>1. PICK new \in {"approved", "rejected"} :
           status' = [status EXCEPT ![r][t] = new] /\ UNCHANGED created_at
    BY <1>3 DEF Approve, Reject
  <2> QED BY <2>1
<1>4. ASSUME NEW p \in Runs,
             Assess(p) \/ ReadExisting(p) \/ ReadOnOrder(p) \/ Recheck(p) \/ GiveUp(p)
      PROVE  UNCHANGED <<status, created_at>>
  BY <1>4, AssessStep DEF ReadExisting, ReadOnOrder, Recheck, GiveUp
<1>5. CASE Tick \/ UNCHANGED vars
  BY <1>1, <1>5 DEF Tick, vars
<1> QED BY <1>1, <1>2, <1>3, <1>4, <1>5 DEF Next, Run

\* What a run found at its second look is recorded at no other time.
LEMMA TiedStep ==
    ASSUME Shape, [Next]_vars, NEW r \in Runs, tied'[r] # tied[r]
    PROVE  Recheck(r)
<1> USE DEF Shape
<1>1. ASSUME NEW p \in Runs, Recheck(p), p # r PROVE tied'[r] = tied[r]
  BY <1>1 DEF Recheck
<1>2. ASSUME NEW p \in Runs,
             Assess(p) \/ ReadExisting(p) \/ ReadOnOrder(p) \/ Insert(p) \/ GiveUp(p)
      PROVE  tied' = tied
  BY <1>2, AssessStep DEF ReadExisting, ReadOnOrder, Insert, GiveUp
<1>3. ASSUME NEW p \in Runs, NEW s \in Skus, Approve(p, s) \/ Reject(p, s)
      PROVE  tied' = tied
  BY <1>3 DEF Approve, Reject
<1>4. CASE Tick \/ UNCHANGED vars
  BY <1>4 DEF Tick, vars
<1> QED BY <1>1, <1>2, <1>3, <1>4 DEF Next, Run

\* A run that made orders is over, and stays so.
LEMMA PausedStep ==
    ASSUME Shape, OrdersOfPaused, [Next]_vars
    PROVE  OrdersOfPaused'
<1> USE DEF Shape, OrdersOfPaused, orders
<1>1. ASSUME NEW p \in Runs, Assess(p) PROVE OrdersOfPaused'
  <2>1. pc[p] = "idle" /\ UNCHANGED <<status, cutoff, clock>>
    BY <1>1, AssessStep
  <2>2. PICK end \in {"ended", "existing"} : pc' = [pc EXCEPT ![p] = end]
    BY <1>1, AssessStep
  <2> QED BY <2>1, <2>2
<1>2. ASSUME NEW p \in Runs, ReadExisting(p) PROVE OrdersOfPaused'
  <2>1. pc[p] = "existing" /\ pc' = [pc EXCEPT ![p] = "on_order"] /\ UNCHANGED status
    BY <1>2 DEF ReadExisting, Move
  <2> QED BY <2>1
<1>3. ASSUME NEW p \in Runs, ReadOnOrder(p) PROVE OrdersOfPaused'
  BY <1>3 DEF ReadOnOrder, Move
<1>4. ASSUME NEW p \in Runs, Recheck(p) PROVE OrdersOfPaused'
  BY <1>4 DEF Recheck, Move
<1>5. ASSUME NEW p \in Runs, Insert(p) PROVE OrdersOfPaused'
  <2>1. pc' = [pc EXCEPT ![p] = "paused"]
    BY <1>5 DEF Insert, Move
  <2>2. \A q \in Runs, s \in Skus : q # p => status'[q][s] = status[q][s]
    BY <1>5 DEF Insert
  <2> QED BY <2>1, <2>2
<1>6. ASSUME NEW p \in Runs, GiveUp(p) PROVE OrdersOfPaused'
  BY <1>6 DEF GiveUp, Move, Active, Drafting
<1>7. ASSUME NEW r \in Runs, NEW t \in Skus, Approve(r, t) \/ Reject(r, t)
      PROVE  OrdersOfPaused'
  <2>1. PICK new \in {"approved", "rejected"} :
           /\ status[r][t] = "pending_approval"
           /\ status' = [status EXCEPT ![r][t] = new]
           /\ UNCHANGED pc
    BY <1>7 DEF Approve, Reject
  <2>2. ASSUME NEW q \in Runs, NEW s \in Skus, status'[q][s] # "none"
        PROVE  status[q][s] # "none"
    BY <2>1, <2>2
  <2> QED BY <2>1, <2>2
<1>8. CASE Tick
  BY <1>8 DEF Tick
<1>9. CASE UNCHANGED vars
  BY <1>9 DEF vars
<1> QED BY <1>1, <1>2, <1>3, <1>4, <1>5, <1>6, <1>7, <1>8, <1>9 DEF Next, Run

\* The cutoff of a run stays an hour in the past.
LEMMA CutoffStep ==
    ASSUME Shape, CutoffPast, [Next]_vars
    PROVE  CutoffPast'
<1> USE PoDraftAssumption DEF Shape, CutoffPast
<1>1. ASSUME NEW p \in Runs, Assess(p) PROVE CutoffPast'
  <2>1. UNCHANGED <<cutoff, clock>>
    BY <1>1, AssessStep
  <2>2. PICK end \in {"ended", "existing"} : pc' = [pc EXCEPT ![p] = end]
    BY <1>1, AssessStep
  <2> QED BY <2>1, <2>2
<1>2. ASSUME NEW p \in Runs, ReadExisting(p) PROVE CutoffPast'
  <2>1. /\ pc' = [pc EXCEPT ![p] = "on_order"]
        /\ cutoff' = [cutoff EXCEPT ![p] = clock - Window]
        /\ UNCHANGED clock
    BY <1>2 DEF ReadExisting, Move
  <2> QED BY <2>1
<1>3. ASSUME NEW p \in Runs, ReadOnOrder(p) PROVE CutoffPast'
  BY <1>3 DEF ReadOnOrder, Move
<1>4. ASSUME NEW p \in Runs, Recheck(p) PROVE CutoffPast'
  BY <1>4 DEF Recheck, Move
<1>5. ASSUME NEW p \in Runs, Insert(p) PROVE CutoffPast'
  BY <1>5 DEF Insert, Move, plan
<1>6. ASSUME NEW p \in Runs, GiveUp(p) PROVE CutoffPast'
  BY <1>6 DEF GiveUp, Move, plan
<1>7. ASSUME NEW r \in Runs, NEW t \in Skus, Approve(r, t) \/ Reject(r, t)
      PROVE  CutoffPast'
  BY <1>7 DEF Approve, Reject, plan
<1>8. CASE Tick
  BY <1>8 DEF Tick, plan
<1>9. CASE UNCHANGED vars
  BY <1>9 DEF vars, plan
<1> QED BY <1>1, <1>2, <1>3, <1>4, <1>5, <1>6, <1>7, <1>8, <1>9 DEF Next, Run

\* What the second look records.
LEMMA RecheckStep ==
    ASSUME Shape, NEW r \in Runs, Recheck(r)
    PROVE  /\ pc[r] = "recheck"
           /\ pc' = [pc EXCEPT ![r] = "insert"]
           /\ Batch(r, on_order[r])' = Batch(r, on_order[r])
           /\ began'[r] = clock
           /\ already'[r] = {s \in Batch(r, on_order[r]) : Recent(s, cutoff[r]) # {}}
           /\ tied'[r] = {q \in Runs : pc[q] = "insert"}
           /\ UNCHANGED <<status, created_at>>
  BY BatchKept DEF Shape, Recheck, Move, orders

\* The inserting runs stay tied.
LEMMA InsertersStep ==
    ASSUME Shape, InsertersTied, [Next]_vars
    PROVE  InsertersTied'
<1> SUFFICES ASSUME NEW r \in Runs, NEW q \in Runs, r # q,
                    pc'[r] = "insert", pc'[q] = "insert"
             PROVE  r \in tied'[q] \/ q \in tied'[r]
  BY DEF InsertersTied
<1> USE DEF Shape
<1>1. CASE Recheck(r)
  <2>1. pc[q] = "insert"
    BY <1>1, RecheckStep
  <2> QED BY <1>1, <2>1, RecheckStep
<1>2. CASE Recheck(q)
  <2>1. pc[r] = "insert"
    BY <1>2, RecheckStep
  <2> QED BY <1>2, <2>1, RecheckStep
<1>3. CASE ~Recheck(r) /\ ~Recheck(q)
  BY <1>3, InserterStep, TiedStep DEF InsertersTied
<1> QED BY <1>1, <1>2, <1>3

\* The second look holds good: orders that appear after it come from tied runs.
LEMMA SecondLookStep ==
    ASSUME DInv, [Next]_vars
    PROVE  SecondLook'
<1> SUFFICES ASSUME NEW r \in Runs, NEW q \in Runs, NEW s \in Skus,
                    r # q, pc'[r] = "insert", s \in Batch(r, on_order[r])',
                    Pending(q, s)'
             PROVE  \/ s \in already'[r]
                    \/ created_at'[q][s] + Window < began'[r]
                    \/ r \in tied'[q]
                    \/ q \in tied'[r]
  BY DEF SecondLook
<1> USE PoDraftAssumption DEF DInv, Shape
<1>1. CASE Recheck(r)
  <2>1. Pending(q, s) /\ created_at'[q][s] = created_at[q][s]
    BY <1>1, RecheckStep DEF Pending
  <2>2. CASE created_at[q][s] >= cutoff[r]
    <3>1. q \in Recent(s, cutoff[r])
      BY <2>1, <2>2 DEF Recent, Pending
    <3> QED BY <1>1, <3>1, RecheckStep
  <2>3. CASE created_at[q][s] < cutoff[r]
    <3>1. cutoff[r] + Window <= clock
      BY <1>1, RecheckStep DEF CutoffPast
    <3> QED BY <1>1, <2>1, <2>3, <3>1, RecheckStep
  <2> QED BY <2>2, <2>3
<1>2. CASE ~Recheck(r)
  <2>1. /\ pc[r] = "insert"
        /\ s \in Batch(r, on_order[r])
        /\ already'[r] = already[r]
        /\ began'[r] = began[r]
    BY <1>2, InserterStep
  <2>2. tied'[r] = tied[r]
    BY <1>2, TiedStep
  <2>3. CASE Insert(q)
    <3>1. pc[q] = "insert" /\ tied'[q] = tied[q]
      BY <2>3 DEF Insert, Move
    <3> QED BY <2>1, <2>2, <3>1 DEF InsertersTied
  <2>4. CASE Pending(q, s) /\ created_at'[q][s] = created_at[q][s]
    <3>1. pc[q] = "paused"
      BY <2>4 DEF OrdersOfPaused, Pending
    <3>2. tied'[q] = tied[q]
      BY <3>1, TiedStep, RecheckStep
    <3> QED BY <2>1, <2>2, <2>4, <3>2 DEF SecondLook
  <2> QED BY <2>3, <2>4, PendingStep
<1> QED BY <1>1, <1>2

\* Orders that are inserted repeat no recent pending order, unless tied.
LEMMA NoDuplicateStep ==
    ASSUME DInv, [Next]_vars
    PROVE  NoDuplicateUnlessTied'
<1> USE PoDraftAssumption DEF DInv, Shape
\* Of two orders only one can be new; the other was there when its run inserted it.
<1>1. ASSUME NEW r \in Runs, NEW q \in Runs, NEW s \in Skus, r # q, Insert(r),
             s \in Batch(r, on_order[r]) \ already[r],
             created_at'[r][s] = began[r], Pending(q, s)'
      PROVE  \/ created_at'[q][s] + Window < created_at'[r][s]
             \/ r \in tied'[q]
             \/ q \in tied'[r]
  <2>1. pc[r] = "insert" /\ pc' = [pc EXCEPT ![r] = "paused"] /\ tied' = tied
    BY <1>1 DEF Insert, Move
  <2>2. Pending(q, s) /\ created_at'[q][s] = created_at[q][s]
    BY <1>1 DEF Insert, Pending
  <2> QED BY <1>1, <2>1, <2>2 DEF SecondLook
<1> SUFFICES ASSUME NEW r \in Runs, NEW q \in Runs, NEW s \in Skus, r # q,
                    Pending(r, s)', Pending(q, s)',
                    created_at'[r][s] \in created_at'[q][s] .. created_at'[q][s] + Window
             PROVE  r \in tied'[q] \/ q \in tied'[r]
  BY DEF NoDuplicateUnlessTied
<1>2. created_at' \in [Runs -> [Skus -> Int]]
  BY ShapeStep
<1>3. CASE Insert(r) /\ s \in Batch(r, on_order[r]) \ already[r] /\ created_at'[r][s] = began[r]
  BY <1>1, <1>2, <1>3
<1>4. CASE Insert(q) /\ s \in Batch(q, on_order[q]) \ already[q] /\ created_at'[q][s] = began[q]
  BY <1>1, <1>2, <1>4
<1>5. CASE /\ Pending(r, s) /\ created_at'[r][s] = created_at[r][s]
           /\ Pending(q, s) /\ created_at'[q][s] = created_at[q][s]
  <2>1. pc[r] = "paused" /\ pc[q] = "paused"
    BY <1>5 DEF OrdersOfPaused, Pending
  <2>2. tied'[r] = tied[r] /\ tied'[q] = tied[q]
    BY <2>1, TiedStep, RecheckStep
  <2> QED BY <1>5, <2>2 DEF NoDuplicateUnlessTied
<1> QED BY <1>3, <1>4, <1>5, PendingStep

\* The invariant holds initially.
LEMMA InitDInv == ASSUME Init PROVE DInv
<1>1. Shape
  BY PoDraftAssumption DEF Init, Shape, OrderStatus, Rows
<1>2. \A r \in Runs : pc[r] = "idle" /\ \A s \in Skus : status[r][s] = "none"
  BY DEF Init
<1>3. OrdersOfPaused /\ NoDuplicateUnlessTied
  BY <1>2 DEF OrdersOfPaused, NoDuplicateUnlessTied, Pending
<1>4. CutoffPast /\ InsertersTied /\ SecondLook
  BY <1>2 DEF CutoffPast, InsertersTied, SecondLook
<1> QED BY <1>1, <1>3, <1>4 DEF DInv

\* For any number of runs and SKUs: two recent pending orders for one SKU come only
\* from runs that each took their second look before the other committed.
THEOREM NoDuplicates == Spec => []NoDuplicateUnlessTied
<1>1. DInv /\ [Next]_vars => DInv'
  BY ShapeStep, PausedStep, CutoffStep, InsertersStep, SecondLookStep, NoDuplicateStep
     DEF DInv
<1>2. DInv => NoDuplicateUnlessTied
  BY DEF DInv
<1> QED BY <1>1, <1>2, InitDInv, PTL DEF Spec

-----------------------------------------------------------------------------
(* The worker of the task queue.                                           *)

\* While one queued run is active no other one is, and so they never meet.
LEMMA StepQInv == ASSUME QInv, [Next]_vars PROVE QInv'
<1> USE PoDraftAssumption DEF QInv, Shape
<1>1. Shape'
  BY ShapeStep
<1>2. ASSUME NEW p \in Runs, Assess(p) PROVE OneAtATime' /\ QueueSerialises'
  <2>1. UNCHANGED <<met, tied>> /\ (p \in Queued => \A q \in Queued : pc[q] \notin Active)
    BY <1>2, AssessStep DEF WorkerFree
  <2>2. PICK end \in {"ended", "existing"} : pc' = [pc EXCEPT ![p] = end]
    BY <1>2, AssessStep
  <2>3. "ended" \notin Active
    BY DEF Active, Drafting
  <2> QED BY <2>1, <2>2, <2>3 DEF OneAtATime, QueueSerialises
<1>3. ASSUME NEW p \in Runs, ReadExisting(p) PROVE OneAtATime' /\ QueueSerialises'
  <2>1. pc[p] = "existing" /\ pc' = [pc EXCEPT ![p] = "on_order"] /\ UNCHANGED tied
    BY <1>3 DEF ReadExisting, Move
  <2>2. \A q \in Runs : met'[q] = IF q = p THEN {o \in Runs \ {p} : pc[o] \in Drafting}
                                 ELSE IF q \in {o \in Runs \ {p} : pc[o] \in Drafting}
                                 THEN met[q] \cup {p} ELSE met[q]
    BY <1>3 DEF ReadExisting
  <2>3. \A q \in Queued : p \in Queued /\ q # p => pc[q] \notin Drafting
    BY <2>1 DEF OneAtATime, Active
  <2>4. OneAtATime'
    BY <2>1 DEF OneAtATime, Active, Drafting
  <2>5. QueueSerialises'
    <3> SUFFICES ASSUME NEW a \in Queued, NEW b \in Queued, a # b
                 PROVE  b \notin met'[a] /\ b \notin tied'[a]
      BY DEF QueueSerialises
    <3>1. a \in Runs /\ b \in Runs /\ b \notin met[a] /\ b \notin tied'[a]
      BY <2>1 DEF QueueSerialises
    <3>2. CASE a = p
      BY <2>2, <2>3, <3>1, <3>2
    <3>3. CASE a # p
      BY <2>2, <2>3, <3>1, <3>3
    <3> QED BY <3>2, <3>3
  <2> QED BY <2>4, <2>5
<1>4. ASSUME NEW p \in Runs, ReadOnOrder(p) PROVE OneAtATime' /\ QueueSerialises'
  BY <1>4 DEF ReadOnOrder, Move, OneAtATime, QueueSerialises, Active, Drafting
<1>5. ASSUME NEW p \in Runs, Recheck(p) PROVE OneAtATime' /\ QueueSerialises'
  <2>1. /\ pc[p] = "recheck" /\ pc' = [pc EXCEPT ![p] = "insert"] /\ UNCHANGED met
        /\ tied' = [tied EXCEPT ![p] = {q \in Runs : pc[q] = "insert"}]
    BY <1>5 DEF Recheck, Move
  <2>2. \A q \in Queued : p \in Queued /\ q # p => pc[q] # "insert"
    BY <2>1 DEF OneAtATime, Active, Drafting
  <2>3. OneAtATime'
    BY <2>1 DEF OneAtATime, Active, Drafting
  <2>4. QueueSerialises'
    BY <2>1, <2>2 DEF QueueSerialises
  <2> QED BY <2>3, <2>4
<1>6. ASSUME NEW p \in Runs, Insert(p) \/ GiveUp(p) PROVE OneAtATime' /\ QueueSerialises'
  <2>1. /\ UNCHANGED <<met, tied>>
        /\ \E end \in {"paused", "dead"} : pc' = [pc EXCEPT ![p] = end]
    BY <1>6 DEF Insert, GiveUp, Move
  <2>2. PICK end \in {"paused", "dead"} : pc' = [pc EXCEPT ![p] = end]
    BY <2>1
  <2>3. end \notin Active
    BY DEF Active, Drafting
  <2> QED BY <2>1, <2>2, <2>3 DEF OneAtATime, QueueSerialises
<1>7. CASE UNCHANGED <<pc, met, tied>>
  BY <1>1, <1>7 DEF OneAtATime, QueueSerialises
<1>8. ASSUME NEW r \in Runs, NEW s \in Skus, Approve(r, s) \/ Reject(r, s)
      PROVE  UNCHANGED <<pc, met, tied>>
  BY <1>8 DEF Approve, Reject
<1>9. CASE Tick \/ UNCHANGED vars
  BY <1>7, <1>9 DEF Tick, vars
<1> QED BY <1>1, <1>2, <1>3, <1>4, <1>5, <1>6, <1>7, <1>8, <1>9 DEF Next, Run

\* For any number of runs: runs of the task queue never draft at the same time.
THEOREM QueueIsSerial == Spec => []QueueSerialises
<1>1. ASSUME Init PROVE QInv
  <2>1. Shape
    BY <1>1, InitDInv DEF DInv
  <2> QED BY <1>1, <2>1, PoDraftAssumption
             DEF Init, QInv, OneAtATime, QueueSerialises, Active, Drafting
<1>2. QInv /\ [Next]_vars => QInv'
  BY StepQInv
<1>3. QInv => QueueSerialises
  BY DEF QInv
<1> QED BY <1>1, <1>2, <1>3, PTL DEF Spec

-----------------------------------------------------------------------------
(* Counting units.                                                         *)

\* The units of an order of n are n.
LEMMA OrderUnits ==
    ASSUME NEW r, NEW n \in Nat
    PROVE  IsFiniteSet({r} \X (1 .. n)) /\ Cardinality({r} \X (1 .. n)) = n
<1>1. IsFiniteSet({r}) /\ Cardinality({r}) = 1
  BY FS_Singleton
<1>2. IsFiniteSet(1 .. n) /\ Cardinality(1 .. n) = n
  BY FS_Interval
<1>3. IsFiniteSet({r} \X (1 .. n))
  BY <1>1, <1>2, FS_Product
<1>4. Cardinality({r} \X (1 .. n)) = Cardinality({r}) * Cardinality(1 .. n)
  BY <1>1, <1>2, FS_Product
<1> QED BY <1>1, <1>2, <1>3, <1>4

\* The units of finitely many orders are finitely many.
LEMMA FiniteUnits ==
    ASSUME NEW R, IsFiniteSet(R), NEW f \in [R -> Nat]
    PROVE  IsFiniteSet(UNION {{r} \X (1 .. f[r]) : r \in R})
<1> DEFINE unitsOf == [r \in R |-> {r} \X (1 .. f[r])]
<1> DEFINE all == {{r} \X (1 .. f[r]) : r \in R}
<1>1. unitsOf \in Surjection(R, all)
  BY DEF Surjection
<1>2. IsFiniteSet(all)
  <2> HIDE DEF unitsOf, all
  <2> QED BY <1>1, FS_Surjection
<1>3. ASSUME NEW units \in all PROVE IsFiniteSet(units)
  <2>1. PICK r \in R : units = {r} \X (1 .. f[r])
    OBVIOUS
  <2>2. f[r] \in Nat
    OBVIOUS
  <2> QED BY <2>1, <2>2, OrderUnits
<1> HIDE DEF all
<1>4. IsFiniteSet(UNION all)
  BY <1>2, <1>3, FS_UNION
<1> QED BY <1>4 DEF all

\* A number of units is a natural number.
LEMMA UnitsType ==
    ASSUME NEW amount \in [Runs -> [Skus -> Nat]], NEW s \in Skus, NEW rs \in SUBSET Runs
    PROVE  /\ UnitsOf(rs, s, amount) \in Nat
           /\ IsFiniteSet(UNION {{r} \X (1 .. amount[r][s]) : r \in rs})
<1> DEFINE f == [r \in rs |-> amount[r][s]]
<1>1. f \in [rs -> Nat]
  OBVIOUS
<1>2. IsFiniteSet(rs)
  BY PoDraftAssumption, FS_Subset
<1>3. (UNION {{r} \X (1 .. amount[r][s]) : r \in rs}) = UNION {{r} \X (1 .. f[r]) : r \in rs}
  OBVIOUS
<1> HIDE DEF f
<1>4. IsFiniteSet(UNION {{r} \X (1 .. amount[r][s]) : r \in rs})
  BY <1>1, <1>2, <1>3, FiniteUnits
<1> QED BY <1>4, FS_CardinalityType DEF UnitsOf

\* What is on order, and what of it was drafted, are numbers of units.
LEMMA UnitsAreNumbers ==
    ASSUME TypeOK, NEW s \in Skus
    PROVE  /\ UnitsOnOrder(s) \in Nat /\ UnitsDrafted(s) \in Nat
           /\ IsFiniteSet(UNION {{r} \X (1 .. drafted[r][s]) : r \in Open(s)})
           /\ IsFiniteSet(UNION {{r} \X (1 .. quantity[r][s]) : r \in Open(s)})
<1>1. Open(s) \in SUBSET Runs
  BY DEF Open
<1>2. quantity \in [Runs -> [Skus -> Nat]] /\ drafted \in [Runs -> [Skus -> Nat]]
  BY DEF TypeOK
<1> QED BY <1>1, <1>2, UnitsType DEF UnitsOnOrder, UnitsDrafted

\* The units on order that were drafted are among those on order.
LEMMA DraftedAreOnOrder ==
    ASSUME TypeOK, NEW s \in Skus
    PROVE  UnitsDrafted(s) <= UnitsOnOrder(s)
<1> DEFINE all == UNION {{r} \X (1 .. quantity[r][s]) : r \in Open(s)}
<1> DEFINE some == UNION {{r} \X (1 .. drafted[r][s]) : r \in Open(s)}
<1>1. some \in SUBSET all
  <2> SUFFICES ASSUME NEW r \in Open(s), NEW n \in 1 .. drafted[r][s]
               PROVE  n \in 1 .. quantity[r][s]
    OBVIOUS
  <2>1. drafted[r][s] \in Nat /\ quantity[r][s] \in Nat /\ drafted[r][s] <= quantity[r][s]
    BY DEF TypeOK, Open
  <2> QED BY <2>1
<1>2. IsFiniteSet(all)
  BY UnitsAreNumbers
<1>3. UnitsDrafted(s) = Cardinality(some) /\ UnitsOnOrder(s) = Cardinality(all)
  BY DEF UnitsDrafted, UnitsOnOrder, UnitsOf
<1> HIDE DEF all, some
<1> QED BY <1>1, <1>2, <1>3, FS_Subset

\* When no order is opened and none grows, no more units are on order.
LEMMA UnitsFewer ==
    ASSUME TypeOK, NEW s \in Skus, Open(s)' \subseteq Open(s),
           \A r \in Open(s)' : drafted'[r][s] \in Nat /\ drafted'[r][s] <= drafted[r][s]
    PROVE  /\ UnitsDrafted(s)' \in Nat
           /\ UnitsDrafted(s)' <= UnitsDrafted(s)
<1> DEFINE all == UNION {{r} \X (1 .. drafted[r][s]) : r \in Open(s)}
<1> DEFINE later == UNION {{r} \X (1 .. drafted'[r][s]) : r \in Open(s)'}
<1>2. IsFiniteSet(all)
  BY UnitsAreNumbers
<1>3. later \in SUBSET all
  <2> SUFFICES ASSUME NEW r \in Open(s)', NEW n \in 1 .. drafted'[r][s]
               PROVE  n \in 1 .. drafted[r][s]
    OBVIOUS
  <2>1. drafted[r][s] \in Nat
    BY DEF TypeOK, Open
  <2> QED BY <2>1
<1>4. UnitsDrafted(s) = Cardinality(all) /\ UnitsDrafted(s)' = Cardinality(later)
  BY DEF UnitsDrafted, UnitsOf
<1> HIDE DEF all, later
<1> QED BY <1>2, <1>3, <1>4, FS_Subset, FS_CardinalityType

\* When one run's order is opened and no other, its units are added at most.
LEMMA UnitsAdded ==
    ASSUME TypeOK, NEW s \in Skus, NEW p \in Runs, Open(s)' \subseteq Open(s) \cup {p},
           drafted'[p][s] \in Nat,
           \A r \in Runs : r # p => drafted'[r][s] = drafted[r][s]
    PROVE  /\ UnitsDrafted(s)' \in Nat
           /\ UnitsDrafted(s)' <= UnitsDrafted(s) + drafted'[p][s]
<1> DEFINE all == UNION {{r} \X (1 .. drafted[r][s]) : r \in Open(s)}
<1> DEFINE new == {p} \X (1 .. drafted'[p][s])
<1> DEFINE later == UNION {{r} \X (1 .. drafted'[r][s]) : r \in Open(s)'}
<1>1. Open(s) \in SUBSET Runs
  BY DEF Open
<1>2. IsFiniteSet(all) /\ Cardinality(all) \in Nat
  BY UnitsAreNumbers, FS_CardinalityType
<1>3. IsFiniteSet(new) /\ Cardinality(new) = drafted'[p][s]
  BY OrderUnits
<1>4. later \in SUBSET (all \cup new)
  <2> SUFFICES ASSUME NEW r \in Open(s)', NEW u \in {r} \X (1 .. drafted'[r][s])
               PROVE  u \in all \cup new
    OBVIOUS
  <2>1. CASE r = p
    BY <2>1
  <2>2. CASE r # p
    <3>1. r \in Open(s) /\ r \in Runs
      BY <2>2, <1>1
    <3>2. drafted'[r][s] = drafted[r][s]
      BY <2>2, <3>1
    <3> QED BY <3>1, <3>2
  <2> QED BY <2>1, <2>2
<1>5. UnitsDrafted(s) = Cardinality(all) /\ UnitsDrafted(s)' = Cardinality(later)
  BY DEF UnitsDrafted, UnitsOf
<1> HIDE DEF all, new, later
<1>6. /\ IsFiniteSet(all \cup new)
      /\ Cardinality(all \cup new) = Cardinality(all) + Cardinality(new) - Cardinality(all \cap new)
  BY <1>2, <1>3, FS_Union
<1>7. Cardinality(all \cap new) \in Nat
  BY <1>2, FS_Intersection, FS_CardinalityType
<1>8. Cardinality(later) <= Cardinality(all \cup new) /\ Cardinality(later) \in Nat
  BY <1>4, <1>6, FS_Subset, FS_CardinalityType
<1>9. Cardinality(all \cup new) \in Nat
  BY <1>6, FS_CardinalityType
<1> QED BY <1>2, <1>3, <1>5, <1>6, <1>7, <1>8, <1>9

-----------------------------------------------------------------------------
(* What is on order, and what is not.                                      *)

\* Every alert is for a SKU of which the run knows the stock and the demand.
Alerted ==
    \A r \in Runs : \A s \in risk_alerts[r] :
        skus[r][s] \in Stocks /\ forecasts[r][s] \in Demands

\* A run that paused has ordered what it was to order, or found it ordered.
Ordered ==
    \A r \in Runs : pc[r] = "paused" =>
        \A s \in Batch(r, on_order[r]) : status[r][s] # "none" \/ s \in already[r]

\* Two runs that are drafting have met.
DraftersMet ==
    \A r, q \in Runs : r # q /\ pc[r] \in Drafting /\ pc[q] \in Drafting => q \in met[r]

\* While a run drafts, of what is on order no more was drafted than the run counted,
\* unless a run it met ordered.
Counted ==
    \A r \in Runs, s \in Skus :
        pc[r] \in {"recheck", "insert"} /\ s \in Batch(r, on_order[r]) =>
            \/ UnitsDrafted(s) <= on_order[r][s]
            \/ \E q \in met[r] : status[q][s] # "none"

\* A run orders only what it raised an alert for.
OrdersOfAlerts == \A r \in Runs, s \in Skus : status[r][s] # "none" => s \in risk_alerts[r]

TInv == /\ TypeOK
        /\ OrdersOfPaused
        /\ OrdersOfAlerts
        /\ Alerted
        /\ Ordered
        /\ DraftersMet
        /\ Counted
        /\ NoOverOrder

\* The type invariant implies the part of it used above.
LEMMA TypeShape == ASSUME TypeOK PROVE Shape
  BY PoDraftAssumption DEF TypeOK, Shape

\* What is ordered reaches the target with the units on order, and passes it by less
\* than the least the supplier sells.
LEMMA OrderIsTight ==
    ASSUME NEW demand \in Int, NEW stock \in Int, NEW lead \in Int, NEW onOrder \in Int,
           NEW moq \in Nat \ {0},
           ReorderQuantity(demand, stock, lead, moq, onOrder) > 0
    PROVE  LET q == ReorderQuantity(demand, stock, lead, moq, onOrder) IN
           /\ q \in Nat
           /\ 100 * (stock + onOrder + q - moq) < Target(demand, lead)
<1> DEFINE few == Missing(demand, stock, lead, onOrder)
<1>1. /\ few \in Nat
      /\ few > 0 => 100 * (stock + onOrder + few - 1) < Target(demand, lead)
  BY MissingIsExact
<1>2. Target(demand, lead) \in Int
  BY DEF Target, SafetyBufferDays
<1>3. ReorderQuantity(demand, stock, lead, moq, onOrder)
          = IF demand <= 0 THEN 0 ELSE IF few > 0 /\ few < moq THEN moq ELSE few
  BY DEF ReorderQuantity
<1> HIDE DEF few
<1> QED BY <1>1, <1>2, <1>3

\* A run plans for a whole number of hundredths a day.
LEMMA DemandIsNumber ==
    ASSUME Alerted, NEW r \in Runs, NEW s \in risk_alerts[r]
    PROVE  skus[r][s] \in Int /\ DemandOf(r, s) \in Int
<1> DEFINE f == forecasts[r][s]
<1>1. skus[r][s] \in Int /\ f.predicted \in Int /\ f.p90 \in Int \cup {None} /\ None \notin Int
  BY PoDraftAssumption DEF Alerted
<1>2. ASSUME NEW d \in Int PROVE Rounded(d) \in Int
  <2>1. Grains \in Int /\ Grains > 0
    BY PlanningAssumption
  <2>2. RoundDiv(d, Grains) \in Int
    BY <2>1, RoundDivBound
  <2> QED BY <1>1, <2>2 DEF Rounded
<1>3. Rounded(f.predicted) \in Int /\ Rounded(f.p90) \in Int \cup {None}
  <2>1. Rounded(None) = None
    BY DEF Rounded
  <2> QED BY <1>1, <1>2, <2>1
<1> HIDE DEF f
<1>4. PlanningDailyDemand(Rounded(f.predicted), Rounded(f.p90)) \in Int
  BY <1>1, <1>3 DEF PlanningDailyDemand
<1> QED BY <1>1, <1>4 DEF DemandOf, f

\* What a run orders of a SKU in its batch.
LEMMA BatchQuantity ==
    ASSUME TypeOK, Alerted, NEW r \in Runs, NEW units, NEW s \in Batch(r, units),
           units[s] \in Nat
    PROVE  /\ s \in Skus
           /\ QuantityOf(r, s, units) \in Nat
           /\ QuantityOf(r, s, units) > 0
           /\ 100 * (skus[r][s] + units[s] + QuantityOf(r, s, units) - Moq[s])
                  < Target(DemandOf(r, s), LeadTime)
<1> DEFINE demand == DemandOf(r, s)
<1>1. s \in risk_alerts[r] /\ QuantityOf(r, s, units) > 0 /\ s \in Skus
  BY DEF Batch, TypeOK
<1>2. skus[r][s] \in Int /\ demand \in Int
  BY <1>1, DemandIsNumber
<1>4. QuantityOf(r, s, units) = ReorderQuantity(demand, skus[r][s], LeadTime, Moq[s], units[s])
  BY DEF QuantityOf
<1>5. LeadTime \in Int /\ units[s] \in Int /\ Moq[s] \in Nat \ {0}
  BY <1>1, PoDraftAssumption
<1> DEFINE stock == skus[r][s]
<1> DEFINE onOrder == units[s]
<1> DEFINE moq == Moq[s]
<1> DEFINE ordered == QuantityOf(r, s, units)
<1>6. stock \in Int /\ onOrder \in Int /\ moq \in Nat \ {0} /\ ordered > 0
      /\ ordered = ReorderQuantity(demand, stock, LeadTime, moq, onOrder)
  BY <1>1, <1>2, <1>4, <1>5
<1> HIDE DEF demand, stock, onOrder, moq, ordered
<1>7. ordered \in Nat /\ 100 * (stock + onOrder + ordered - moq) < Target(demand, LeadTime)
  BY <1>2, <1>5, <1>6, OrderIsTight
<1> QED BY <1>1, <1>7 DEF demand, stock, onOrder, moq, ordered

\* An assessment raises alerts for SKUs it has data of, before a run has begun.
LEMMA AlertedStep == ASSUME TypeOK, Alerted, [Next]_vars PROVE Alerted'
<1> USE DEF TypeOK
<1>1. ASSUME NEW p \in Runs, Assess(p) PROVE Alerted'
  <2>1. PICK snapshot \in [Skus -> Stocks], fs \in [Skus -> Demands \cup {None}],
             covered \in [Skus -> Stocks] :
         Raise(p, snapshot, fs, {s \in Skus : fs[s] # None /\ RiskOf(covered[s], fs[s]) # "safe"})
    BY <1>1 DEF Assess
  <2> DEFINE alerts == {s \in Skus : fs[s] # None /\ RiskOf(covered[s], fs[s]) # "safe"}
  <2>2. \A s \in alerts : snapshot[s] \in Stocks /\ fs[s] \in Demands
    OBVIOUS
  <2>3. \/ UNCHANGED <<skus, forecasts, risk_alerts>>
        \/ /\ skus' = [skus EXCEPT ![p] = snapshot]
           /\ forecasts' = [forecasts EXCEPT ![p] = fs]
           /\ risk_alerts' = [risk_alerts EXCEPT ![p] = alerts]
    BY <2>1 DEF Raise
  <2> HIDE DEF alerts
  <2> QED BY <2>2, <2>3 DEF Alerted
<1>2. CASE UNCHANGED <<skus, forecasts, risk_alerts>>
  BY <1>2 DEF Alerted
<1>3. ASSUME NEW p \in Runs, Run(p) \/ GiveUp(p) PROVE UNCHANGED <<skus, forecasts, risk_alerts>>
  BY <1>3 DEF Run, ReadExisting, ReadOnOrder, Recheck, Insert, GiveUp, plan
<1>4. ASSUME NEW p \in Runs, NEW s \in Skus, Approve(p, s) \/ Reject(p, s)
      PROVE  UNCHANGED <<skus, forecasts, risk_alerts>>
  BY <1>4 DEF Approve, Reject, plan
<1>5. CASE Tick \/ UNCHANGED vars
  BY <1>2, <1>5 DEF Tick, vars, plan
<1> QED BY <1>1, <1>2, <1>3, <1>4, <1>5 DEF Next

\* What one run reads of the units on order.
LEMMA ReadOnOrderStep ==
    ASSUME TypeOK, NEW p \in Runs, ReadOnOrder(p)
    PROVE  /\ on_order' \in [Runs -> [Skus -> Nat]]
           /\ \A s \in risk_alerts[p] : on_order'[p][s] = UnitsOnOrder(s)
           /\ \A q \in Runs : q # p => on_order'[q] = on_order[q]
           /\ pc[p] = "on_order"
           /\ pc' = [pc EXCEPT ![p] = IF Batch(p, on_order'[p]) = {} THEN "paused" ELSE "recheck"]
           /\ UNCHANGED <<clock, orders, skus, forecasts, risk_alerts, cutoff, existing,
                          began, already, met, tied>>
<1> DEFINE units == [s \in Skus |-> IF s \in risk_alerts[p] THEN UnitsOnOrder(s) ELSE 0]
<1>1. on_order' = [on_order EXCEPT ![p] = units]
  BY DEF ReadOnOrder
<1>2. units \in [Skus -> Nat]
  <2> SUFFICES ASSUME NEW s \in Skus PROVE UnitsOnOrder(s) \in Nat
    OBVIOUS
  <2> QED BY UnitsAreNumbers
<1>3. risk_alerts[p] \subseteq Skus
  BY DEF TypeOK
<1>4. \A s \in risk_alerts[p] : units[s] = UnitsOnOrder(s)
  BY <1>3
<1>5. /\ pc[p] = "on_order"
      /\ pc' = [pc EXCEPT ![p] = IF Batch(p, units) = {} THEN "paused" ELSE "recheck"]
      /\ UNCHANGED <<clock, orders, skus, forecasts, risk_alerts, cutoff, existing,
                     began, already, met, tied>>
  BY DEF ReadOnOrder, Move
<1> HIDE DEF units
<1>6. on_order'[p] = units /\ on_order' \in [Runs -> [Skus -> Nat]]
      /\ \A q \in Runs : q # p => on_order'[q] = on_order[q]
  BY <1>1, <1>2 DEF TypeOK
<1> QED BY <1>4, <1>5, <1>6

\* What the insertion does to the orders of one run.
LEMMA InsertStep ==
    ASSUME TypeOK, Alerted, NEW p \in Runs, Insert(p)
    PROVE  LET new == Batch(p, on_order[p]) \ already[p] IN
           /\ pc[p] = "insert"
           /\ pc' = [pc EXCEPT ![p] = "paused"]
           /\ \A s \in Skus : s \in new =>
                 /\ status'[p][s] = "pending_approval"
                 /\ quantity'[p][s] = QuantityOf(p, s, on_order[p])
                 /\ quantity'[p][s] \in Nat
                 /\ quantity'[p][s] > 0
                 /\ drafted'[p][s] = quantity'[p][s]
           /\ \A s \in Skus : s \notin new => /\ status'[p][s] = status[p][s]
                                              /\ quantity'[p][s] = quantity[p][s]
                                              /\ drafted'[p][s] = drafted[p][s]
           /\ \A q \in Runs : q # p => /\ status'[q] = status[q]
                                       /\ quantity'[q] = quantity[q]
                                       /\ drafted'[q] = drafted[q]
           /\ status' \in [Runs -> [Skus -> OrderStatus]]
           /\ quantity' \in [Runs -> [Skus -> Nat]]
           /\ drafted' \in [Runs -> [Skus -> Nat]]
           /\ created_at' \in [Runs -> [Skus -> 0..MaxClock]]
           /\ UNCHANGED <<clock, approved_at, plan, met, tied>>
<1> DEFINE new == Batch(p, on_order[p]) \ already[p]
<1> USE DEF TypeOK
<1>1. \A s \in new : QuantityOf(p, s, on_order[p]) \in Nat /\ QuantityOf(p, s, on_order[p]) > 0
  <2> SUFFICES ASSUME NEW s \in new
               PROVE  QuantityOf(p, s, on_order[p]) \in Nat /\ QuantityOf(p, s, on_order[p]) > 0
    OBVIOUS
  <2>1. s \in Skus
    BY DEF Batch
  <2> QED BY <2>1, BatchQuantity
<1>2. /\ pc[p] = "insert"
      /\ pc' = [pc EXCEPT ![p] = "paused"]
      /\ UNCHANGED <<clock, approved_at, plan, met, tied>>
  BY DEF Insert, Move
<1> HIDE DEF new
<1>3. /\ status' \in [Runs -> [Skus -> OrderStatus]]
      /\ \A s \in Skus : status'[p][s] = IF s \in new THEN "pending_approval" ELSE status[p][s]
      /\ \A q \in Runs : q # p => status'[q] = status[q]
  BY DEF Insert, new, OrderStatus
<1>4. quantity' = [quantity EXCEPT ![p] = [s \in Skus |->
                      IF s \in new THEN QuantityOf(p, s, on_order[p]) ELSE @[s]]]
  BY DEF Insert, new
<1>5. /\ quantity' \in [Runs -> [Skus -> Nat]]
      /\ \A s \in Skus : quantity'[p][s] = IF s \in new THEN QuantityOf(p, s, on_order[p])
                                           ELSE quantity[p][s]
      /\ \A q \in Runs : q # p => quantity'[q] = quantity[q]
  BY <1>1, <1>4
<1>6. created_at' \in [Runs -> [Skus -> 0..MaxClock]]
  BY DEF Insert
<1>7. drafted' = [drafted EXCEPT ![p] = [s \in Skus |->
                     IF s \in new THEN QuantityOf(p, s, on_order[p]) ELSE @[s]]]
  BY DEF Insert, new
<1>8. /\ drafted' \in [Runs -> [Skus -> Nat]]
      /\ \A s \in Skus : drafted'[p][s] = IF s \in new THEN QuantityOf(p, s, on_order[p])
                                           ELSE drafted[p][s]
      /\ \A q \in Runs : q # p => drafted'[q] = drafted[q]
  BY <1>1, <1>7
<1> HIDE DEF TypeOK
<1> QED BY <1>1, <1>2, <1>3, <1>5, <1>6, <1>8 DEF new

\* A table stays one when one of its entries is replaced.
LEMMA ExceptRow ==
    ASSUME NEW S, NEW f \in [Runs -> [Skus -> S]], NEW r \in Runs, NEW t \in Skus, NEW x \in S
    PROVE  [f EXCEPT ![r][t] = x] \in [Runs -> [Skus -> S]]
  OBVIOUS

\* Every step keeps the types.
LEMMA TypeStep == ASSUME TypeOK, Alerted, [Next]_vars PROVE TypeOK'
<1> USE PoDraftAssumption DEF TypeOK
<1>1. Shape'
  BY TypeShape, ShapeStep
<1>2. /\ status' \in [Runs -> [Skus -> OrderStatus]]
      /\ pc' \in [Runs -> {"idle"} \cup Active \cup Over]
      /\ skus' \in [Runs -> [Skus -> Stocks \cup {None}]]
      /\ forecasts' \in [Runs -> [Skus -> Demands \cup {None}]]
      /\ risk_alerts' \in [Runs -> SUBSET Skus]
      /\ cutoff' \in [Runs -> Int]
      /\ existing' \in [Runs -> SUBSET Rows]
      /\ already' \in [Runs -> SUBSET Skus]
      /\ met' \in [Runs -> SUBSET Runs]
      /\ tied' \in [Runs -> SUBSET Runs]
  BY <1>1 DEF Shape
<1> DEFINE Numbers == /\ clock \in 0..MaxClock
                      /\ quantity \in [Runs -> [Skus -> Nat]]
                      /\ drafted \in [Runs -> [Skus -> Nat]]
                      /\ \A r \in Runs, s \in Skus :
                            /\ drafted[r][s] <= quantity[r][s]
                            /\ status[r][s] = "pending_approval" => quantity[r][s] > 0
                      /\ created_at \in [Runs -> [Skus -> 0..MaxClock]]
                      /\ approved_at \in [Runs -> [Skus -> 0..MaxClock]]
                      /\ on_order \in [Runs -> [Skus -> Nat]]
                      /\ began \in [Runs -> 0..MaxClock]
<1> SUFFICES Numbers'
  BY <1>2
<1>3. CASE UNCHANGED <<clock, orders, on_order, began>>
  BY <1>3 DEF orders
<1>4. ASSUME NEW p \in Runs, Assess(p) \/ ReadExisting(p) \/ GiveUp(p)
      PROVE  UNCHANGED <<clock, orders, on_order, began>>
  BY <1>4, AssessStep, TypeShape DEF ReadExisting, GiveUp, plan
<1>5. ASSUME NEW p \in Runs, ReadOnOrder(p) PROVE Numbers'
  BY <1>5, ReadOnOrderStep DEF orders
<1>6. ASSUME NEW p \in Runs, Recheck(p) PROVE Numbers'
  BY <1>6 DEF Recheck, orders
<1>7. ASSUME NEW p \in Runs, Insert(p) PROVE Numbers'
  <2>1. /\ quantity' \in [Runs -> [Skus -> Nat]]
        /\ drafted' \in [Runs -> [Skus -> Nat]]
        /\ created_at' \in [Runs -> [Skus -> 0..MaxClock]]
        /\ UNCHANGED <<clock, approved_at, on_order, began>>
    BY <1>7, InsertStep DEF plan
  <2>2. ASSUME NEW r \in Runs, NEW s \in Skus
        PROVE  /\ drafted'[r][s] <= quantity'[r][s]
               /\ status'[r][s] = "pending_approval" => quantity'[r][s] > 0
    <3>1. CASE r = p /\ s \in Batch(p, on_order[p]) \ already[p]
      <4>1. quantity'[r][s] \in Nat /\ quantity'[r][s] > 0 /\ drafted'[r][s] = quantity'[r][s]
        BY <1>7, <3>1, InsertStep
      <4> QED BY <4>1
    <3>2. CASE ~(r = p /\ s \in Batch(p, on_order[p]) \ already[p])
      <4>1. /\ status'[r][s] = status[r][s]
            /\ quantity'[r][s] = quantity[r][s]
            /\ drafted'[r][s] = drafted[r][s]
        BY <1>7, <3>2, InsertStep
      <4> QED BY <4>1
    <3> QED BY <3>1, <3>2
  <2> QED BY <2>1, <2>2
<1>8. ASSUME NEW r \in Runs, NEW t \in Skus, Approve(r, t)
      PROVE  Numbers'
  <2>1. PICK q \in Edits \cup {quantity[r][t]} :
           /\ quantity' = [quantity EXCEPT ![r][t] = q]
           /\ drafted' = [drafted EXCEPT ![r][t] = IF q < @ THEN q ELSE @]
    BY <1>8 DEF Approve
  <2>2. /\ status' = [status EXCEPT ![r][t] = "approved"]
        /\ approved_at' = [approved_at EXCEPT ![r][t] = clock]
        /\ UNCHANGED <<clock, created_at, on_order, began>>
    BY <1>8 DEF Approve, plan
  <2> DEFINE kept == IF q < drafted[r][t] THEN q ELSE drafted[r][t]
  <2>3. q \in Nat /\ kept \in Nat /\ kept <= q
    BY <1>8, <2>1
  <2>4. drafted' = [drafted EXCEPT ![r][t] = kept]
    BY <2>1
  <2> HIDE DEF kept
  <2>5. /\ quantity' \in [Runs -> [Skus -> Nat]]
        /\ drafted' \in [Runs -> [Skus -> Nat]]
        /\ approved_at' \in [Runs -> [Skus -> 0..MaxClock]]
    BY <1>8, <2>1, <2>2, <2>3, <2>4, ExceptRow
  <2>6. ASSUME NEW o \in Runs, NEW s \in Skus
        PROVE  /\ drafted'[o][s] <= quantity'[o][s]
               /\ status'[o][s] = "pending_approval" => quantity'[o][s] > 0
    <3>1. CASE o = r /\ s = t
      BY <2>1, <2>2, <2>3, <2>4, <3>1
    <3>2. CASE ~(o = r /\ s = t)
      <4>1. /\ status'[o][s] = status[o][s]
            /\ quantity'[o][s] = quantity[o][s]
            /\ drafted'[o][s] = drafted[o][s]
        BY <2>1, <2>2, <2>4, <3>2
      <4> QED BY <4>1
    <3> QED BY <3>1, <3>2
  <2> QED BY <2>2, <2>5, <2>6
<1>11. ASSUME NEW r \in Runs, NEW t \in Skus, Reject(r, t)
      PROVE  Numbers'
  <2>1. /\ status' = [status EXCEPT ![r][t] = "rejected"]
        /\ UNCHANGED <<clock, quantity, drafted, created_at, approved_at, on_order, began>>
    BY <1>11 DEF Reject, plan
  <2>2. ASSUME NEW o \in Runs, NEW s \in Skus, status'[o][s] = "pending_approval"
        PROVE  status[o][s] = "pending_approval"
    BY <2>1, <2>2
  <2> QED BY <2>1, <2>2
<1>9. CASE Tick
  BY <1>9 DEF Tick, orders, plan
<1>10. CASE UNCHANGED vars
  BY <1>3, <1>10 DEF vars, plan
<1> QED BY <1>3, <1>4, <1>5, <1>6, <1>7, <1>8, <1>9, <1>10, <1>11 DEF Next, Run

\* Runs that are drafting met when the later one began to.
LEMMA DraftersMetStep == ASSUME TypeOK, DraftersMet, [Next]_vars PROVE DraftersMet'
<1> USE DEF TypeOK
<1>1. ASSUME NEW p \in Runs, ReadExisting(p) PROVE DraftersMet'
  <2> DEFINE others == {q \in Runs \ {p} : pc[q] \in Drafting}
  <2>1. /\ pc' = [pc EXCEPT ![p] = "on_order"]
        /\ met' = [q \in Runs |-> IF q = p THEN others
                                  ELSE IF q \in others THEN met[q] \cup {p} ELSE met[q]]
    BY <1>1 DEF ReadExisting, Move
  <2> SUFFICES ASSUME NEW r \in Runs, NEW q \in Runs, r # q,
                      pc'[r] \in Drafting, pc'[q] \in Drafting
               PROVE  q \in met'[r]
    BY DEF DraftersMet
  <2>2. CASE r = p
    BY <2>1, <2>2
  <2>3. CASE q = p
    BY <2>1, <2>3
  <2>4. CASE r # p /\ q # p
    <3>1. q \in met[r]
      BY <2>1, <2>4 DEF DraftersMet
    <3> QED BY <2>1, <2>4, <3>1
  <2> QED BY <2>2, <2>3, <2>4
<1>2. ASSUME met' = met, \A r \in Runs : pc'[r] \in Drafting => pc[r] \in Drafting
      PROVE  DraftersMet'
  BY <1>2 DEF DraftersMet
<1>3. ASSUME NEW p \in Runs, Assess(p) PROVE DraftersMet'
  <2>1. PICK end \in {"ended", "existing"} : pc' = [pc EXCEPT ![p] = end]
    BY <1>3, AssessStep, TypeShape
  <2>2. met' = met
    BY <1>3, AssessStep, TypeShape
  <2> QED BY <1>2, <2>1, <2>2 DEF Drafting
<1>4. ASSUME NEW p \in Runs, ReadOnOrder(p) \/ Recheck(p) \/ Insert(p) \/ GiveUp(p)
      PROVE  DraftersMet'
  <2>1. met' = met
    BY <1>4 DEF ReadOnOrder, Recheck, Insert, GiveUp
  <2>2. \/ \E next \in {"paused", "dead"} : pc' = [pc EXCEPT ![p] = next]
        \/ pc[p] \in Drafting /\ \E next \in Drafting : pc' = [pc EXCEPT ![p] = next]
    BY <1>4 DEF ReadOnOrder, Recheck, Insert, GiveUp, Move, Drafting
  <2> QED BY <1>2, <2>1, <2>2 DEF Drafting
<1>5. ASSUME NEW r \in Runs, NEW s \in Skus, Approve(r, s) \/ Reject(r, s)
      PROVE  UNCHANGED <<met, pc>>
  BY <1>5 DEF Approve, Reject
<1>6. CASE Tick \/ UNCHANGED vars
  BY <1>2, <1>6 DEF Tick, vars
<1> QED BY <1>1, <1>2, <1>3, <1>4, <1>5, <1>6 DEF Next, Run

\* What a run has read, and found when it looked again, stays as it is.
LEMMA PlanKept ==
    ASSUME TypeOK, [Next]_vars, NEW r \in Runs, pc[r] \in {"recheck", "insert", "paused"}
    PROVE  /\ skus'[r] = skus[r] /\ forecasts'[r] = forecasts[r]
           /\ risk_alerts'[r] = risk_alerts[r] /\ existing'[r] = existing[r]
           /\ on_order'[r] = on_order[r]
           /\ pc[r] # "recheck" => already'[r] = already[r]
           /\ Batch(r, on_order[r])' = Batch(r, on_order[r])
<1> USE DEF TypeOK
<1> DEFINE Same == /\ skus'[r] = skus[r] /\ forecasts'[r] = forecasts[r]
                   /\ risk_alerts'[r] = risk_alerts[r] /\ existing'[r] = existing[r]
                   /\ on_order'[r] = on_order[r]
                   /\ pc[r] # "recheck" => already'[r] = already[r]
<1> SUFFICES Same
  BY BatchKept
<1>1. ASSUME NEW p \in Runs, Assess(p) PROVE Same
  BY <1>1, AssessStep, TypeShape
<1>2. ASSUME NEW p \in Runs, ReadExisting(p) PROVE Same
  BY <1>2 DEF ReadExisting, Move
<1>3. ASSUME NEW p \in Runs, ReadOnOrder(p) PROVE Same
  BY <1>3, ReadOnOrderStep
<1>4. ASSUME NEW p \in Runs, Recheck(p) PROVE Same
  BY <1>4 DEF Recheck, Move
<1>5. ASSUME NEW p \in Runs, Insert(p) \/ GiveUp(p) PROVE Same
  BY <1>5 DEF Insert, GiveUp, plan
<1>6. ASSUME NEW p \in Runs, NEW s \in Skus, Approve(p, s) \/ Reject(p, s) PROVE Same
  BY <1>6 DEF Approve, Reject, plan
<1>7. CASE Tick \/ UNCHANGED vars
  BY <1>7 DEF Tick, vars, plan
<1> QED BY <1>1, <1>2, <1>3, <1>4, <1>5, <1>6, <1>7 DEF Next, Run

\* Where a run that drafts, or that has paused, was before the step.
LEMMA PlaceStep ==
    ASSUME TypeOK, [Next]_vars, NEW r \in Runs
    PROVE  /\ pc'[r] \in {"recheck", "insert"} =>
                 pc[r] \in {"recheck", "insert"} \/ ReadOnOrder(r)
           /\ pc'[r] = "paused" => pc[r] = "paused" \/ ReadOnOrder(r) \/ Insert(r)
<1> USE DEF TypeOK
<1>1. ASSUME NEW p \in Runs, Assess(p)
      PROVE  pc'[r] \notin {"recheck", "insert", "paused"} \/ pc'[r] = pc[r]
  <2>1. PICK end \in {"ended", "existing"} : pc' = [pc EXCEPT ![p] = end]
    BY <1>1, AssessStep, TypeShape
  <2> QED BY <2>1
<1>2. ASSUME NEW p \in Runs, ReadExisting(p) \/ GiveUp(p)
      PROVE  pc'[r] \notin {"recheck", "insert", "paused"} \/ pc'[r] = pc[r]
  BY <1>2 DEF ReadExisting, GiveUp, Move
<1>3. ASSUME NEW p \in Runs, ReadOnOrder(p) \/ Insert(p), p # r
      PROVE  pc'[r] = pc[r]
  BY <1>3 DEF ReadOnOrder, Insert, Move
<1>4. ASSUME NEW p \in Runs, Recheck(p)
      PROVE  pc'[r] = pc[r] \/ (pc[r] = "recheck" /\ pc'[r] = "insert")
  BY <1>4 DEF Recheck, Move
<1>5. ASSUME NEW p \in Runs, NEW s \in Skus, Approve(p, s) \/ Reject(p, s)
      PROVE  pc' = pc
  BY <1>5 DEF Approve, Reject
<1>6. CASE Tick \/ UNCHANGED vars
  BY <1>6 DEF Tick, vars
<1>7. CASE Insert(r)
  BY <1>7 DEF Insert, Move
<1> QED BY <1>1, <1>2, <1>3, <1>4, <1>5, <1>6, <1>7 DEF Next, Run

\* An order is not undone, and is made by an insertion; whom a drafting run met grows.
LEMMA StatusStep ==
    ASSUME TypeOK, Alerted, [Next]_vars, NEW r \in Runs, NEW s \in Skus
    PROVE  /\ status[r][s] # "none" => status'[r][s] # "none"
           /\ status'[r][s] # "none" => \/ status[r][s] # "none"
                                        \/ Insert(r) /\ s \in Batch(r, on_order[r]) \ already[r]
           /\ pc[r] # "existing" => met[r] \subseteq met'[r]
<1> USE DEF TypeOK
<1> DEFINE Goal == /\ status[r][s] # "none" => status'[r][s] # "none"
                   /\ status'[r][s] # "none" =>
                          \/ status[r][s] # "none"
                          \/ Insert(r) /\ s \in Batch(r, on_order[r]) \ already[r]
                   /\ pc[r] # "existing" => met[r] \subseteq met'[r]
<1>1. ASSUME NEW p \in Runs, Assess(p) PROVE Goal
  BY <1>1, AssessStep, TypeShape DEF orders
<1>2. ASSUME NEW p \in Runs, ReadExisting(p) PROVE Goal
  <2>1. UNCHANGED status
    BY <1>2 DEF ReadExisting, orders
  <2>2. pc[r] # "existing" => met[r] \subseteq met'[r]
    BY <1>2 DEF ReadExisting, Move
  <2> QED BY <2>1, <2>2
<1>3. ASSUME NEW p \in Runs, ReadOnOrder(p) \/ Recheck(p) \/ GiveUp(p) PROVE Goal
  BY <1>3 DEF ReadOnOrder, Recheck, GiveUp, orders
<1>4. ASSUME NEW p \in Runs, Insert(p) PROVE Goal
  <2>1. met' = met
    BY <1>4 DEF Insert
  <2>2. CASE r = p /\ s \in Batch(p, on_order[p]) \ already[p]
    BY <1>4, <2>1, <2>2, InsertStep
  <2>3. CASE ~(r = p /\ s \in Batch(p, on_order[p]) \ already[p])
    BY <1>4, <2>1, <2>3, InsertStep
  <2> QED BY <2>2, <2>3
<1>5. ASSUME NEW p \in Runs, NEW t \in Skus, Approve(p, t) \/ Reject(p, t) PROVE Goal
  <2>1. PICK new \in {"approved", "rejected"} :
           status' = [status EXCEPT ![p][t] = new] /\ status[p][t] = "pending_approval"
    BY <1>5 DEF Approve, Reject
  <2>2. met' = met
    BY <1>5 DEF Approve, Reject
  <2> QED BY <2>1, <2>2
<1>6. CASE Tick \/ UNCHANGED vars
  BY <1>6 DEF Tick, vars, orders
<1> QED BY <1>1, <1>2, <1>3, <1>4, <1>5, <1>6 DEF Next, Run

\* The orders on order stay, drop out, or are new ones of a run that inserts.
LEMMA UnitsStep ==
    ASSUME TypeOK, Alerted, [Next]_vars, NEW s \in Skus
    PROVE  \/ /\ Open(s)' \subseteq Open(s)
              /\ UnitsDrafted(s)' \in Nat
              /\ UnitsDrafted(s)' <= UnitsDrafted(s)
           \/ \E p \in Runs : Insert(p) /\ s \in Batch(p, on_order[p]) \ already[p]
<1> USE DEF TypeOK
<1> DEFINE Kept == /\ Open(s)' \subseteq Open(s)
                   /\ \A r \in Open(s)' : drafted'[r][s] \in Nat /\ drafted'[r][s] <= drafted[r][s]
<1> SUFFICES \/ Kept
             \/ \E p \in Runs : Insert(p) /\ s \in Batch(p, on_order[p]) \ already[p]
  BY UnitsFewer
<1>1. CASE UNCHANGED <<status, drafted, approved_at, clock>>
  BY <1>1 DEF Open
<1>2. ASSUME NEW p \in Runs,
             Assess(p) \/ ReadExisting(p) \/ ReadOnOrder(p) \/ Recheck(p) \/ GiveUp(p)
      PROVE  UNCHANGED <<status, drafted, approved_at, clock>>
  BY <1>2, AssessStep, TypeShape DEF ReadExisting, ReadOnOrder, Recheck, GiveUp, orders
<1>3. ASSUME NEW p \in Runs, Insert(p), s \notin Batch(p, on_order[p]) \ already[p]
      PROVE  Kept
  <2>1. ASSUME NEW q \in Runs
        PROVE  status'[q][s] = status[q][s] /\ drafted'[q][s] = drafted[q][s]
    <3>1. CASE q = p
      BY <1>3, <3>1, InsertStep
    <3>2. CASE q # p
      BY <1>3, <3>2, InsertStep
    <3> QED BY <3>1, <3>2
  <2>2. UNCHANGED <<clock, approved_at>>
    BY <1>3, InsertStep
  <2> QED BY <2>1, <2>2 DEF Open
<1>4. ASSUME NEW p \in Runs, NEW t \in Skus, Approve(p, t) PROVE Kept
  <2>1. /\ status[p][t] = "pending_approval"
        /\ status' = [status EXCEPT ![p][t] = "approved"]
        /\ approved_at' = [approved_at EXCEPT ![p][t] = clock]
        /\ UNCHANGED clock
    BY <1>4 DEF Approve
  <2>2. PICK q \in Edits \cup {quantity[p][t]} :
           drafted' = [drafted EXCEPT ![p][t] = IF q < @ THEN q ELSE @]
    BY <1>4 DEF Approve
  <2>3. Open(s)' \subseteq Open(s)
    BY <2>1 DEF Open
  <2>4. ASSUME NEW r \in Runs
        PROVE  drafted'[r][s] \in Nat /\ drafted'[r][s] <= drafted[r][s]
    <3>1. q \in Nat /\ drafted[r][s] \in Nat
      <4>1. quantity[p][t] \in Nat /\ Edits \subseteq Nat
        BY PoDraftAssumption
      <4> QED BY <4>1
    <3>2. drafted'[r][s] = drafted[r][s] \/ (drafted'[r][s] = q /\ q < drafted[r][s])
      BY <2>2
    <3> QED BY <3>1, <3>2
  <2> QED BY <2>3, <2>4 DEF Open
<1>5. ASSUME NEW p \in Runs, NEW t \in Skus, Reject(p, t) PROVE Kept
  <2>1. /\ status' = [status EXCEPT ![p][t] = "rejected"]
        /\ UNCHANGED <<clock, drafted, approved_at>>
    BY <1>5 DEF Reject
  <2> QED BY <2>1 DEF Open
<1>6. CASE Tick
  BY <1>6, PoDraftAssumption DEF Tick, Open, orders
<1>7. CASE UNCHANGED vars
  BY <1>1, <1>7 DEF vars, orders
<1> QED BY <1>1, <1>2, <1>3, <1>4, <1>5, <1>6, <1>7 DEF Next, Run

\* A run orders what it raised an alert for.
LEMMA OrdersOfAlertsStep ==
    ASSUME TInv, [Next]_vars
    PROVE  OrdersOfAlerts'
<1> SUFFICES ASSUME NEW r \in Runs, NEW s \in Skus, status'[r][s] # "none"
             PROVE  s \in risk_alerts'[r]
  BY DEF OrdersOfAlerts
<1>1. CASE status[r][s] # "none"
  BY <1>1, PlanKept DEF TInv, OrdersOfPaused, OrdersOfAlerts
<1>2. CASE Insert(r) /\ s \in Batch(r, on_order[r])
  BY <1>2 DEF Insert, plan, Batch
<1> QED BY <1>1, <1>2, StatusStep DEF TInv

\* A run that pauses has inserted its orders, or had none to make.
LEMMA OrderedStep ==
    ASSUME TInv, [Next]_vars
    PROVE  Ordered'
<1> SUFFICES ASSUME NEW r \in Runs, pc'[r] = "paused", NEW s \in Batch(r, on_order[r])'
             PROVE  status'[r][s] # "none" \/ s \in already'[r]
  BY DEF Ordered
<1> USE DEF TInv
<1>1. CASE pc[r] = "paused"
  <2>1. s \in Batch(r, on_order[r]) /\ already'[r] = already[r]
    BY <1>1, PlanKept
  <2>2. s \in Skus
    BY <2>1 DEF Batch, TypeOK
  <2> QED BY <1>1, <2>1, <2>2, StatusStep DEF Ordered
<1>2. CASE Insert(r)
  <2>1. pc[r] = "insert"
    BY <1>2, InsertStep
  <2>2. s \in Batch(r, on_order[r]) /\ already'[r] = already[r]
    BY <2>1, PlanKept
  <2>3. s \in Skus
    BY <2>2 DEF Batch, TypeOK
  <2> QED BY <1>2, <2>2, <2>3, InsertStep
<1>3. CASE ReadOnOrder(r)
  <2>1. Batch(r, on_order'[r]) = {}
    BY <1>3, ReadOnOrderStep DEF TypeOK
  <2>2. UNCHANGED <<skus, forecasts, risk_alerts, existing>>
    BY <1>3, ReadOnOrderStep
  <2>3. Batch(r, on_order[r])' = Batch(r, on_order'[r])
    BY <2>2 DEF Batch, QuantityOf, DemandOf, Existing
  <2> QED BY <2>1, <2>3
<1> QED BY <1>1, <1>2, <1>3, PlaceStep

\* What a run counted is still the most there is, unless a run it met has ordered.
LEMMA CountedStep ==
    ASSUME TInv, [Next]_vars
    PROVE  Counted'
<1> SUFFICES ASSUME NEW r \in Runs, NEW s \in Skus,
                    pc'[r] \in {"recheck", "insert"}, s \in Batch(r, on_order[r])'
             PROVE  \/ UnitsDrafted(s)' <= on_order'[r][s]
                    \/ \E q \in met'[r] : status'[q][s] # "none"
  BY DEF Counted
<1> USE DEF TInv
<1>1. CASE ReadOnOrder(r)
  <2>1. s \in risk_alerts[r]
    BY <1>1, ReadOnOrderStep DEF Batch
  <2>2. on_order'[r][s] = UnitsOnOrder(s)
    BY <1>1, <2>1, ReadOnOrderStep
  <2>3. UnitsDrafted(s)' = UnitsDrafted(s)
    <3>1. UNCHANGED <<clock, status, approved_at, drafted>>
      BY <1>1, ReadOnOrderStep DEF orders
    <3>2. Open(s)' = Open(s)
      BY <3>1 DEF Open
    <3> QED BY <3>1, <3>2 DEF UnitsDrafted, UnitsOf
  <2> QED BY <2>2, <2>3, DraftedAreOnOrder
<1>2. CASE pc[r] \in {"recheck", "insert"}
  <2>1. s \in Batch(r, on_order[r]) /\ on_order'[r] = on_order[r] /\ met[r] \subseteq met'[r]
    BY <1>2, PlanKept, StatusStep
  <2>2. on_order[r][s] \in Nat /\ met[r] \subseteq Runs
    BY DEF TypeOK
  <2>3. CASE \E q \in met[r] : status[q][s] # "none"
    BY <2>1, <2>2, <2>3, StatusStep
  <2>4. ASSUME UnitsDrafted(s)' \in Nat, UnitsDrafted(s)' <= UnitsDrafted(s),
               UnitsDrafted(s) <= on_order[r][s]
        PROVE  UnitsDrafted(s)' <= on_order'[r][s]
    <3>1. UnitsDrafted(s) \in Nat
      BY UnitsAreNumbers
    <3> QED BY <2>1, <2>2, <2>4, <3>1
  <2>5. ASSUME NEW p \in Runs, Insert(p), s \in Batch(p, on_order[p]) \ already[p]
        PROVE  \E q \in met'[r] : status'[q][s] # "none"
    <3>1. pc[p] = "insert" /\ pc' = [pc EXCEPT ![p] = "paused"] /\ status'[p][s] # "none"
      BY <2>5, InsertStep
    <3>2. p # r
      BY <3>1 DEF TypeOK
    <3>3. p \in met[r]
      BY <1>2, <3>1, <3>2 DEF DraftersMet, Drafting
    <3> QED BY <2>1, <3>1, <3>3
  <2>6. \/ UnitsDrafted(s) <= on_order[r][s]
        \/ \E q \in met[r] : status[q][s] # "none"
    BY <1>2, <2>1 DEF Counted
  <2> QED BY <2>3, <2>4, <2>5, <2>6, UnitsStep
<1> QED BY <1>1, <1>2, PlaceStep

\* No more is ordered than some run found missing, unless runs met.
LEMMA NoOverOrderStep ==
    ASSUME TInv, [Next]_vars
    PROVE  NoOverOrder'
<1> DEFINE Tight(r, s) == 100 * (skus[r][s] + UnitsDrafted(s) - Moq[s])
                              < Target(DemandOf(r, s), LeadTime)
<1> DEFINE Paired(s) == \E r, q \in Runs : /\ status[r][s] # "none" /\ status[q][s] # "none"
                                            /\ q \in met[r]
<1> DEFINE Good(s) == \/ Open(s) = {}
                       \/ Paired(s)
                       \/ \E r \in Runs : status[r][s] # "none" /\ Tight(r, s)
<1>1. NoOverOrder <=> \A s \in Skus : Good(s)
  BY DEF NoOverOrder
<1>2. NoOverOrder' <=> \A s \in Skus : Good(s)'
  BY DEF NoOverOrder
<1> SUFFICES ASSUME NEW s \in Skus PROVE Good(s)'
  BY <1>2
<1> HIDE DEF Good, Paired, Tight
<1> USE DEF TInv
<1>3. UnitsDrafted(s) \in Nat /\ Moq[s] \in Nat
  BY UnitsAreNumbers, PoDraftAssumption
<1>4. ASSUME NEW r \in Runs, s \in risk_alerts[r]
      PROVE  skus[r][s] \in Int /\ Target(DemandOf(r, s), LeadTime) \in Int
  BY <1>4, DemandIsNumber, PoDraftAssumption DEF Target, SafetyBufferDays
\* What made the bound true holds on, as long as no order for the SKU is added.
<1>5. ASSUME Paired(s) PROVE Paired(s)'
  <2>1. PICK r \in Runs, q \in Runs :
           status[r][s] # "none" /\ status[q][s] # "none" /\ q \in met[r]
    BY <1>5 DEF Paired
  <2>2. pc[r] = "paused"
    BY <2>1 DEF OrdersOfPaused
  <2>3. status'[r][s] # "none" /\ status'[q][s] # "none" /\ q \in met'[r]
    BY <2>1, <2>2, StatusStep
  <2> QED BY <2>3 DEF Paired
<1>6. ASSUME Open(s)' \subseteq Open(s), UnitsDrafted(s)' \in Nat,
             UnitsDrafted(s)' <= UnitsDrafted(s)
      PROVE  Good(s)'
  <2>1. Open(s) = {} => Open(s)' = {}
    BY <1>6
  <2>2. ASSUME NEW r \in Runs, status[r][s] # "none", Tight(r, s)
        PROVE  status'[r][s] # "none" /\ Tight(r, s)'
    <3>1. pc[r] = "paused" /\ s \in risk_alerts[r]
      BY <2>2 DEF OrdersOfPaused, OrdersOfAlerts
    <3>2. skus'[r] = skus[r] /\ forecasts'[r] = forecasts[r]
      BY <3>1, PlanKept
    <3>3. DemandOf(r, s)' = DemandOf(r, s)
      BY <3>2 DEF DemandOf
    <3>4. skus[r][s] \in Int /\ Target(DemandOf(r, s), LeadTime) \in Int
      BY <1>4, <3>1
    <3>5. Tight(r, s)'
      BY <1>3, <1>6, <2>2, <3>2, <3>3, <3>4 DEF Tight
    <3> QED BY <2>2, <3>5, StatusStep
  <2>3. Good(s)
    BY <1>1
  <2> QED BY <1>5, <2>1, <2>2, <2>3 DEF Good
<1>7. ASSUME NEW p \in Runs, Insert(p), s \in Batch(p, on_order[p]) \ already[p]
      PROVE  Good(s)'
  <2>1. /\ pc[p] = "insert"
        /\ status'[p][s] # "none"
        /\ drafted'[p][s] = QuantityOf(p, s, on_order[p])
        /\ drafted'[p][s] \in Nat
        /\ \A q \in Runs : q # p => status'[q] = status[q] /\ drafted'[q] = drafted[q]
        /\ UNCHANGED <<clock, approved_at, skus, forecasts, met>>
    BY <1>7, InsertStep DEF plan
  <2>2. CASE \E q \in met[p] : status[q][s] # "none"
    <3>1. PICK q \in met[p] : status[q][s] # "none"
      BY <2>2
    <3>2. q \in Runs
      BY <3>1 DEF TypeOK
    <3>3. status'[q][s] # "none" /\ q \in met'[p]
      BY <2>1, <3>1, <3>2, StatusStep
    <3> QED BY <2>1, <3>2, <3>3 DEF Good, Paired
  <2>3. CASE UnitsDrafted(s) <= on_order[p][s]
    <3>1. Open(s)' \subseteq Open(s) \cup {p}
      BY <2>1 DEF Open
    <3>2. /\ UnitsDrafted(s)' \in Nat
          /\ UnitsDrafted(s)' <= UnitsDrafted(s) + drafted'[p][s]
      BY <2>1, <3>1, UnitsAdded
    <3>3. on_order[p][s] \in Nat /\ s \in risk_alerts[p]
      BY <1>7 DEF TypeOK, Batch
    <3>4. 100 * (skus[p][s] + on_order[p][s] + drafted'[p][s] - Moq[s])
              < Target(DemandOf(p, s), LeadTime)
      BY <1>7, <2>1, <3>3, BatchQuantity
    <3>5. skus[p][s] \in Int /\ Target(DemandOf(p, s), LeadTime) \in Int
      BY <1>4, <3>3
    <3>6. 100 * (skus[p][s] + UnitsDrafted(s)' - Moq[s]) < Target(DemandOf(p, s), LeadTime)
      BY <1>3, <2>1, <2>3, <3>2, <3>3, <3>4, <3>5
    <3>7. DemandOf(p, s)' = DemandOf(p, s) /\ skus'[p] = skus[p]
      BY <2>1 DEF DemandOf
    <3> QED BY <2>1, <3>6, <3>7 DEF Good, Tight
  <2> QED BY <1>7, <2>1, <2>2, <2>3 DEF Counted
<1> QED BY <1>6, <1>7, UnitsStep

\* The invariant holds initially.
LEMMA InitTInv == ASSUME Init PROVE TInv
<1>1. TypeOK
  BY PoDraftAssumption DEF Init, TypeOK, OrderStatus, Rows
<1>2. /\ \A r \in Runs : pc[r] = "idle" /\ risk_alerts[r] = {}
      /\ \A r \in Runs, s \in Skus : status[r][s] = "none"
  BY DEF Init
<1>3. OrdersOfPaused /\ OrdersOfAlerts /\ Alerted /\ Ordered /\ DraftersMet /\ Counted
  BY <1>2 DEF OrdersOfPaused, OrdersOfAlerts, Alerted, Ordered, DraftersMet, Counted, Drafting
<1>4. \A s \in Skus : Open(s) = {}
  BY <1>2 DEF Open
<1>5. NoOverOrder
  BY <1>4 DEF NoOverOrder
<1> QED BY <1>1, <1>3, <1>5 DEF TInv

\* The invariant of the quantities: no step breaks it.
THEOREM Invariance == Spec => []TInv
<1>1. TInv /\ [Next]_vars => TInv'
  <2> SUFFICES ASSUME TInv, [Next]_vars PROVE TInv'
    OBVIOUS
  <2>1. TypeOK' /\ Alerted' /\ DraftersMet'
    BY TypeStep, AlertedStep, DraftersMetStep DEF TInv
  <2>2. OrdersOfPaused'
    BY TypeShape, PausedStep DEF TInv
  <2> QED BY <2>1, <2>2, OrdersOfAlertsStep, OrderedStep, CountedStep, NoOverOrderStep DEF TInv
<1> QED BY <1>1, InitTInv, PTL DEF Spec

\* For any number of runs and SKUs: every variable keeps its type, and every order that
\* waits for approval is for a positive number of units.
THEOREM TypeCorrect == Spec => []TypeOK
<1>1. TInv => TypeOK
  BY DEF TInv
<1> QED BY <1>1, Invariance, PTL

\* For any stocks and demands, and whatever quantities people enter: the units on order for
\* a SKU that runs asked for are no more than a run that ordered it found missing, or the
\* least that is sold, unless runs that ordered it were drafting together.
THEOREM NothingIsOverOrdered == Spec => []NoOverOrder
<1>1. TInv => NoOverOrder
  BY DEF TInv
<1> QED BY <1>1, Invariance, PTL

\* For any stocks and demands: a run that has paused leaves nothing critical without an
\* order that it raised an alert for, unless its demand is lost in rounding.
THEOREM CriticalIsNotLeft == Spec => []CriticalIsOrdered
<1>1. ASSUME TInv PROVE CriticalIsOrdered
  <2> SUFFICES ASSUME NEW r \in Runs, pc[r] = "paused", NEW s \in risk_alerts[r],
                      RiskOf(skus[r][s], forecasts[r][s]) = "critical",
                      SurvivesRounding(PlanningDailyDemand(forecasts[r][s].predicted,
                                                           forecasts[r][s].p90), LeadTime),
                      status[r][s] = "none", ~(on_order[r][s] > 0),
                      s \notin Existing(r), s \notin already[r]
               PROVE  FALSE
    BY DEF CriticalIsOrdered
  <2> USE <1>1 DEF TInv
  <2>1. s \in Skus /\ on_order[r][s] = 0
    BY DEF TypeOK
  <2> DEFINE f == forecasts[r][s]
  <2> DEFINE stock == skus[r][s]
  <2>2. stock \in Int /\ f.predicted \in Int /\ f.p90 \in Int \cup {None}
    BY PoDraftAssumption DEF Alerted
  <2>3. RiskLevel(DaysOfCover(stock, f.predicted), LeadTime, DaysOfCover(stock, f.p90)) = "critical"
    BY DEF RiskOf
  <2>4. LeadTime \in Nat /\ Moq[s] \in Nat /\ None \notin Int
    BY <2>1, PoDraftAssumption
  <2>5. ReorderQuantity(DemandOf(r, s), stock, LeadTime, Moq[s], 0) > 0
    <3> DEFINE predicted == f.predicted
    <3> DEFINE p90 == f.p90
    <3> DEFINE moq == Moq[s]
    <3>1. stock \in Int /\ predicted \in Int /\ p90 \in Int \cup {None} /\ moq \in Nat
      BY <2>2, <2>4
    <3>2. /\ RiskLevel(DaysOfCover(stock, predicted), LeadTime, DaysOfCover(stock, p90)) = "critical"
          /\ SurvivesRounding(PlanningDailyDemand(predicted, p90), LeadTime)
      BY <2>3
    <3>3. DemandOf(r, s) = PlanningDailyDemand(Rounded(predicted), Rounded(p90))
      BY DEF DemandOf
    <3> HIDE DEF stock, predicted, p90, moq
    <3>4. ReorderQuantity(PlanningDailyDemand(Rounded(predicted), Rounded(p90)),
                          stock, LeadTime, moq, 0) > 0
      BY <2>4, <3>1, <3>2, CriticalIsReordered
    <3> QED BY <3>3, <3>4 DEF moq
  <2>6. s \in Batch(r, on_order[r])
    BY <2>1, <2>5 DEF Batch, QuantityOf
  <2> QED BY <2>6 DEF Ordered
<1>2. TInv => CriticalIsOrdered
  BY <1>1
<1> QED BY <1>2, Invariance, PTL
=============================================================================
