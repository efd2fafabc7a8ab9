--------------------------- MODULE MCForecasting ---------------------------
(***************************************************************************)
(* One run at a time over two SKUs, both long enough for Prophet, of which *)
(* no more than a third may fail; and the arithmetic for every history of  *)
(* up to six days of which a day sells nothing, one unit or four, with     *)
(* weeks of two days.                                                      *)
(*                                                                         *)
(* No step of a run depends on the sales, so that it is enough to vary     *)
(* them while there has been no run.                                       *)
(***************************************************************************)
EXTENDS Forecasting

CONSTANTS r1, s1, s2

MCThreshold == Frac(1, 3)
MCWeeklyStrength == Frac(3, 10)
MCZeroShare == Frac(6, 10)
MCTrendMinDaily == Frac(2, 1)
MCTolerance == Frac(1, 10)
MCAlphaGrid == <<Frac(1, 4), Frac(1, 2)>>
MCHoltGrid == <<<<Frac(1, 2), Frac(1, 4)>>, <<Frac(1, 2), Frac(1, 2)>>>>
MCHalf == Frac(1, 2)
MCHoldoutSteps == {<<4, 1>>, <<6, 2>>}
MCSpread == <<Frac(1, 1), Frac(7, 5), Frac(17, 10)>>
MCToSigma == Frac(3, 2)
MCToBand == Frac(5, 4)
MCLeastError == Frac(1, 100)
MCMapeRatioMax == Frac(9, 10)
MCBiasMax == Frac(1, 4)
MCCoverageMin == Frac(4, 10)
MCSlowDaily == Frac(3, 2)
MCFastDaily == Frac(3, 1)
MCZHalf == Frac(2, 3)

Days == 1..6
\* Only how far apart the days are matters, so that the first may be day one.
MCHistories ==
    UNION {[sold -> {1, 4}] : sold \in {days \in SUBSET Days : days = {} \/ 1 \in days}}
MCSingles == {<<rows>> : rows \in MCHistories}

MCExternals ==
    {NoCandidate,
     [wmape |-> Frac(1, 10), residuals |-> <<Zero, Frac(1, 2)>>, path |-> <<One, Frac(-1, 1)>>]}

\* A history without gaps, and one that starts late or has a gap.
Steady == {<<1, 4, 1, 4, 1, 2>>, <<2, 2, 2, 4, 4, 4>>, <<4, 4, 2, 1, 1, 1>>}
Rows(s, gap) == [d \in 1..Len(s) \ gap |-> s[d]]
MCPairs ==
    {<<Rows(a, {}), Rows(b, gap)>> : a \in Steady, b \in Steady,
        gap \in {{}, {1}, {2}, {5}, {6}, {1, 2, 3}}}
MCPortfolios == {<< >>} \cup MCSingles \cup MCPairs

MCNext ==
    \/ sales = << >> /\ Operate /\ UNCHANGED sales
    \/ Unused /\ Sell /\ << >> \in {sales, sales'}

MCSpec == Opened /\ [][MCNext]_history
=============================================================================
