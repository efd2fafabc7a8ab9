----------------------------- MODULE MCPoDraft -----------------------------
(***************************************************************************)
(* Two queued runs and a direct one order one SKU.  Four units are just    *)
(* critical in the p90 band and eight are safe; fourteen or ten are        *)
(* missing, and no fewer than five are sold.  What the chat's tools say is *)
(* evaluated for small numbers.                                            *)
(***************************************************************************)
EXTENDS PoDraft, ChatTools, TLC

MCMoq == [s \in Skus |-> 5]

\* A little more than one unit a day, or twice as many in the p90 band, which is rounded
\* to exactly one and two.
MCDemands == {[predicted |-> 1004, p90 |-> 2004]}

\* The queued runs behave alike.
QueuedRuns == Permutations(Queued)

Row(id, stock, predicted, p90) ==
    [id |-> id, stock |-> stock, on_order |-> 2, moq |-> 5,
     predicted |-> Rounded(predicted), p90 |-> Rounded(p90),
     days |-> DaysOfCover(stock, predicted), days_p90 |-> DaysOfCover(stock, p90)]

\* One row of every stock and demand.
ASSUME SmallRowsAreNoBolder ==
    \A stock \in 0..12, predicted \in {None} \cup {0, 4, 505, 1000, 1504} :
        \A p90 \in {None} \cup {0, 1000, 2006} :
            NoBolder(Row(1, stock, predicted, p90))

\* Up to four SKUs, when two fit into an answer.
ASSUME SmallAnswersAreCriticalFirst ==
    \A stocks \in [1..4 -> {1, 2, 4, 9}], severity \in {"any", "critical", "warning"} :
        CriticalFirst({Row(id, stocks[id], 1000, None) : id \in 1..4}, 5, severity)

\* What CriticalIsOrdered excepts: a SKU that sells once in 250 days and is sold out, or
\* one with a last unit that lasts 41.7 days and takes 42 to arrive, is critical and not
\* ordered, since a demand of 0.004 or 0.024 is passed on as 0.00 or 0.02.
ASSUME ScarceSalesAreDropped ==
    \A scarce \in {[demand |-> 4, stock |-> 0, lead |-> 7],
                   [demand |-> 24, stock |-> 1, lead |-> 42]} :
        /\ RiskLevel(DaysOfCover(scarce.stock, scarce.demand), scarce.lead, None) = "critical"
        /\ ReorderQuantity(Rounded(scarce.demand), scarce.stock, scarce.lead, 1, 0) = 0
        /\ ~SurvivesRounding(scarce.demand, scarce.lead)
=============================================================================
