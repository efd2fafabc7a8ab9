----------------------------- MODULE ChatTools -----------------------------
(***************************************************************************)
(* What the chat's tools say of a SKU (agent/chat/tools.py).  They use the *)
(* same two files as the pipeline, but not its p90 band.                   *)
(*                                                                         *)
(* A row is what a tool has read of a SKU: its stock, units on order and   *)
(* minimum order quantity, and of its latest forecast the predicted demand *)
(* and days of cover, with those of the p90 band, None if there are none.  *)
(* The supplier's lead time is the same for all.                           *)
(***************************************************************************)
EXTENDS Planning, FiniteSets

CONSTANTS
    MaxRows,   \* rows find_at_risk_skus returns, 20
    Lead       \* lead time of the supplier, in days

ASSUME ChatToolsAssumption == MaxRows \in Nat /\ Lead \in Nat

\* get_sku_status: the band of the forecast is shown, but not part of the risk.
ToolRisk(days) == RiskLevel(days, Lead, None)

Suggested(row) ==
    IF row.predicted = None THEN 0
    ELSE ReorderQuantity(row.predicted, row.stock, Lead, row.moq, row.on_order)

\* draft_purchase_order: the quantity that was asked for, or the suggested one; no
\* proposal without any.
Proposed(row, asked) ==
    LET quantity == IF asked = None THEN Suggested(row) ELSE asked
    IN  IF quantity <= 0 THEN None ELSE quantity

\* The SKUs at risk within so many days, of one severity or of any.
AtRisk(rows, ahead, severity) ==
    {r \in rows :
        /\ r.days # None
        /\ ToolRisk(r.days) # "safe"
        /\ r.days <= 10 * ahead
        /\ severity \in {"any", ToolRisk(r.days)}}

\* The order of the answer: critical ones first, then by days of cover, then as read.
Precedes(q, r) ==
    LET a == Severity[ToolRisk(q.days)]
        b == Severity[ToolRisk(r.days)]
    IN  \/ a > b
        \/ a = b /\ q.days < r.days
        \/ a = b /\ q.days = r.days /\ q.id < r.id

\* find_at_risk_skus: the first of them.
FindAtRisk(rows, ahead, severity) ==
    LET all == AtRisk(rows, ahead, severity)
    IN  {r \in all : Cardinality({q \in all : Precedes(q, r)}) < MaxRows}

-----------------------------------------------------------------------------
\* The chat never makes more of a SKU than the pipeline does with the same forecast:
\* neither a greater risk, nor a greater quantity (get_sku_status, draft_purchase_order;
\* risk_node, po_draft_node).
NoBolder(row) ==
    /\ Severity[ToolRisk(row.days)] <= Severity[RiskLevel(row.days, Lead, row.days_p90)]
    /\ row.predicted # None =>
          Suggested(row)
              <= ReorderQuantity(PlanningDailyDemand(row.predicted, row.p90),
                                 row.stock, Lead, row.moq, row.on_order)

\* A SKU that is critical by its point forecast is left out of an answer only if as many
\* as it holds are critical with no more cover, and nothing but such SKUs is in it
\* (find_at_risk_skus).
CriticalFirst(rows, ahead, severity) ==
    LET all == AtRisk(rows, ahead, severity)
        answer == FindAtRisk(rows, ahead, severity)
        Worse(r) == {q \in all \ {r} : ToolRisk(q.days) = "critical" /\ q.days <= r.days}
    IN  \A r \in all \ answer : ToolRisk(r.days) = "critical" =>
            answer \subseteq Worse(r) /\ Cardinality(Worse(r)) >= MaxRows
=============================================================================
