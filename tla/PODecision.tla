----------------------------- MODULE PODecision -----------------------------
(***************************************************************************)
(* What the approval API promises about purchase orders, with none of its  *)
(* machinery: every order is decided at most once, a decision never        *)
(* changes, and a client is only ever told of a decision that was made.    *)
(* PurchaseOrders.tla, which models api/routes/purchase_orders.py step by  *)
(* step, is shown to implement this specification.                         *)
(***************************************************************************)


CONSTANTS
    POs,        \* the purchase orders waiting for approval
    Decisions,  \* the decisions one can take: records with a field "status"
    None        \* no decision yet

VARIABLES
    decision,   \* decision[p]: the decision taken about p, or None
    told        \* what clients were told: a set of [po, status] records

vars == <<decision, told>>

Init ==
    /\ decision = [p \in POs |-> None]
    /\ told = {}

\* An undecided order is approved or rejected.
Decide(p) ==
    /\ decision[p] = None
    /\ \E d \in Decisions : decision' = [decision EXCEPT ![p] = d]
    /\ UNCHANGED told

\* A client is told the decision that stands for an order, as often as it asks.
Tell(p) ==
    /\ decision[p] # None
    /\ told' = told \cup {[po |-> p, status |-> decision[p].status]}
    /\ UNCHANGED decision

Next == \E p \in POs : Decide(p) \/ Tell(p)

Spec == Init /\ [][Next]_vars
=============================================================================
