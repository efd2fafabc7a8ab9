------------------------------ MODULE Outcomes ------------------------------
(***************************************************************************)
(* What became of the approved orders: agent/outcomes.py compares the      *)
(* sales before and after the day an order is expected to arrive, and      *)
(* agent/roi.py adds up what the orders were worth.  The evaluation runs   *)
(* as the daily job and whenever POST /evaluate-outcomes asks for it, so   *)
(* two of them may be under way.                                           *)
(*                                                                         *)
(* Time is counted in days; of a SKU's sales only the days it sold at all  *)
(* matter, and the units of those days and on hand may be any number.      *)
(***************************************************************************)
EXTENDS Integers, Sequences, FiniteSets, FiniteSetsExt

CONSTANTS
    Orders,
    Skus,
    SkuOf,      \* SkuOf[o]: what order o is for
    Drafted,    \* the quantity every order is drafted with
    Approvable, \* the quantities orders are approved at, that one among them
    Lead,       \* days from approval to delivery, of the first supplier
    Window,     \* days before and after the delivery, 14
    MaxDay,     \* bound: the last day
    MaxAborts,  \* bound: evaluations that something from outside cuts short
    Job,        \* the evaluation of the scheduler ...
    Request,    \* ... and of the endpoint
    None

ASSUME OutcomesAssumption ==
    /\ IsFiniteSet(Orders)
    /\ SkuOf \in [Orders -> Skus]
    /\ Approvable \subseteq Nat \ {0}
    /\ Drafted \in Approvable
    /\ Lead \in Nat \ {0} /\ Window \in Nat \ {0}
    /\ MaxDay \in Nat /\ MaxAborts \in Nat
    /\ Job # Request
    /\ \A some \in SUBSET Orders : some # None

VARIABLES
    today,
    sold,      \* the sales_history rows: SKUs and days
    order,     \* the purchase_orders rows
    outcomes,  \* the po_outcomes rows of every order: whether it avoided a stockout
    left,      \* left[e]: the orders evaluation e has still to look at, None if it is not under way
    held,      \* held[e]: the outcome it is about to store
    aborts,    \* how many evaluations were cut short
    raced      \* history: orders whose outcome was stored while both evaluations had one

shop == <<today, sold>>
evaluation == <<left, held>>
vars == <<shop, order, outcomes, evaluation, aborts, raced>>

Evaluations == {Job, Request}

\* The state is of its type; an evaluation that holds an outcome is under way, and no
\* order has more outcomes than there are evaluations.
TypeOK ==
    /\ today \in 0..MaxDay
    /\ sold \subseteq Skus \X (0..today)
    /\ order \in [Orders -> [status: {"pending", "approved", "rejected"},
                             quantity: Approvable,
                             approved: 0..today]]
    /\ outcomes \in [Orders -> Seq(BOOLEAN)]
    /\ left \in [Evaluations -> (SUBSET Orders) \cup {None}]
    /\ held \in [Evaluations -> [order: Orders, avoided: BOOLEAN] \cup {None}]
    /\ aborts \in 0..MaxAborts
    /\ raced \subseteq Orders
    /\ \A e \in Evaluations : left[e] = None => held[e] = None
    /\ \A o \in Orders :
          /\ Len(outcomes[o]) <= Cardinality(Evaluations)
          /\ outcomes[o] # << >> => order[o].status = "approved"

Init ==
    /\ today = 0
    /\ sold = {}
    /\ order = [o \in Orders |->
           [status |-> "pending", quantity |-> Drafted, approved |-> 0]]
    /\ outcomes = [o \in Orders |-> << >>]
    /\ left = [e \in Evaluations |-> None]
    /\ held = [e \in Evaluations |-> None]
    /\ aborts = 0
    /\ raced = {}

-----------------------------------------------------------------------------
(* The shop.                                                               *)

NextDay ==
    /\ today < MaxDay
    /\ today' = today + 1
    /\ UNCHANGED <<sold, order, outcomes, evaluation, aborts, raced>>

\* Today's row appears, in whatever way.
Sell(s) ==
    /\ <<s, today>> \notin sold
    /\ sold' = sold \cup {<<s, today>>}
    /\ UNCHANGED <<today, order, outcomes, evaluation, aborts, raced>>

-----------------------------------------------------------------------------
(* People decide.  The module PurchaseOrders shows how.                    *)

Pending(o) == order[o].status = "pending"

Approve(o, q) ==
    /\ Pending(o)
    /\ today + Lead <= MaxDay
    /\ order' = [order EXCEPT ![o] = [status |-> "approved", quantity |-> q, approved |-> today]]
    /\ UNCHANGED <<shop, outcomes, evaluation, aborts, raced>>

Reject(o) ==
    /\ Pending(o)
    /\ order' = [order EXCEPT ![o].status = "rejected"]
    /\ UNCHANGED <<shop, outcomes, evaluation, aborts, raced>>

-----------------------------------------------------------------------------
(* evaluate_pending_outcomes.                                              *)

Delivery(o) == order[o].approved + Lead
Due(o) == Delivery(o) <= today

DaysSold(o, days) == {d \in days : <<SkuOf[o], d>> \in sold}
Before(o) == DaysSold(o, (Delivery(o) - Window)..(Delivery(o) - 1))
After(o) == DaysSold(o, Delivery(o)..(Delivery(o) + Window))

\* AVG(units_sold) arrives as a Decimal, and the daily demand after the delivery is a
\* float unless nothing was sold: the two cannot be subtracted.
Comparable(o) == Before(o) = {} \/ After(o) = {}

\* A stockout was to come if more had been sold before the delivery than is on hand, and
\* did not come if anything is.
Avoided(o) == {b \in BOOLEAN : b => Before(o) # {}}

\* The orders approved more than a day ago.
Begin(e) ==
    /\ left[e] = None
    /\ left' = [left EXCEPT ![e] =
           {o \in Orders : order[o].status = "approved" /\ order[o].approved < today}]
    /\ UNCHANGED <<shop, order, outcomes, held, aborts, raced>>

Over(e) == left' = [left EXCEPT ![e] = None] /\ held' = [held EXCEPT ![e] = None]

\* The query returned the orders in no particular order.
Take(e, o) ==
    /\ left[e] # None
    /\ held[e] = None
    /\ o \in left[e]
    /\ left' = [left EXCEPT ![e] = @ \ {o}]
    /\ UNCHANGED <<shop, order, outcomes, aborts, raced>>

\* Mutant: an order that is not due ends the evaluation.
PassAndStop(e, o) ==
    /\ left[e] # None /\ held[e] = None /\ o \in left[e]
    /\ Len(outcomes[o]) = 1 \/ (outcomes[o] = << >> /\ ~ Due(o))
    /\ Over(e)
    /\ UNCHANGED <<shop, order, outcomes, aborts, raced>>

\* It has an outcome, or is not due.
Pass(e, o) ==
    /\ Take(e, o)
    /\ Len(outcomes[o]) = 1 \/ (outcomes[o] = << >> /\ ~ Due(o))
    /\ UNCHANGED held

\* Mutant: nobody asks whether there is an outcome.
EvaluateAgain(e, o) ==
    /\ Take(e, o)
    /\ Due(o) /\ Comparable(o)
    /\ \E b \in Avoided(o) : held' = [held EXCEPT ![e] = [order |-> o, avoided |-> b]]

Evaluate(e, o) ==
    /\ Take(e, o)
    /\ outcomes[o] = << >> /\ Due(o) /\ Comparable(o)
    /\ \E b \in Avoided(o) : held' = [held EXCEPT ![e] = [order |-> o, avoided |-> b]]

\* scalar_one_or_none found two, or the subtraction raised a TypeError.
Stuck(o) ==
    /\ order[o].status = "approved"
    /\ \/ Len(outcomes[o]) > 1
       \/ outcomes[o] = << >> /\ Due(o) /\ ~ Comparable(o)

\* Nothing catches it: the orders that are left have to wait for the next evaluation.
Raise(e, o) ==
    /\ left[e] # None /\ held[e] = None /\ o \in left[e]
    /\ Stuck(o)
    /\ Over(e)
    /\ UNCHANGED <<shop, order, outcomes, aborts, raced>>

\* Every order is committed by itself.  No constraint keeps a second outcome out.
Record(e) ==
    /\ held[e] # None
    /\ LET o == held[e].order
       IN  /\ outcomes' = [outcomes EXCEPT ![o] = Append(@, held[e].avoided)]
           /\ raced' = raced \cup
                  {p \in {o} : \E f \in Evaluations \ {e} : held[f] # None /\ held[f].order = o}
    /\ held' = [held EXCEPT ![e] = None]
    /\ UNCHANGED <<shop, order, left, aborts>>

End(e) ==
    /\ left[e] = {} /\ held[e] = None
    /\ Over(e)
    /\ UNCHANGED <<shop, order, outcomes, aborts, raced>>

\* The database fails, the request is given up or the process restarts.
Abort(e) ==
    /\ left[e] # None
    /\ aborts < MaxAborts
    /\ aborts' = aborts + 1
    /\ Over(e)
    /\ UNCHANGED <<shop, order, outcomes, raced>>

Work(e) ==
    \/ Begin(e) \/ Record(e) \/ End(e)
    \/ \E o \in Orders : Pass(e, o) \/ Evaluate(e, o) \/ Raise(e, o)

Next ==
    \/ NextDay
    \/ \E s \in Skus : Sell(s)
    \/ \E o \in Orders : Reject(o) \/ \E q \in Approvable : Approve(o, q)
    \/ \E e \in Evaluations : Work(e) \/ Abort(e)

Spec == Init /\ [][Next]_vars

\* Days pass, and the job runs every day to its end.
Fairness == WF_vars(NextDay) /\ WF_vars(Work(Job))

FairSpec == Spec /\ Fairness

-----------------------------------------------------------------------------
(* What agent/roi.py adds up.                                              *)

\* calculate_stockouts_avoided joins the outcomes to their orders.
UnitsAvoided(o) ==
    order[o].quantity * Cardinality({i \in 1..Len(outcomes[o]) : outcomes[o][i]})

\* The excess_reduction of calculate_po_decisioning: what an approval trimmed, and all
\* of what was rejected.
Excess(o) ==
    CASE order[o].status = "approved" -> Max({Drafted - order[o].quantity, 0})
      [] order[o].status = "rejected" -> order[o].quantity
      [] OTHER -> 0

-----------------------------------------------------------------------------
(* Properties.                                                             *)

\* A unit is worth something once, as sold or as not bought.  Where both evaluations
\* measured an order at the same time, its units are sold twice, and never more often
\* (calculate_stockouts_avoided, calculate_po_decisioning).
ValuedOnce ==
    \A o \in Orders :
        UnitsAvoided(o) + Excess(o) <=
            Max({Drafted, order[o].quantity}) + (IF o \in raced THEN order[o].quantity ELSE 0)

\* An approved order is evaluated, unless there is an order at which every evaluation
\* breaks off (evaluate_pending_outcomes).
EvaluatedUnlessStuck ==
    \A o \in Orders :
        order[o].status = "approved" ~>
            outcomes[o] # << >> \/ \E p \in Orders : Stuck(p)

\* README.md:152 says "tracks approved POs against actual sales to measure forecast
\* error".  So every approved order is evaluated in the end.
EveryOrderIsEvaluated ==
    \A o \in Orders : order[o].status = "approved" ~> outcomes[o] # << >>
=============================================================================
