------------------------------- MODULE PoDraft -------------------------------
(***************************************************************************)
(* Pipeline runs that draft purchase orders: sync, forecast, risk,         *)
(* po_draft and notify_pending, the nodes of agent/graph.py.  Runs are     *)
(* started directly (POST /run-sync) or by the one worker of the task      *)
(* queue (POST /run-sync-async), and share the database, in which people   *)
(* approve and reject meanwhile what was drafted.                          *)
(*                                                                         *)
(* The graph gives up control at every database query.  Each query of      *)
(* po_draft is a step here; the nodes before it read and write nothing     *)
(* that a run does to the others, so they are one step.                    *)
(***************************************************************************)
EXTENDS Planning, FiniteSets

CONSTANTS
    Skus,
    Runs,      \* pipeline runs
    Queued,    \* the runs that wait for the worker of the task queue
    Stocks,    \* stock levels a SKU may have
    Demands,   \* [predicted, p90] pairs of exact demands a forecast may find
    LeadTime,  \* lead time of the supplier, in days
    Moq,       \* Moq[s]: fewest units of s the supplier sells
    Edits,     \* quantities people enter when they approve an order
    Window,    \* age at which a pending order no longer counts as recent: an hour
    Transit,   \* time an approved order counts as in transit: fourteen days
    MaxClock   \* bound: how long the model runs

ASSUME PoDraftAssumption ==
    /\ Queued \subseteq Runs
    /\ IsFiniteSet(Runs)
    /\ Stocks \subseteq Int
    /\ Demands \subseteq [predicted: Int, p90: Int \cup {None}]
    /\ LeadTime \in Nat \ {0}
    /\ Moq \in [Skus -> Nat \ {0}]
    /\ Edits \subseteq Nat
    /\ Window \in Nat
    /\ Transit \in Nat
    /\ Window < Transit
    /\ MaxClock \in Nat
    /\ None \notin Int
    /\ None \notin Demands

VARIABLES
    clock,        \* now, in units of which Window and Transit are multiples
    status,       \* status[r][s]: the order run r drafted for s, if any
    quantity,     \* quantity[r][s] of that order
    created_at,   \* created_at[r][s] of that order
    approved_at,  \* approved_at[r][s] of that order
    drafted,      \* history: the units of that order its run asked for, as far as its
                  \* approval has left them
    pc,           \* pc[r]: where run r is
    skus,         \* skus[r][s]: the stock sync_node read
    forecasts,    \* forecasts[r][s]: the demand forecast_node found, if any
    risk_alerts,  \* risk_alerts[r]: the SKUs risk_node found at risk
    cutoff,       \* cutoff[r]: orders created before it are not recent
    existing,     \* existing[r]: the recent pending orders po_draft read, as rows
    on_order,     \* on_order[r][s]: the units po_draft counted as on order
    began,        \* began[r]: when the inserting transaction began
    already,      \* already[r]: SKUs with a recent pending order at the second look
    met,          \* history: the runs that were drafting together with r
    tied          \* history: the runs about to insert when r took the second look

orders == <<status, quantity, created_at, approved_at, drafted>>
plan == <<skus, forecasts, risk_alerts, cutoff, existing, on_order, began, already>>
vars == <<clock, orders, pc, plan, met, tied>>

Rows == Runs \X Skus
OrderStatus == {"none", "pending_approval", "approved", "rejected"}

\* The places of a run.  It ends without an alert, is paused after notify_pending
\* to be resumed, or is dead: it overran its 120 seconds or its process went away.
Drafting == {"on_order", "recheck", "insert"}
Active == {"existing"} \cup Drafting
Over == {"ended", "paused", "dead"}

\* The state is of its type, and a run drafts no order of nothing.
TypeOK ==
    /\ clock \in 0..MaxClock
    /\ status \in [Runs -> [Skus -> OrderStatus]]
    /\ quantity \in [Runs -> [Skus -> Nat]]
    /\ drafted \in [Runs -> [Skus -> Nat]]
    /\ \A r \in Runs, s \in Skus :
          /\ drafted[r][s] <= quantity[r][s]
          /\ status[r][s] = "pending_approval" => quantity[r][s] > 0
    /\ created_at \in [Runs -> [Skus -> 0..MaxClock]]
    /\ approved_at \in [Runs -> [Skus -> 0..MaxClock]]
    /\ pc \in [Runs -> {"idle"} \cup Active \cup Over]
    /\ skus \in [Runs -> [Skus -> Stocks \cup {None}]]
    /\ forecasts \in [Runs -> [Skus -> Demands \cup {None}]]
    /\ risk_alerts \in [Runs -> SUBSET Skus]
    /\ cutoff \in [Runs -> Int]
    /\ existing \in [Runs -> SUBSET Rows]
    /\ on_order \in [Runs -> [Skus -> Nat]]
    /\ began \in [Runs -> 0..MaxClock]
    /\ already \in [Runs -> SUBSET Skus]
    /\ met \in [Runs -> SUBSET Runs]
    /\ tied \in [Runs -> SUBSET Runs]

Init ==
    /\ clock = 0
    /\ status = [r \in Runs |-> [s \in Skus |-> "none"]]
    /\ quantity = [r \in Runs |-> [s \in Skus |-> 0]]
    /\ created_at = [r \in Runs |-> [s \in Skus |-> 0]]
    /\ approved_at = [r \in Runs |-> [s \in Skus |-> 0]]
    /\ drafted = [r \in Runs |-> [s \in Skus |-> 0]]
    /\ pc = [r \in Runs |-> "idle"]
    /\ skus = [r \in Runs |-> [s \in Skus |-> None]]
    /\ forecasts = [r \in Runs |-> [s \in Skus |-> None]]
    /\ risk_alerts = [r \in Runs |-> {}]
    /\ cutoff = [r \in Runs |-> 0]
    /\ existing = [r \in Runs |-> {}]
    /\ on_order = [r \in Runs |-> [s \in Skus |-> 0]]
    /\ began = [r \in Runs |-> 0]
    /\ already = [r \in Runs |-> {}]
    /\ met = [r \in Runs |-> {}]
    /\ tied = [r \in Runs |-> {}]

-----------------------------------------------------------------------------
(* What the queries return.                                                *)

\* The orders for SKU s that are pending and were created since a given time.
Recent(s, since) ==
    {r \in Runs : status[r][s] = "pending_approval" /\ created_at[r][s] >= since}

\* The orders for s whose units are on order: pending, however old, or in transit.
Open(s) ==
    {r \in Runs : \/ status[r][s] = "pending_approval"
                  \/ status[r][s] = "approved" /\ approved_at[r][s] >= clock - Transit}

\* The sum of the amounts of s in the orders of a set of runs, unit by unit.
UnitsOf(rs, s, amount) == Cardinality(UNION {{r} \X (1 .. amount[r][s]) : r \in rs})

UnitsOnOrder(s) == UnitsOf(Open(s), s, quantity)

\* The risk of a SKU of which there are some units, at a forecast demand.
RiskOf(units, d) ==
    RiskLevel(DaysOfCover(units, d.predicted), LeadTime, DaysOfCover(units, d.p90))

\* The SKUs left out after the first look at the recent orders.
Existing(r) == {row[2] : row \in existing[r]}

\* The demand run r plans for.
DemandOf(r, s) ==
    PlanningDailyDemand(Rounded(forecasts[r][s].predicted), Rounded(forecasts[r][s].p90))

\* What run r orders of s, given what it has read and the units on order.
QuantityOf(r, s, units) ==
    ReorderQuantity(DemandOf(r, s), skus[r][s], LeadTime, Moq[s], units[s])

\* Mutant: an order of nothing is drafted too.
BatchOfNothing(r, units) == risk_alerts[r] \ Existing(r)

\* The SKUs of pending_batch.
Batch(r, units) == {s \in risk_alerts[r] \ Existing(r) : QuantityOf(r, s, units) > 0}

\* Rows a run has locked, from the query that selects them to the end of its session.
Locked(row) == \E r \in Runs : pc[r] = "on_order" /\ row \in existing[r]

Move(r, from, to) == pc[r] = from /\ pc' = [pc EXCEPT ![r] = to]

-----------------------------------------------------------------------------
(* The nodes of a run.                                                     *)

\* The queue's worker runs one graph at a time; direct runs start at once.
WorkerFree == \A r \in Queued : pc[r] \notin Active

\* risk_node raises an alert for the SKUs at risk; without any the run ends.
Raise(r, snapshot, fs, alerts) ==
    \/ /\ alerts = {}
       /\ pc' = [pc EXCEPT ![r] = "ended"]
       /\ UNCHANGED <<skus, forecasts, risk_alerts>>
    \/ /\ alerts # {}
       /\ pc' = [pc EXCEPT ![r] = "existing"]
       /\ skus' = [skus EXCEPT ![r] = snapshot]
       /\ forecasts' = [forecasts EXCEPT ![r] = fs]
       /\ risk_alerts' = [risk_alerts EXCEPT ![r] = alerts]

\* sync_node copies the stock, which changes all the time.  forecast_node has no
\* answer for a SKU in time, or a demand and how long a stock lasts at it: the stock
\* just read or, when the forecast comes from the cache, one another run has read.
Assess(r) ==
    /\ pc[r] = "idle"
    /\ r \in Queued => WorkerFree
    /\ \E snapshot \in [Skus -> Stocks], fs \in [Skus -> Demands \cup {None}],
          covered \in [Skus -> Stocks] :
        Raise(r, snapshot, fs,
              {s \in Skus : fs[s] # None /\ RiskOf(covered[s], fs[s]) # "safe"})
    /\ UNCHANGED <<clock, orders, cutoff, existing, on_order, began, already, met, tied>>

\* po_draft_node looks for recent pending orders of the alerted SKUs and locks them.
ReadExisting(r) ==
    LET since == clock - Window
        rows == {row \in Runs \X risk_alerts[r] : row[1] \in Recent(row[2], since)}
        others == {q \in Runs \ {r} : pc[q] \in Drafting}
    IN
    /\ Move(r, "existing", "on_order")
    /\ \A row \in rows : ~Locked(row)
    /\ cutoff' = [cutoff EXCEPT ![r] = since]
    /\ existing' = [existing EXCEPT ![r] = rows]
    /\ met' = [q \in Runs |-> IF q = r THEN others
                              ELSE IF q \in others THEN met[q] \cup {r} ELSE met[q]]
    /\ UNCHANGED <<clock, orders, skus, forecasts, risk_alerts, on_order, began,
                   already, tied>>

\* Mutant: only recent pending orders are summed.
ReadOnOrderRecent(r) ==
    LET units == [s \in Skus |-> IF s \in risk_alerts[r]
                    THEN UnitsOf(Recent(s, cutoff[r]), s, quantity)
                    ELSE 0]
    IN
    /\ Move(r, "on_order", IF Batch(r, units) = {} THEN "paused" ELSE "recheck")
    /\ on_order' = [on_order EXCEPT ![r] = units]
    /\ UNCHANGED <<clock, orders, skus, forecasts, risk_alerts, cutoff, existing,
                   began, already, met, tied>>

\* It sums the units on order and ends its session, and with it the locks.  What
\* it orders is fixed now; the reasoning text takes a call to a language model.
ReadOnOrder(r) ==
    LET units == [s \in Skus |-> IF s \in risk_alerts[r] THEN UnitsOnOrder(s) ELSE 0] IN
    /\ Move(r, "on_order", IF Batch(r, units) = {} THEN "paused" ELSE "recheck")
    /\ on_order' = [on_order EXCEPT ![r] = units]
    /\ UNCHANGED <<clock, orders, skus, forecasts, risk_alerts, cutoff, existing,
                   began, already, met, tied>>

\* A second look, without a lock, in the transaction that will insert the orders.
Recheck(r) ==
    /\ Move(r, "recheck", "insert")
    /\ began' = [began EXCEPT ![r] = clock]
    /\ already' = [already EXCEPT ![r] =
                      {s \in Batch(r, on_order[r]) : Recent(s, cutoff[r]) # {}}]
    /\ tied' = [tied EXCEPT ![r] = {q \in Runs : pc[q] = "insert"}]
    /\ UNCHANGED <<clock, orders, skus, forecasts, risk_alerts, cutoff, existing,
                   on_order, met>>

\* Mutant: the outcome of the second look is ignored.
InsertAll(r) ==
    /\ Move(r, "insert", "paused")
    /\ status' = [status EXCEPT ![r] = [s \in Skus |->
                     IF s \in Batch(r, on_order[r]) THEN "pending_approval" ELSE @[s]]]
    /\ quantity' = [quantity EXCEPT ![r] = [s \in Skus |->
                       IF s \in Batch(r, on_order[r]) THEN QuantityOf(r, s, on_order[r]) ELSE @[s]]]
    /\ drafted' = [drafted EXCEPT ![r] = [s \in Skus |->
                      IF s \in Batch(r, on_order[r]) THEN QuantityOf(r, s, on_order[r]) ELSE @[s]]]
    /\ created_at' = [created_at EXCEPT ![r] = [s \in Skus |->
                         IF s \in Batch(r, on_order[r]) THEN began[r] ELSE @[s]]]
    /\ UNCHANGED <<clock, approved_at, plan, met, tied>>

\* All orders of the run are inserted together, dated when the transaction began.
\* notify_pending_node announces them and the graph stops for approval.
Insert(r) ==
    LET new == Batch(r, on_order[r]) \ already[r] IN
    /\ Move(r, "insert", "paused")
    /\ status' = [status EXCEPT ![r] = [s \in Skus |->
                     IF s \in new THEN "pending_approval" ELSE @[s]]]
    /\ quantity' = [quantity EXCEPT ![r] = [s \in Skus |->
                       IF s \in new THEN QuantityOf(r, s, on_order[r]) ELSE @[s]]]
    /\ drafted' = [drafted EXCEPT ![r] = [s \in Skus |->
                      IF s \in new THEN QuantityOf(r, s, on_order[r]) ELSE @[s]]]
    /\ created_at' = [created_at EXCEPT ![r] = [s \in Skus |->
                         IF s \in new THEN began[r] ELSE @[s]]]
    /\ UNCHANGED <<clock, approved_at, plan, met, tied>>

\* The run overruns its 120 seconds, raises, or its process goes away.
GiveUp(r) ==
    /\ \E from \in Active : Move(r, from, "dead")
    /\ UNCHANGED <<clock, orders, plan, met, tied>>

-----------------------------------------------------------------------------
(* The surroundings.                                                       *)

\* The order becomes one for the quantity that is entered, if one is.
Approve(r, s) ==
    /\ status[r][s] = "pending_approval" /\ ~Locked(<<r, s>>)
    /\ status' = [status EXCEPT ![r][s] = "approved"]
    /\ approved_at' = [approved_at EXCEPT ![r][s] = clock]
    /\ \E q \in Edits \cup {quantity[r][s]} :
          /\ quantity' = [quantity EXCEPT ![r][s] = q]
          /\ drafted' = [drafted EXCEPT ![r][s] = IF q < @ THEN q ELSE @]
    /\ UNCHANGED <<clock, created_at, pc, plan, met, tied>>

Reject(r, s) ==
    /\ status[r][s] = "pending_approval" /\ ~Locked(<<r, s>>)
    /\ status' = [status EXCEPT ![r][s] = "rejected"]
    /\ UNCHANGED <<clock, quantity, created_at, approved_at, drafted, pc, plan,
                   met, tied>>

\* Time passes.  A run is over in 120 seconds, so at most one tick falls into it.
Tick ==
    /\ clock < MaxClock
    /\ \A r \in Runs : pc[r] \in Drafting => clock = cutoff[r] + Window
    /\ clock' = clock + 1
    /\ UNCHANGED <<orders, pc, plan, met, tied>>

Run(r) ==
    \/ ReadExisting(r) \/ ReadOnOrder(r)
    \/ Recheck(r) \/ Insert(r)

Next ==
    \/ \E r \in Runs : Assess(r) \/ Run(r) \/ GiveUp(r)
    \/ \E r \in Runs, s \in Skus : Approve(r, s) \/ Reject(r, s)
    \/ Tick

Spec == Init /\ [][Next]_vars

-----------------------------------------------------------------------------
(* Properties.                                                             *)

Pending(r, s) == status[r][s] = "pending_approval"

\* Two recent pending orders for one SKU can only come from two runs of which each
\* took its second look before the other's orders were committed.
NoDuplicateUnlessTied ==
    \A r, q \in Runs, s \in Skus :
        /\ r # q
        /\ Pending(r, s) /\ Pending(q, s)
        /\ created_at[r][s] \in created_at[q][s] .. created_at[q][s] + Window
        => r \in tied[q] \/ q \in tied[r]

\* Runs of the task queue never compete: none of them is tied with another.
QueueSerialises == \A r, q \in Queued : r # q => q \notin met[r] /\ q \notin tied[r]

\* The units on order for a SKU, without those people added to an order they approved.
UnitsDrafted(s) == UnitsOf(Open(s), s, drafted)

\* However often the pipeline runs, and whatever people make of its orders, the units
\* on order for a SKU that runs asked for are no more than some run that ordered it
\* found missing, or the least the supplier sells: unless two runs that ordered it
\* were drafting together (po_draft_node).
NoOverOrder ==
    \A s \in Skus :
        LET drafters == {r \in Runs : status[r][s] # "none"} IN
        \/ Open(s) = {}
        \/ \E r, q \in drafters : q \in met[r]
        \/ \E r \in drafters :
              100 * (skus[r][s] + UnitsDrafted(s) - Moq[s]) < Target(DemandOf(r, s), LeadTime)

\* A run that reaches its notification leaves no SKU without an order that is critical
\* at the stock it read, provided it raised an alert for it and its rounding leaves the
\* demand large enough: units are on order, an order is recent, or the run has made
\* one (risk_node, po_draft_node).
CriticalIsOrdered ==
    \A r \in Runs : pc[r] = "paused" =>
        \A s \in risk_alerts[r] :
            LET f == forecasts[r][s] IN
            /\ RiskOf(skus[r][s], f) = "critical"
            /\ SurvivesRounding(PlanningDailyDemand(f.predicted, f.p90), LeadTime)
            => \/ status[r][s] # "none"
               \/ on_order[r][s] > 0
               \/ s \in Existing(r) \cup already[r]
=============================================================================
