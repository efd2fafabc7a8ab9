----------------------------- MODULE SalesSync -----------------------------
(***************************************************************************)
(* How Shopify's catalog and orders reach the database: sync_node, the     *)
(* first node of every pipeline run, reads them page by page               *)
(* (agent/shopify_sync.py), and three kinds of webhooks write what has     *)
(* changed since.  A run is a task of the queue or a request of its own.   *)
(*                                                                         *)
(* Stock is a version, which grows whenever Shopify changes it; zero is no *)
(* row at all.  The units a day has sold are abstracted to how often each  *)
(* order was added to them: never, once or more often.                     *)
(*                                                                         *)
(* The queries leave things out: the variants and the lines of an order    *)
(* beyond the fiftieth, and the orders of before the days asked for.  An   *)
(* order here is a line of one, which sells one SKU.                       *)
(***************************************************************************)
EXTENDS TaskQueue

CONSTANTS
    Skus,
    Orders,
    SkuOf,       \* SkuOf[o]: what order o sells
    Catalog,     \* the pages of Shopify's products: the SKUs among the first 50
                 \* variants of each product, the only ones PRODUCTS_QUERY asks for
    Cut,         \* orders that are not among the first 50 lines, which ORDERS_QUERY asks for
    Earlier,     \* orders placed, and announced, before the model begins
    PageSize,    \* orders on a page of Shopify's orders
    Runs,        \* runs of the pipeline; those in Tasks are queued
    Scoped,      \* runs of a merchant; the others are the demo key's
    Owned,       \* rows that carry that merchant, which only migration 004 has set
    MaxEvents    \* bound: changes of a stock, orders, orders grown old and restarts

ASSUME SalesSyncAssumption ==
    /\ SkuOf \in [Orders -> Skus]
    /\ Catalog \in Seq(SUBSET Skus)
    /\ Catalog # << >>
    /\ Cut \subseteq Orders
    /\ Earlier \in Seq(Orders)
    /\ PageSize \in Nat \ {0}
    /\ Tasks \subseteq Runs
    /\ Scoped \subseteq Runs
    /\ Owned \subseteq Skus
    /\ MaxEvents \in Nat

VARIABLES
    version,  \* Shopify: the stock of every SKU
    placed,   \* Shopify: the orders, by the time they were created
    aged,     \* how many of them, the first ones, are older than settings.sync_days
    news,     \* orders whose orders_create is still to come
    updates,  \* products_update on their way: the SKU and the stock they carry
    levels,   \* SKUs whose inventory_levels_update is still to come
    stock,    \* the skus rows: stock[s], zero if there is none
    counted,  \* the sales_history rows: how often they contain order o
    item,     \* item[s]: what sync_single_variant has fetched and not yet written
    pc,       \* pc[r]: where run r is
    page,     \* page[r]: the page of products, or the order, it has come to
    held,     \* held[r]: the page it has fetched and not yet written
    listed,   \* listed[r]: the SKUs sync_node passes on, with their stock
    began,    \* history: what Shopify had when r began
    crossed,  \* history: SKUs for which others wrote what is older than that
    happened

shopify == <<version, placed, aged>>
deliveries == <<news, updates, levels>>
database == <<stock, counted>>
run == <<pc, page, held, listed, began>>
vars == <<taskQueue, shopify, deliveries, database, item, run, crossed, happened>>

Working ==
    {"fetch_products", "write_products", "fetch_orders", "write_orders", "list", "rest"}

Stocks == [Skus -> 0..(MaxEvents + 1)]
Often == 2
Again(n) == IF n = Often THEN n ELSE n + 1

Nothing == [s \in Skus |-> 0]
NoPage == [stock |-> Nothing, orders |-> {}, more |-> FALSE]
NotBegun == [version |-> Nothing, orders |-> {}]

\* The state is of its type; the worker's task is the one queued run at work.
TypeOK ==
    /\ QueueTypeOK
    /\ version \in Stocks /\ stock \in Stocks /\ item \in Stocks
    /\ placed \in Seq(Orders) /\ aged \in 0..Len(placed)
    /\ news \subseteq Orders /\ levels \subseteq Skus
    /\ updates \subseteq Skus \X (1..(MaxEvents + 1))
    /\ counted \in [Orders -> 0..Often]
    /\ pc \in [Runs -> {"idle", "over"} \cup Working]
    /\ page \in [Runs -> Nat \ {0}]
    /\ held \in [Runs -> [stock: Stocks, orders: SUBSET Orders, more: BOOLEAN]]
    /\ listed \in [Runs -> Stocks]
    /\ began \in [Runs -> [version: Stocks, orders: SUBSET Orders]]
    /\ crossed \in [Runs -> SUBSET Skus]
    /\ happened \in 0..MaxEvents
    /\ \A t \in Tasks : pc[t] \in Working <=> current = t

\* The rows migration 004 found are there; the other products have not been read yet.
Init ==
    /\ QueueInit
    /\ version = [s \in Skus |-> 1]
    /\ stock = [s \in Skus |-> IF s \in Owned THEN 1 ELSE 0]
    /\ placed = Earlier /\ aged = 0
    /\ news = {} /\ updates = {} /\ levels = {}
    /\ counted = [o \in Orders |-> 0]
    /\ item = Nothing
    /\ pc = [r \in Runs |-> "idle"]
    /\ page = [r \in Runs |-> 1]
    /\ held = [r \in Runs |-> NoPage]
    /\ listed = [r \in Runs |-> Nothing]
    /\ began = [r \in Runs |-> NotBegun]
    /\ crossed = [r \in Runs |-> {}]
    /\ happened = 0

-----------------------------------------------------------------------------
(* Shopify.                                                                *)

Happen == happened < MaxEvents /\ happened' = happened + 1

\* The stock of a product changes.  Shopify says so twice.
ChangeStock(s) ==
    /\ Happen
    /\ version' = [version EXCEPT ![s] = @ + 1]
    /\ updates' = updates \cup {<<s, version[s] + 1>>}
    /\ levels' = levels \cup {s}
    /\ UNCHANGED <<taskQueue, placed, aged, news, database, item, run, crossed>>

PlaceOrder(o) ==
    /\ Happen
    /\ o \notin ToSet(placed)
    /\ placed' = Append(placed, o)
    /\ news' = news \cup {o}
    /\ UNCHANGED <<taskQueue, version, aged, updates, levels, database, item, run, crossed>>

\* Days pass: more of the orders are too old to be asked for.
Age ==
    /\ Happen
    /\ aged' \in aged + 1..Len(placed)
    /\ UNCHANGED <<taskQueue, version, placed, deliveries, database, item, run, crossed>>

-----------------------------------------------------------------------------
(* Writing to the database.                                                *)

\* Mutant: a row that is there stays as it is.
UpsertNew(stocks) ==
    stock' = [s \in Skus |-> IF stocks[s] > 0 /\ stock[s] = 0 THEN stocks[s] ELSE stock[s]]

\* The rows of these SKUs are inserted or overwritten.
Upsert(stocks) ==
    stock' = [s \in Skus |-> IF stocks[s] > 0 THEN stocks[s] ELSE stock[s]]

\* Who has begun is overtaken by what is older than when it began.
Cross(stocks) ==
    crossed' = [r \in Runs |->
        IF pc[r] \in Working
        THEN crossed[r] \cup {s \in Skus : 0 < stocks[s] /\ stocks[s] < began[r].version[s]}
        ELSE crossed[r]]

\* Orders are added to what their day has sold, if their SKU is known.
Count(orders) ==
    counted' = [o \in Orders |->
        IF o \in orders /\ stock[SkuOf[o]] > 0 THEN Again(counted[o]) ELSE counted[o]]

-----------------------------------------------------------------------------
(* Webhooks, in any order and any time after what they are about.          *)

\* handle_order_create
HandleOrderCreate(o) ==
    /\ o \in news
    /\ news' = news \ {o}
    /\ Count({o})
    /\ UNCHANGED <<taskQueue, shopify, updates, levels, stock, item, run, crossed, happened>>

Only(s, v) == [x \in Skus |-> IF x = s THEN v ELSE 0]

\* handle_product_update writes the stock the event carries, however old that is.
HandleProductUpdate(s, v) ==
    /\ <<s, v>> \in updates
    /\ updates' = updates \ {<<s, v>>}
    /\ Upsert(Only(s, v))
    /\ Cross(Only(s, v))
    /\ UNCHANGED <<taskQueue, shopify, news, levels, counted, item, run, happened>>

\* handle_inventory_update asks Shopify for the stock ...
FetchVariant(s) ==
    /\ s \in levels /\ item[s] = 0
    /\ levels' = levels \ {s}
    /\ item' = [item EXCEPT ![s] = version[s]]
    /\ UNCHANGED <<taskQueue, shopify, news, updates, database, run, crossed, happened>>

\* ... and writes it when it has the answer.
WriteVariant(s) ==
    /\ item[s] > 0
    /\ item' = [item EXCEPT ![s] = 0]
    /\ Upsert(Only(s, item[s]))
    /\ Cross(Only(s, item[s]))
    /\ UNCHANGED <<taskQueue, shopify, deliveries, counted, run, happened>>

-----------------------------------------------------------------------------
(* A run: sync_node, and the nodes after it.                               *)

Started(r) ==
    /\ pc[r] = "idle"
    /\ pc' = [pc EXCEPT ![r] = "fetch_products"]
    /\ began' = [began EXCEPT ![r] = [version |-> version, orders |-> ToSet(placed)]]
    /\ UNCHANGED <<shopify, deliveries, database, item, page, held, listed, crossed, happened>>

\* POST /run-sync
StartDirect(r) ==
    /\ r \in Runs \ Tasks
    /\ Started(r)
    /\ UNCHANGED taskQueue

StartQueued == Begin /\ Started(Head(queue))

FetchProducts(r) ==
    /\ pc[r] = "fetch_products"
    /\ pc' = [pc EXCEPT ![r] = "write_products"]
    /\ held' = [held EXCEPT ![r] =
           [stock |-> [s \in Skus |-> IF s \in Catalog[page[r]] THEN version[s] ELSE 0],
            orders |-> {},
            more |-> page[r] < Len(Catalog)]]
    /\ UNCHANGED <<taskQueue, shopify, deliveries, database, item, page, listed, began, crossed, happened>>

\* The page is written, and the next one, or the first of what comes next, is due.
Turn(r, from, again, step, next, first) ==
    /\ pc[r] = from
    /\ pc' = [pc EXCEPT ![r] = IF held[r].more THEN again ELSE next]
    /\ page' = [page EXCEPT ![r] = IF held[r].more THEN @ + step ELSE first]
    /\ held' = [held EXCEPT ![r] = NoPage]

\* After the last page the orders are due, from the oldest of the days asked for: which
\* days these are is settled now.
WriteProducts(r) ==
    /\ Turn(r, "write_products", "fetch_products", 1, "fetch_orders", aged + 1)
    /\ Upsert(held[r].stock)
    /\ Cross(held[r].stock)
    /\ UNCHANGED <<taskQueue, shopify, deliveries, counted, item, listed, began, happened>>

\* Mutant: a page that is followed by just one order is taken for the last.
MoreThan(last) == Len(placed) > last + 1

More(last) == Len(placed) > last

FetchOrders(r) ==
    LET last == page[r] + PageSize - 1
    IN  /\ pc[r] = "fetch_orders"
        /\ pc' = [pc EXCEPT ![r] = "write_orders"]
        /\ held' = [held EXCEPT ![r] =
               [stock |-> Nothing,
                orders |-> {placed[i] : i \in {j \in 1..Len(placed) : page[r] <= j /\ j <= last}}
                               \ Cut,
                more |-> More(last)]]
        /\ UNCHANGED <<taskQueue, shopify, deliveries, database, item, page, listed, began, crossed, happened>>

\* Every order of the window is added, whether or not it was added before.
WriteOrders(r) ==
    /\ Turn(r, "write_orders", "fetch_orders", PageSize, "list", 1)
    /\ Count(held[r].orders)
    /\ UNCHANGED <<taskQueue, shopify, deliveries, stock, item, listed, began, crossed, happened>>

\* sync_node passes on the rows of the run's merchant, or all rows for the demo key.
List(r) ==
    /\ pc[r] = "list"
    /\ pc' = [pc EXCEPT ![r] = "rest"]
    /\ listed' = [listed EXCEPT ![r] =
           [s \in Skus |-> IF r \in Scoped => s \in Owned THEN stock[s] ELSE 0]]
    /\ UNCHANGED <<taskQueue, shopify, deliveries, database, item, page, held, began, crossed, happened>>

\* The run is over and what it knew is gone.
Over(r) ==
    /\ pc' = [pc EXCEPT ![r] = "over"]
    /\ page' = [page EXCEPT ![r] = 1]
    /\ held' = [held EXCEPT ![r] = NoPage]
    /\ listed' = [listed EXCEPT ![r] = Nothing]
    /\ began' = [began EXCEPT ![r] = NotBegun]
    /\ crossed' = [crossed EXCEPT ![r] = {}]
    /\ UNCHANGED <<shopify, deliveries, database, item, happened>>

\* forecast, risk, po_draft and notify_pending have run.
Finish(r) ==
    /\ pc[r] = "rest"
    /\ Over(r)
    /\ IF r \in Tasks THEN Succeed(r) ELSE UNCHANGED taskQueue

\* Shopify answers with an error, or three times with 429; the database fails; 120
\* seconds are over.  What has been written stays.
FailRun(r) ==
    /\ pc[r] \in Working
    /\ Over(r)
    /\ IF r \in Tasks THEN Break(r) ELSE UNCHANGED taskQueue

Step(r) ==
    \/ FetchProducts(r) \/ WriteProducts(r) \/ FetchOrders(r) \/ WriteOrders(r)
    \/ List(r) \/ Finish(r) \/ FailRun(r)

Request(t) ==
    /\ pc[t] = "idle"
    /\ Enqueue(t)
    /\ UNCHANGED <<shopify, deliveries, database, item, run, crossed, happened>>
Ask(t) == Poll(t) /\ UNCHANGED <<shopify, deliveries, database, item, run, crossed, happened>>

\* The process restarts and forgets its runs, its queue and its handlers.
Restart ==
    /\ Happen
    /\ Vanish
    /\ item' = Nothing
    /\ pc' = [r \in Runs |-> IF pc[r] \in Working \/ r \in Waiting THEN "over" ELSE pc[r]]
    /\ page' = [r \in Runs |-> 1]
    /\ held' = [r \in Runs |-> NoPage]
    /\ listed' = [r \in Runs |-> Nothing]
    /\ began' = [r \in Runs |-> NotBegun]
    /\ crossed' = [r \in Runs |-> {}]
    /\ UNCHANGED <<shopify, deliveries, database>>

Next ==
    \/ \E s \in Skus : ChangeStock(s) \/ FetchVariant(s) \/ WriteVariant(s)
    \/ \E u \in updates : HandleProductUpdate(u[1], u[2])
    \/ \E o \in Orders : PlaceOrder(o) \/ HandleOrderCreate(o)
    \/ Age
    \/ \E t \in Tasks : Request(t) \/ Ask(t)
    \/ StartQueued
    \/ \E r \in Runs : StartDirect(r) \/ Step(r)
    \/ Restart

Spec == Init /\ [][Next]_vars

-----------------------------------------------------------------------------
(* Properties.                                                             *)

\* The SKUs that are on some page of the products.
Listed == UNION ToSet(Catalog)

\* A run goes by stock no older than when it began, unless a webhook or another run
\* has meanwhile written what it had learnt before (sync_products_and_inventory).  It
\* does so for the SKUs that PRODUCTS_QUERY asks for: the row of another is as old as
\* the last webhook about it.
RunSeesFreshStock ==
    \A r \in Runs : pc[r] = "rest" =>
        \A s \in Listed :
            (r \in Scoped => s \in Owned) =>
                listed[r][s] >= began[r].version[s] \/ s \in crossed[r]

\* The days asked for still contain order o.
Within(o) == \E i \in aged + 1..Len(placed) : placed[i] = o

\* Orders which the synchronisation of run r must have counted: placed before it began,
\* still within the days asked for, among the lines asked for, and of a listed SKU.
Due(r) == {o \in began[r].orders \ Cut : SkuOf[o] \in Listed /\ Within(o)}

\* A run goes by sales that contain every order that was due, whatever earlier runs have
\* left undone: all pages are read, and products before orders, so that the SKU of every
\* such order is known (sync_node, sync_sales_history).
RunCountsOrders ==
    \A r \in Runs : pc[r] = "rest" => \A o \in Due(r) : counted[o] > 0

\* README.md:747 says of sales_history: "Daily unit sales per SKU".  So an order is in
\* it once.
SalesTrue == \A o \in Orders : counted[o] <= 1
=============================================================================
