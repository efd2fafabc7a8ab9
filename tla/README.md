# A verification of the Inventory Management AI Employee

TLA+ specifications of the program in this repository: modules that model its
components, TLC runs that check them on small instances, and theorems that the
TLA+ proof system (TLAPS) has checked for every instance. `PROJECT.json` maps every
definition to the lines it stands for and lists the hazards the properties are for.

To check a run: `tlc -config MCPurchaseOrders.cfg MCPurchaseOrders`. To check the
proofs of a module: `tlapm PurchaseOrdersProofs.tla`.

## The system

A merchant's stock is read from Shopify, demand is forecast, SKUs at risk are
found, purchase orders are drafted, and a person approves or rejects them. One
process (FastAPI on one asyncio event loop) serves the API, runs the pipeline,
the queue's worker and, when enabled, the scheduler. What it shares lives in
PostgreSQL; caches and the queue are in memory and lost at a restart. A coroutine
gives up control at every `await`, so two handlers interleave between database
queries though there is one thread.

| Component | State | Operations | Talks to | What is hard | What makes it correct |
|---|---|---|---|---|---|
| Approval API (`api/routes/purchase_orders.py`) | orders, saved answers, audit log, answer cache | approve, reject, signed link, retries under a key | pipeline (resumes its thread), audit log | seven awaits per request, locks that end with each session, half-done requests, restarts, cache eviction | an order is decided once; nobody is told anything else; edits are marked; no run waits for a decided order |
| Pipeline (`agent/graph.py`, `agent/nodes`) | a thread's checkpoint; orders, alerts, forecasts | sync, forecast, risk, po_draft, notify_pending, notify_confirmed | forecast cache, LLM, Slack, approval API | two runs at once, stale stock, minutes between reading and inserting, approvals at other quantities | no duplicate order, no over-ordering by runs, nothing critical forgotten |
| Replenishment arithmetic (`agent/ordering.py`, `agent/risk.py`) | none | days of cover, risk, quantity | pipeline | boundaries, two files that must agree though one goes by the exact demand and one by the rounded | quantity is exact, and positive when risk is critical and the demand not tiny |
| Forecasting node (`agent/nodes/forecast_node.py`) | forecasts table, ten-minute cache, Prophet's breaker | forecast all SKUs at once, each in 12 s | pipeline, forecast models | all SKUs interleave; cached fallbacks; two circuit breakers; stale days of cover | a run passes on what its engine promises, and every forecast has a row |
| Forecast models (`agent/forecast.py`, `agent/forecast_prophet.py`) | none | fill the series, fit, score, choose, blend | forecasting node, replay, backtest | sparse histories, empty scores, gaps | a slow seller is never forecast to zero nor above its best day |
| Engine promotion (`agent/forecast_engine.py`) | engine of each merchant | daily promotion with a replay of the sales, change by the owner | scheduler, forecasting | the job overtakes the owner | an engine the owner chose stays; the gates go by what all days show |
| Task queue (`shared/task_queue.py`) | queue and results in memory | enqueue, work, poll | pipeline | one worker, 200 results, restart | queued runs never compete; a task that is done has its result until it is read, pushed out or lost with the process |
| Chat actions (`agent/chat/actions.py`) | a JSON list in a chat message | confirm, cancel, expire | orders, audit log | whole list read, kept and written back | an action is ordered once; a settled one stays settled |
| Chat agent (`agent/chat/agent.py`, `agent/chat/tools.py`) | conversation history | a turn of model and tool calls | LLM client, replenishment arithmetic | budget, streaming; the tools judge a SKU by other data than the pipeline | every turn ends; the chat makes no more of a SKU than the pipeline |
| Webhooks (`agent/webhooks.py`) | event ids in a cache and a table, failed_webhooks, sales history | receive, put aside, retry | Shopify, scheduler | at-least-once delivery, retries, eviction, restarts | processed means applied; nothing put aside is lost; applied once |
| LLM client (`shared/llm_client.py`, `agent/llm_usage.py`) | circuit breaker, spend table | call with retries, skip over budget | providers | breaker that has to close, budget checked before and charged after | every call ends; spending and failures stay near their limits; the breaker closes again |
| Shopify sync (`agent/shopify_sync.py`, `agent/nodes/sync_node.py`) | SKUs, sales history | products, one variant, sales, page by page | Shopify, webhooks | additive upserts, changes between two pages, webhooks in any order, queries that ask for a part only | of what is asked for, a run goes by fresh stock and complete sales; a sale is counted once |
| Outcomes (`agent/outcomes.py`), reflection, reporting | outcomes, insights | daily and weekly jobs, an evaluation on request | scheduler, sales history, ROI | job and request at once; an order at which every evaluation ends | every order is evaluated, and its units count once |
| Scheduler (`agent/scheduler.py`) | jobs in memory | seven jobs | all of the above | overlaps with requests | a job runs once at a time |
| Shell and shutdown (`api/main.py`) | in-flight counter | start, drain, stop | queue | requests cut off | accepted work is finished |
| Scripts (`scripts/forecast_backtest.py`) | none | backtest of both forecasts | forecast models | days without a row, hold-outs longer than a forecast | the report is of all days |
| Authentication, audit export, ROI, branding, metrics, frontend | their own rows | queries, formatting | – | – | not behaviour of this kind |

`PROJECT.json` lists every one of them with what is modelled and why the rest is not.

## The modules

| Module | Models | Checked by | Proved in |
|---|---|---|---|
| `PODecision` | what the approval API promises (abstract) | – | – |
| `PurchaseOrders` | the approval API, implements `PODecision` | `MCPurchaseOrders` | `PurchaseOrdersProofs` |
| `Planning` | replenishment arithmetic | within `MCPoDraft` | `PoDraftProofs` |
| `PoDraft` | pipeline runs drafting orders, extends `Planning` | `MCPoDraft` | `PoDraftProofs` |
| `ChatActions` | confirming and cancelling proposals | `MCChatActions` | `ChatActionsProofs` |
| `Webhooks` | receiving and retrying events | `MCWebhooks` | `WebhooksProofs` |
| `ForecastEngine` | the engine flag, its owner and the promotion job | `MCForecastEngine` | `ForecastProofs` |
| `Engines` | the engines a merchant's forecasts can come from | within `MCForecastEngine`, `MCForecasting` | – |
| `LLMCalls` | calls of the language model: circuit breakers, retries, streams, the daily budget, chat turns | `MCLLMCalls` | `LLMCallsProofs` |
| `TaskQueue` | the in-process queue with its worker and results | within `MCSalesSync` | `SalesSyncProofs` |
| `SalesSync` | synchronisation and webhooks writing stock and sales, extends `TaskQueue` | `MCSalesSync` | `SalesSyncProofs` |
| `Fractions`, `Demand` | forecasting one SKU, over exact fractions | within `MCForecasting` | `ForecastProofs` |
| `Replay` | the hold-out replay and the promotion gates, extends `Demand` | within `MCForecasting` | – |
| `Backtest` | the backtest and its report, extends `Replay` | within `MCForecasting` | – |
| `ForecastNode` | the forecasting node | within `MCForecasting` | `ForecastProofs` |
| `Forecasting` | `ForecastNode` beside the sales, and what `Demand`, `Replay` and `Backtest` make of them | `MCForecasting` | `ForecastProofs` |
| `Outcomes` | evaluating approved orders, and what they are worth | `MCOutcomes` | `OutcomesProofs` |
| `ChatTools` | what the chat says of risk and quantity, extends `Planning` | within `MCPoDraft` | `PoDraftProofs` |

Every module follows one convention: a request or run `r` is at a place `pc[r]`,
one step is what the code does from one `await` to the next, and the database, which
commits atomically, is a set of variables that a restart leaves alone.

### PurchaseOrders

A request carries a call (approve or reject, quantity, key, API or link). Its
places are the awaits of the handler: `lookup` of the key, `resolve` (`_resolve_po`),
`mark` and `mark_write` (`_mark_edited_if_changed`), `resume` (`_resume_graph`),
`update` (`_update_po_status`), `audit`, `remember` and `save` (`_run_with_idempotency`),
`reply`. `Resolve` keeps the quantity it read in `seen`, as the detached row does in
the code: its lock has ended. `Update` is the one step under a lock from the query to
the commit, and writes only where the row is still pending. The link handler has no
key and writes no audit entry. `Fail` is a database error at any place that awaits the
database, `ResumeFails` a graph that raises or overruns its 120 seconds (and may have
finished all the same), `Crash` a restart.

`PODecision` is the promise with none of this: an order is decided at most once, a
decision is final, and clients are only told decisions that stand. `RefinesDecision`
maps the row of a decided order to its decision and the answers given to `told`.

### PoDraft

A run first takes a snapshot of stock and forecasts and finds who is at risk (`Assess`:
sync, forecast and risk, which read nothing that other runs write; `Raise` is what it raises of
them). The days of cover risk goes by may be those of another stock, as forecasts are cached
for ten minutes.
Then po_draft step by step: `ReadExisting` (recent pending orders, which stay locked until
its session ends), `ReadOnOrder` (units pending or in transit), `Recheck` (a second look,
with no lock, after the calls to a language model), `Insert`. Orders are dated by the
start of their transaction, which is `Recheck`. Meanwhile people approve and reject and
time passes. `Approve` writes the quantity that was entered (`Edits`) or leaves the drafted one, and that
is what counts as on order from then on; how `PurchaseOrders` makes an edit is abstracted to its commit.
`Window` is the hour of deduplication, `Transit` the fourteen days. `MCPoDraft` also states
`ChatTools`' properties as assumptions over small rows, which TLC evaluates.

`UnitsOf` adds up an amount of each of a set of orders by counting their units, as pairs of a run and a number: that is the sum
the code's query returns, in a form that can be reasoned about.

`drafted`, `met` and `tied` are history: how many units of an order its run asked for, as far as its
approval has left them, so that what people add can be told from what runs do; which runs were drafting together, and which were about to
insert when a run took its second look. The last two exist to say exactly when the code fails to
prevent a duplicate. No action reads any of the three.

### Planning

A forecast's demand is exact, counted in grains, of which `Grains` make a hundredth of a unit. As in the code,
days of cover are computed from it and then rounded to tenths of a day, while what the state and the row carry, and orders
are planned by, is the demand rounded to hundredths (`Rounded`). The two can disagree: a SKU that sells once in 250 days
and is sold out is critical, and its demand of 0.004 is passed on as 0.00, for which nothing is ordered; one
with a last unit, a demand of 0.024 and 42 days to deliver likewise. `SurvivesRounding` is how large a demand must be
for this not to happen, and `MCPoDraft` states both examples. The code multiplies binary floating-point numbers, the model exact ones:
`math.ceil` of a product that is a hair above a whole number orders one unit more than
the model does.

### ChatActions

One row with the list of actions of one reply. `Find` reads the list into `copy[r]`,
`InsertOrder` commits the order, `Persist` writes the whole copy over the row, `Audit`
logs. `Fail` ends a request at any of these. `before` is history: who was over when a
request began.

### Webhooks

A delivery is looked up (`Arrive`, `Duplicate`, `Fresh`), handled, remembered in the
cache and recorded in the table; when handling fails it is put aside (`Enqueue`). The
cache is a bounded sequence with the code's order of eviction. The job reads due rows
(`SelectDue`), handles each again, deletes or postpones it. The scheduler runs one
instance of it. What an event does is abstracted to how often it was done: that is what
matters to `orders_create`, whose upsert adds. A payload over 10000 characters is cut off
when it is put aside, so its retries can only fail (`Oversized`).

### ForecastEngine

A request to set the engine (`Load`, `Commit`) and the job (`StartJob`, `Take`, `Pass` or
`Blocked`, `FlipLoad`, `FlipCommit`) both load a merchant's row and commit it at a later
await. SQLAlchemy writes only the columns whose value differs from the one loaded, which
`Flush` models: a request that sets the engine it has loaded writes nothing, even if the
job has changed it meanwhile. Runs resolve the engine when they start (`Resolve`) and
store forecasts with it later (`Store`); the days on which both versions were stored are
what the first gate counts. What the replay of the sales says of the other gates is
either; `Replay` computes it. `chosen`, `overlapped` and `shadowed` are history: what the owner last asked
for, if nothing met the request, and when the merchant last came to shadow. A restart is not an action of its own: what
it ends, a run, a request or the job, may end at any time here.

### LLMCalls

Runs (`_generate_reasoning`, and `_generate_insight` of the weekly reflection) use one client,
chat turns another one, so there are two breakers and one budget. A caller reads the spending
(`Begin`, `AskAgain`), then the breaker (`Admit`, `Refuse`), waits for the provider (`stream`,
`emitting`, `post`), has its reply booked (`Book`) and goes on (`GoOn`): a run to its next text, a
turn to its tools and the model again, `MaxSteps` times at most. Time is only whether a breaker's
`_open_until` has passed (`cooling`). The details that matter and are easily missed: `is_open` has a
side effect, a stream neither counts failures nor clears them, attempts after the first do not
look at the breaker, and only timeouts and HTTP errors are retried and counted; a refused
connection is neither and ends the call (`Abandon`, as does a cancelled caller). Replies of
tool calls without text, and those whose logging fails, are not booked (`LeaveUnbooked`).

### TaskQueue and SalesSync

`TaskQueue` is the queue by itself: `Enqueue`, the worker's `Begin`, its two ways to be over
(`Succeed`, and `Break` when the run raises or overruns its 120 seconds), `Poll`, which pops the result, and
`Vanish`. `Trimmed` is `_trim_results`. `SalesSync` gives a task something to do: a run fetches
a page and commits it later (`FetchProducts`, `WriteProducts`, `FetchOrders`, `WriteOrders`),
then lists the SKUs it will plan for (`List`). Shopify changes between any two of these, and
webhooks write the same rows: `HandleOrderCreate` adds an order, `HandleProductUpdate` writes
the stock its payload carries, however old, and `inventory_levels_update` fetches a variant
and writes it (`FetchVariant`, `WriteVariant`). Stock is a version that only Shopify raises,
so that freshness can be stated; `counted[o]` is how often the upserts have added order `o`,
and is not counted beyond two. `began`, `listed` and `crossed` say of a run what Shopify had when
it began, what it has read, and which SKUs a webhook wrote meanwhile.

The queries ask for a part of what Shopify has. `Catalog` has the SKUs among the first fifty variants of
their product, as `PRODUCTS_QUERY` asks for no more and has no cursor for them; others get a row only if a webhook
writes one. `Cut` has the orders, here lines of an order, that are beyond the fifty of `ORDERS_QUERY`. `aged` is how many orders,
the first ones, are older than `sync_days`: `Age` lets it grow, and a run settles what it asks for when it turns to the orders
(`WriteProducts`). `Earlier` are orders of before the model begins, so that there is something to grow old.

### Fractions, Demand, Replay and Backtest

`Demand` follows `agent/forecast.py` function by function: `Series`, `Phases`, `Impute`, the fits (`Ses`,
`Holt`, `Seasonal`, `Croston`), `Scores` on the last days, `Best`, `Blend`, the bands, and the fallbacks of
`Ensemble`. All its numbers are parameters, so that series of six days reach every branch
that the code reaches with weeks. Fractions are exact; rounding to three or four digits is left out, a
square root is a table (`Spread`), and Prophet's forecast is an input (`Externals`). No forecast is of more than
`MaxHorizon` days, the code's 365. `Replay`
holds out the last rows of each SKU, compares both versions (`Evaluated`), pools them
(`Summary`) and states the gates. `Backtest` does the same several folds back and by the calendar (`Aligned`). When a fold
holds out more days than are forecast, the code reads its band beyond the end and raises (`Raises`), and there is no report:
`Reports` is a set of one or none.

### ForecastNode and Forecasting

One run gathers all SKUs; each is a coroutine with a place of its own, `jobs[r][s]`: the
cache (`Hit`, `Miss`), Prophet's fit behind its breaker (`TryProphet`, `FitSucceeds`, `FitFails`), the ensemble
(`Build`), the row (`Persist`), the cache again (`Keep`); `DatabaseFails` and `TimeOut` end it without
a result. When all have rested the run counts failures and cached fallbacks (`Failures`) and either finishes or
trips and starts over with the first version. `cache` is keyed by SKU and engine and may expire
at any time; it survives from one run to the next, which is how one run's fallback becomes
the next one's failure. Whether a fit takes too long is either. `wasted` is history: the fits lost since one
succeeded or the breaker was closed.

`Forecasting` sets these runs beside the sales: each step of it is one of `ForecastNode` (`Operate`), or writes sales, so
that what is proved of `Running`, the runs by themselves, holds of it.
`sales` is what the arithmetic is about: `Sell` lets them be any portfolio, and the properties of `Demand`,
`Replay` and `Backtest` are stated of it. No step of a run reads them, a forecast being only its version there, so
`MCForecasting` varies them only while there has been no run.

### Outcomes

The daily job and `POST /evaluate-outcomes` are two evaluations that may be under way at once.
`Begin` reads the orders, then each one is looked at by itself, in any order, as the query has none: passed
(`Pass`), measured (`Evaluate`) and its outcome stored at a later await (`Record`), or the evaluation ends there
(`Raise`). `Comparable` is the type error the code runs into: PostgreSQL's average of an integer column arrives as a
`Decimal`, and the demand after the delivery is a float unless it is zero. `UnitsAvoided` and `Excess` are what
`agent/roi.py` makes of the outcomes and decisions. `raced` is history: orders stored while both evaluations had them.

### ChatTools

Three tools as operators: `ToolRisk`, `Suggested` with `Proposed`, and `FindAtRisk`. They use the pipeline's
arithmetic but not its p90 band.

## What the runs check

| Run | Instance and bounds | Shows |
|---|---|---|
| `approval` | 2 orders (one of a graph run, one of the chat), 3 requests with 8 possible calls, 2 keys, 3 quantities, cache of 1, 1 restart; 113,015 states | every property below holds, with fairness for the liveness ones |
| `drafting` | 1 SKU, 2 queued runs (symmetric) and a direct one, stock 4 or 8, one demand pair that rounding changes, least order 5, approvals at the drafted quantity, 6 or 20, lead time 2, window 1, transit 2, clock to 3; 6,477,129 states | duplicates need a tie; runs do not over-order, whatever is entered; nothing critical is left |
| `chat` | 2 actions, 2 confirmations (symmetric), 2 cancellations; 517,628 states | what was settled without interference is not ordered again |
| `webhooks` | 2 events, 3 deliveries, cache of 1, 2 retries, 1 row per query, 2 restarts or outages; 89,341 states | processed means applied, nothing is lost, `ok` is final |
| `engine` | 2 merchants, 1 run, 2 requests for one of them, 2 days, 1 shadow day to promote, 1 failure of the job; 742,004 states | a choice that met nothing stands; who has enough days since it came to shadow is promoted |
| `llm` | 1 run, 2 turns of up to 2 steps, threshold 2, 2 attempts, cap 2, costs 1 and 2; calls without end; 29,368 states | overdraft and failures stay within what was under way; every call ends |
| `sync` | 2 queued runs (symmetric, scoped to a merchant) and a direct one, 3 SKUs on 2 pages, of which one has no row yet and one is not asked for, 3 orders on pages of two, of which one is beyond the lines asked for and one of the SKU that is not, 1 result kept, 2 changes, orders, passings of days or restarts; 4,263,271 states | of what is asked for, a run goes by fresh stock and complete sales; results are kept |
| `forecasting` | 1 run after another over 2 SKUs, a breaker of a third of them, Prophet's of 2 failures; every history of 6 days and 54 pairs of them, weeks of 2 days, forecasts of 2 days at most; 206,147 states | a run is honest about its engine; slow sellers stay within their sales; replay and backtest report all days |
| `outcomes` | 2 orders of one SKU, approved at 1 or 2 units, a day to deliver, a day's window, days 0 to 2, 1 break-off; 443,632 states | units count once, of a raced order twice; every order is evaluated unless one is stuck |
| `breaker` | 1 run, 1 turn, cap 1, with a provider that is well again | violated: a breaker that opened stays open |
| `sales_counted` | as `sync` | violated: an order counted twice |
| `orders_unevaluated` | as `outcomes`, without break-offs | violated: an approved order is never evaluated |

Why the bounds are enough to be interesting: three requests are the fewest that let
one decide while a second is half-way and a third retries; a cache of one entry makes
every second key evict; two stock levels lie on both sides of the critical boundary;
three ticks let an order leave the window, be approved and leave transit. A batch of
one row makes failed webhooks compete. `llm` needs no bound at all: failures and
spending are bounded by the properties themselves. Two tasks and one kept result make the result
store evict; two pages of products put a change of Shopify's between them, and two earlier orders fill a page, so that the order that
may follow is on the next; one SKU without a row
makes its orders wait for the products. Each of the four limits of `Due` and `RunSeesFreshStock` (lines, variants, days) is met:
TLC finds a violation when any of them is dropped from the property. One quantity entered is less than what runs draft and one
is more than they ever find missing. Six days hold weeks with and without a season, intermittent
sales, stockouts to impute, hold-outs with and without sales and folds with gaps, of which some are longer than a forecast, as the parameters are scaled to them.
Two orders of one SKU let one break off the evaluation of the other, and two days let an order be due while another is not.
Every cfg but those of `LLMCalls` and `Forecasting`, whose callers and runs never stop, says
`CHECK_DEADLOCK FALSE` because each model may really stop: all requests are answered, all runs over, and the clock at its bound.

### Properties

Approval: `AnswersTrue` (what a client is told, or may be told later from a cache, is the
decision in the database), `AuditMatchesDecision`, `EditNeverSilent` (an order approved
at another quantity is marked), `NoOrphanInterrupt` (no decided order leaves its run waiting),
`RefinesDecision`, `EveryRequestSettles`.

Drafting: `NoDuplicateUnlessTied`, `NoOverOrder` (the units on order that runs asked for, so without
what people add when they approve, never exceed what some run found missing, or the least the supplier sells, however often the
pipeline runs, unless runs drafted together), `CriticalIsOrdered` (a run leaves nothing
without an order that is critical at the stock it read, though risk and quantity are
computed in different places from different data; demands that do not survive their rounding are excepted).

Chat: `SettledIsNotOrdered`: about requests that had the list to themselves. With one that
interferes, a stale list is written back and a settled action can be ordered again.

Webhooks: `ProcessedIsApplied` (nothing is ignored, answered with ok or remembered that
was not handled), `FailureIsKept`, `OkIsRemembered` (after an ok, no delivery that comes
`late` is handled, through eviction and restart), `EveryFailureSettles` (a row is deleted or has had
its retries).

Engine: `ChoiceStands` (the engine an owner chose is the merchant's until the next choice
or a promotion from shadow, and the promotion date agrees with it, if the request met
neither the job nor another one), `EligibleArePromoted` (nobody stays on shadow for ever
with enough days since it last came there, though an error at one merchant ends the day's job for the others).

Model calls: `OverspendBounded` (the budget is read before a call and booked after it, and
still no more than one reply of each caller comes on top), `FailuresBounded` (the same for the
attempts of an outage, though calls let in earlier go on and a success among them lets others in),
`EveryCallEnds` (through fallback, retries and tools); `BreakerResets`, violated.

Synchronisation: `RunSeesFreshStock` (the stock a run plans with is at least as new as when
it began, unless a webhook wrote an older one meanwhile; for a run of a merchant, of the SKUs
that are its own; in either case among the variants asked for), `RunCountsOrders` (the sales it goes by contain every order of before it
began that is `Due`: still of the days asked for, among the lines asked for, and of a variant asked for; whatever earlier runs have left undone), `ResultKept` (a result in the store leaves it only when it
is read, pushed out by newer ones, or lost with the process), `SalesTrue`, violated.

Forecasting: `NodeTypeOK` (with the types, that an outage of Prophet costs its limit and the fits under way when it was
reached, however many SKUs and runs try it), `RunIsHonest` (a tripped run, and one without the ensemble, passes on first versions only, and a run with it no
more failures than its threshold; every forecast passed on has its row), `FlatWithinSales` (a SKU
below the gate for trends that sold on a day of its series is never forecast to sell nothing, nor more than on its best day), `SummaryIsOfAllDays`
and `BacktestIsOfAllDays` (what is pooled of SKUs, folds and tiers equals what one would compute from
all their days at once; of a backtest with a hold-out longer than the longest forecast there is no report).

Outcomes: `ValuedOnce` (an order's units are worth something once, as sold or as not bought, and at most once more if two evaluations
measured it at the same time), `EvaluatedUnlessStuck` (every approved order is evaluated
unless some order is at a place where every evaluation ends), `EveryOrderIsEvaluated`, violated.

The chat's tools, as assumptions of `MCPoDraft` and as theorems: `NoBolder` (neither a greater risk nor a
greater quantity than the pipeline with the same forecast), `CriticalFirst` (a SKU that is critical by its point forecast is left
out of an answer only if as many as it holds are critical with no more cover, and then nothing else is in it).

Several properties except what a race does that the code leaves open: `SettledIsNotOrdered` requests that met another one,
`ChoiceStands` choices that met the job or another request, `RunSeesFreshStock` rows that a late writer made old (`crossed`), `NoDuplicateUnlessTied`
runs that tied, `EvaluatedUnlessStuck` orders that got stuck. The races are in the models and do what they do in the code; the
properties say that nothing else is needed to do without the harm. `PROJECT.json` says of every hazard whether a property covers it.

### Fairness

`PurchaseOrders!FairSpec`: a handler that has started keeps running (`WF` of its steps),
as the event loop schedules it and every await ends: the database answers or raises, the
graph is under `asyncio.wait_for`. Nothing is assumed of arrivals, failures or restarts.
`Webhooks!FairSpec`: time passes for each row and the scheduler, an interval job, keeps
starting the job. Failures of a handler are not limited by fairness but counted by the
row; only restarts and outages are bounded (`MaxOutages`), as endless restarts could keep
a job from ever finishing. `ForecastEngine!FairSpec`: the job keeps starting and running, and a
merchant that is evaluated again and again passes the other gates some time (`SF`), without
which nobody need ever be promoted. `LLMCalls!FairSpec`: a caller that has started goes on, as
the provider answers or the HTTP client times out, and time passes. `HealthySpec` adds days,
new callers and success of those who reach the provider again and again (`SF`): even so the
breaker does not close. `Outcomes!FairSpec`: days pass and the scheduler's job keeps starting and going on; nothing is assumed of the
request, and what may cut an evaluation short from outside is bounded (`MaxAborts`), as endless
failures of the database could keep every job from its end. The other modules are checked for safety only.

## What the code does against its documents

1. **The circuit breaker** (`docs/RUNBOOK.md:240`, `shared/llm_client.py:9`; run `breaker`). It does not
   reset after its cooldown. `is_open` finds the failures still at the threshold, opens it
   for another minute, and lets no call through whose success could clear them. Unless a
   call that was under way succeeds, every text is a template and every chat turn fails until
   the process restarts. The breaker of `agent/forecast_prophet.py`, which clears its
   failures when it opens, does not have this.
2. **Sales** (`README.md:747`; run `sales_counted`). Every synchronisation adds the orders of its whole window to
   the days they were placed on, whether or not it, or `orders_create`, has added them before. Demand
   grows with the number of runs.
3. **Evaluation of orders** (`README.md:152`; run `orders_unevaluated`). For a SKU that sold both before and after its
   delivery the evaluation raises a `TypeError`, today and every other day, and no order behind it is
   reached. The same follows when job and request have both stored an outcome of one order. The tests mock the
   session, so that no `Decimal` arrives.

Two more have no run of their own:

4. **Back to shadow** (`docs/FORECAST-ENGINE-RUNBOOK.md:126-127`): "let the tenant re-accumulate shadow days (set it back to
   `shadow` to restart measurement)". `count_shadow_days` (`agent/forecast_engine.py:412-428`) counts days of any age, so that a
   merchant that was promoted, demoted and set back to shadow is eligible at once by its old days. `EligibleArePromoted` claims a
   promotion only after enough days since, on which both agree.
5. **The backtest of slow sellers** (`scripts/forecast_backtest.py:15`): they "are therefore scored honestly". The ensemble forecasts 365 days at
   most (`agent/forecast.py:489`), and a hold-out whose rows span more ends the whole backtest with an `IndexError` at line 200:
   the last part of `BacktestIsOfAllDays`.

## What is proved

All theorems are for any constants that satisfy the module's assumption. None needs
a bound of the runs.

`PurchaseOrdersProofs`. The inductive invariant adds to the types what each handler knows
at its place: an order that a handler is about to audit, remember, save or answer was decided
by it (hence all answers are true and log entries match), a handler past its resume has a
finished thread, a handler past its mark with another quantity has marked the order. The
mark is the delicate part: it holds because the quantity of a pending order is the drafted
one until the one decision, so whoever saw another quantity saw a decided order, which
`Update` refuses. From the invariant: `TypeCorrect`, `AnswersAreTrue`, `AuditIsTrue`,
`EditsAreMarked`, `InterruptsAreOver`, and `Refinement`, that every step is a step of
`PODecision` or leaves it as it is.

`PoDraftProofs`, the pipeline. `NoDuplicates` rests on where a run's orders become visible: a run that
takes its second look after another's commit sees a recent order and leaves the SKU out;
one that looks before is recorded in `tied`. Dates are monotone, because a transaction's
date is not after the clock. `QueueIsSerial` follows from the worker: no two queued runs
are active at once. `NothingIsOverOrdered` and `CriticalIsNotLeft` come from one inductive invariant
(`TInv`). `NoOverOrder` by itself says nothing of a run between its query and its insert; what carries it over
those steps is `Counted`: while a run drafts, no more is on order than it counted, unless a run it
met has ordered meanwhile, and two runs that draft at the same time have met (`DraftersMet`). So when it inserts,
the units on order are what it counted and its own, which `MissingIsExact` measures. All of it is of
`UnitsDrafted`, what runs asked for: an approval may raise the units on order to anything, but not these, as `drafted` is lowered with the
quantity and never raised, and what a run counts includes them. That approvals,
rejections and the passing of time never raise the sum needs the units to be a set: fewer open orders are a
subset, and `Insert` adds one run's pairs (`UnitsFewer`, `UnitsAdded`). `Ordered` remembers that a
paused run has ordered its batch or found it ordered; that a critical alert is in the batch unless something is on order is
`CriticalIsReordered`.

`PoDraftProofs`, the arithmetic. `MissingIsExact`: the quantity covers the target, and one unit less would
not. `CriticalIsReordered`: a SKU that `agent/risk.py` calls critical has a positive
quantity in `agent/ordering.py` when nothing is on order, whatever the lead time, least order
and demand pair, if the demand planned for survives its rounding: the seven days of safety are then more than what the rounding of
days of cover and that of the demand hide together.
`ToolsAreNoBolder`: severity falls and quantity grows with demand, and the pipeline plans for at least the
point forecast, by which the chat goes. `CriticalIsShownFirst`: whatever precedes a critical row is critical with no more
cover; if the row is left out, at least the twenty of an answer precede it, and any row in the answer is among these, as otherwise all
that precede the one would precede the other.

`ChatActionsProofs`. Every request rewrites the whole list from its own copy, so what one of
them settled lasts only if no older copy is written after it. A request that met no other one
has no older copy to fear: whoever is at work when it is through came later
(`WorkersCameLater`), and read a list in which the action is settled. For that action it was
refused; for another one it carries the settled status in its copy and writes it back
(`SettledStays`). From it `SettledIsFinal` and `ListStaysTrue`.

`WebhooksProofs`. `FailuresAreKept`: the job is at the row it deletes only after having
handled its event, and nothing else deletes rows. `OksAreRemembered`: what was answered
with ok is in the table, the table only grows, and an answer is final, so a later delivery
finds it whatever the cache does. `ProcessedAreApplied` follows an event from the handler to the
cache and the table: whoever remembers or records it has handled it (`HandledFirst`), and evicting the oldest
entries, a restart or a delivery that is remembered twice only ever leaves events out of the cache that were
in it, or moves them. `TypeCorrect` includes that the cache holds no more than its limit and that no row is tried more
often than it may be.

`SalesSyncProofs`. Freshness is pinned down at every place of a run (`ProductsRead`): pages of products before
the one at hand are written and as new as Shopify was when the run began, or overtaken by another writer (`Fresh`);
the fetched page is as new; and past the products every SKU on a page has such a row. For
the orders (`OrdersRead`), those that are due before the page at hand are counted, a page that is followed by another
is full, so the next one begins where it ends, and the last one holds whatever is due and not counted yet (`Countable`). Shopify only
appends, so what was placed when a run began stays where it is however many orders come in between, and what is due only becomes
less as days pass (`DueShrinks`), so that the window a run has settled contains it.
`RunsSeeFreshStock` and `RunsCountOrders` are what is left of this when the run is through, for any catalog, any page size and
any number of runs. `ResultsAreKept` is an action property of the queue: whatever a step does to the store
is a read, a restart, or the trimming of its oldest entry.

`ForecastProofs`, the choice of an engine. A request that is alone would overwrite the very row it has loaded
(`AloneSeesRow`), so that leaving out unchanged columns loses nothing; and where the job has
a merchant in hand, a choice that still counts is `shadow` and the row is as the job loaded
it (`JobSeesShadow`), because a request that commits meanwhile is not alone. With them
`ChoiceStands` is inductive.

`ForecastProofs`, the runs. `RunsAreHonest`: the cache never holds a version that its engine does not make, nor a
forecast without its row (`CacheHonest`), and a run's forecasts are of its engine at every place (`ResultsHonest`), though
the engine changes when it trips: then all of them are dropped. A run that has finished has left no job behind that could
still change what it passed on (`TripsHonest`). `OutageIsBounded` needs the fits that are under way: once the breaker is open, those
lost and those under way together stay below its limit and all jobs there are (`WasteBounded`); while it is closed, it has counted all
that were lost. The type invariant alone is not inductive: nothing in it says that a fit that fails after the breaker
has opened was let in before. TLC found no violation of the parts of
`TInv`, of the invariant of `SalesSyncProofs` and of `NodeInv` on the instances of their runs before they were proved.

`LLMCallsProofs`. Both bounds are proved with what may still come: the spending with one
reply for each caller that is past its look at the budget (`SpentKept`), the failures with the
attempts that callers at the provider have left (`FailuresKept`), as a set of pairs whose size
falls by one with each failure. Either is re-established by the look itself: it lets a caller in
only below the threshold, where all attempts of all callers are within the bound.

`OutcomesProofs`. An outcome in hand belongs to an order that was approved and due when it was measured, the two
evaluations are all there are, and an order with more than one outcome has raced and has two. `UnitsAreValuedOnce` then counts: an
order outside `raced` has at most one outcome, so what it avoided is at most its quantity, and what its approval
trimmed is the rest of what was drafted; a raced one has its quantity once more.

`ForecastProofs`, the arithmetic. `SlowForecastsStayWithinSales` says of every history, grid and way to hold out days
what the run checks for six days. Each model without a trend forecasts one rate, and the rate is `Between` the values: nothing or
more, more as soon as one of them is, and not above them all (`SesIs`, `MeanIs`, `CrostonIs`). Neither half is plain. Smoothing mixes
two numbers with shares that are more than nothing and less than one, so no sale is ever forgotten entirely (`MixIs`,
`LevelsBounds`); Croston's method divides by the smoothed interval, which is a day at least, and so never exceeds the size it
divides. The hold-out keeps a day to train on, but perhaps none with sales: then scores are of forecasts of
nothing, and still they are numbers that can be ranked (`ScoresAre`). What is chosen is fitted to all days, the one that sold among
them, and a blend of two has positive weights (`BlendIs`).

It is a proof by induction over data, which the library's theorems of induction cannot give, as they take an operator as a
parameter. It is had from well-founded sets instead, which take none: a set of naturals without a least member is empty
(`LeastOf`), and what holds of zero and of every successor holds of all (`InductiveSet`), applied to the set
of indices at which a bound holds. A recursive function is what its definition says once some function satisfies it: `GcdIs` names the greatest common divisor,
`LevelsAre` and `TotalIs` build theirs of longer and longer beginnings. Fractions are compared by crossing their
denominators (`Below`, `Above`), so that the bounds of a sum or a product are those of their parts, in lowest terms or not.

The assumptions this needs are those the code's numbers satisfy: shares between nothing and one, a hold-out shorter
than what it is taken from, a least error above zero.

Every invariant and every action property of the runs is proved but two. Only model-checked are
the liveness properties (TLAPS has no rules for fairness that reach them), and `SummaryIsOfAllDays` and
`BacktestIsOfAllDays`: they compare sums over selected and flattened sequences. Of `SelectSeq` and `FlattenSeq` the library has no theorems, and a
lemma about the first would take its test, an operator, as a parameter.

## What is left out, and why

- Access control, rate limits, formats, logging, metrics: no property is about them.
- 404s: requests are about orders and actions that exist.
- What Prophet computes inside, and the holidays and regressors it is given: its forecast is an input of `Demand`.
- Binary floating point and rounding of forecasts: `Demand` is exact.
- Of the backtest: its MASE, bias and count of wins, which are reported beside the error that is modelled.
- Quantities below zero, which the endpoint for approvals would take: `Edits` has none.
- Orders of the chat and other hands beside those of runs: `PoDraft` has only what runs draft.
- Stock at other locations than the first one Shopify names: a SKU has one stock.
- The first version's way to say that stock lasts long: it compares days before rounding with 999, the second version after it.
- `inventory_snapshots`, which the synchronisation writes and nothing reads.
- The value of `forecast_error_pct`: no decision goes by it.
- Reflection, reporting, notifications: text that is sent and stored.
- Ordering events by their time, in Shopify and here: a payload carries none the code looks at.
- A payload that is refused for its signature ends like one that failed before anything
  was done; events without an id, which Shopify does not send, are not deduplicated by the
  code at all.
- An enumeration of suppliers: the code takes the first one there is.
- Several processes: the image starts one (`Dockerfile:35`), and the caches, queue and
  scheduler are its own.

## The plan

What is built, in the order of importance: `PurchaseOrders` with `PODecision`; `Planning` and
`PoDraft`; `ChatActions`; `Webhooks`; `ForecastEngine`; `LLMCalls`; `TaskQueue` and `SalesSync`; `Demand`, `Replay`,
`Backtest`, `ForecastNode` and `Forecasting`; `Outcomes`; `ChatTools`. What is left:

1. Proofs: `SummaryIsOfAllDays` and `BacktestIsOfAllDays`, with lemmas on selected and flattened sequences, and
   the steps of the liveness arguments that are safety: what each handler's progress decreases.
2. `Checkpoints`: a thread that dies between a node's commits and its checkpoint, composed
   with `PoDraft`, so that `NoOrphanInterrupt` no longer assumes paused threads.
3. The composition of `SalesSync` with `PoDraft`: what a demand that was counted twice makes runs order.
