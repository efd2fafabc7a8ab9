--------------------------- MODULE ForecastEngine ---------------------------
(***************************************************************************)
(* Which forecast engine a merchant is served by: the flag on its row, the *)
(* owner who sets it (api/routes/forecast_engine.py), the daily job that   *)
(* promotes merchants from "shadow" to "ensemble" (agent/forecast_engine), *)
(* and the runs that resolve it once and store forecasts, which the job    *)
(* goes by.                                                                *)
(*                                                                         *)
(* Owner and job both load the row and commit it at a later await; the     *)
(* ORM then writes only the columns that differ from what was loaded.      *)
(***************************************************************************)
EXTENDS Engines, Integers

CONSTANTS
    Merchants,
    Cohort,       \* merchants with id % 100 < forecast_rollout_percent
    Start,        \* Start[m]: the engine of m's row when the model begins
    Override,     \* FORECAST_ENGINE_OVERRIDE, or None
    ShadowMin,    \* SHADOW_MIN_DAYS
    Posts,        \* POST /api/v1/forecast-engine requests
    MerchantOf,   \* MerchantOf[x]: whose run or request x is
    Asks,         \* Asks[p]: the engines request p may ask for
    MaxDay,       \* bound: days that pass
    MaxFailures   \* bound: errors that end the job early

ASSUME ForecastEngineAssumption ==
    /\ Cohort \subseteq Merchants
    /\ Start \in [Merchants -> Engines]
    /\ Override \in Engines \cup {None}
    /\ None \notin Engines \cup Merchants
    /\ ShadowMin \in Nat
    /\ MerchantOf \in [Runs \cup Posts -> Merchants]
    /\ Asks \in [Posts -> SUBSET Engines]
    /\ "job" \notin Posts
    /\ MaxDay \in Nat /\ MaxFailures \in Nat

VARIABLES
    merchant,  \* the rows: [engine, promoted], promoted if forecast_promoted_at is set
    rows,      \* rows[m]: <<day, version>> for which some forecast of m is stored
    day,
    run,       \* run[r]: the engine run r has resolved, or None when it is not running
    post,      \* post[p]: the engine request p is about to commit, or None
    seen,      \* seen[x]: the row as request x, or the job, loaded it
    todo, row, phase,  \* the job: merchants to come, the one it is at, its next step
    failures,
    overlapped,  \* history: requests that are not alone with their merchant
    chosen,      \* history: the engine of the last request for m if it was alone
    shadowed     \* history: the day m last came to shadow, -1 before the model begins

flags == <<merchant, chosen, shadowed>>
owner == <<post, overlapped>>
job == <<todo, row, phase, failures>>
world == <<rows, day, run>>
vars == <<flags, owner, job, world, seen>>

Row == [engine : Engines, promoted : BOOLEAN]
NoRow == [engine |-> "exponential", promoted |-> FALSE]

\* The state is of its type.
TypeOK ==
    /\ merchant \in [Merchants -> Row]
    /\ rows \in [Merchants -> SUBSET ((0..MaxDay) \X {"v1", "v2"})]
    /\ day \in 0..MaxDay
    /\ run \in [Runs -> Engines \cup {None}]
    /\ post \in [Posts -> Engines \cup {None}]
    /\ seen \in [Posts \cup {"job"} -> Row]
    /\ todo \subseteq Merchants
    /\ row \in Merchants \cup {None}
    /\ phase \in {"idle", "next", "evaluate", "load", "commit"}
    /\ row = None <=> phase \in {"idle", "next"}
    /\ failures \in 0..MaxFailures
    /\ overlapped \subseteq Posts
    /\ chosen \in [Merchants -> Engines \cup {None}]
    /\ shadowed \in [Merchants -> -1..MaxDay]

Init ==
    /\ merchant = [m \in Merchants |-> [engine |-> Start[m], promoted |-> FALSE]]
    /\ rows = [m \in Merchants |-> {}]
    /\ day = 0
    /\ run = [r \in Runs |-> None]
    /\ post = [p \in Posts |-> None]
    /\ seen = [x \in Posts \cup {"job"} |-> NoRow]
    /\ todo = {} /\ row = None /\ phase = "idle" /\ failures = 0
    /\ overlapped = {}
    /\ chosen = [m \in Merchants |-> None]
    /\ shadowed = [m \in Merchants |-> -1]

\* The row as a commit leaves it: a column that was set to what had been loaded is
\* not written.  The time of a promotion is always a new one.
Flush(now, loaded, e) ==
    [engine   |-> IF e = loaded.engine THEN now.engine ELSE e,
     promoted |-> e = "ensemble" \/ (now.promoted /\ ~loaded.promoted)]

-----------------------------------------------------------------------------
(* A run of the pipeline, as far as it stores forecasts.                   *)

Resolve(m) == IF Override # None THEN Override ELSE merchant[m].engine

\* The engine is resolved once, when the run starts or is queued.
StartRun(r) ==
    /\ run[r] = None
    /\ run' = [run EXCEPT ![r] = Resolve(MerchantOf[r])]
    /\ UNCHANGED <<flags, owner, job, rows, day, seen>>

\* The model versions the forecast of one SKU stores: an ensemble that raises falls
\* back to exponential smoothing, as does the whole run when too many have raised.
Stored(e) ==
    CASE e = "exponential" -> {{"v1"}}
      [] e = "shadow"      -> {{"v1", "v2"}, {"v1"}}
      [] e = "ensemble"    -> {{"v2"}, {"v1"}}

Store(r) ==
    /\ run[r] # None
    /\ \E versions \in Stored(run[r]) :
          rows' = [rows EXCEPT ![MerchantOf[r]] = @ \cup ({day} \X versions)]
    /\ UNCHANGED <<flags, owner, job, day, run, seen>>

EndRun(r) ==
    /\ run[r] # None
    /\ run' = [run EXCEPT ![r] = None]
    /\ UNCHANGED <<flags, owner, job, rows, day, seen>>

-----------------------------------------------------------------------------
(* The owner: set_forecast_engine.                                         *)

InFlight(m) == {p \in Posts : post[p] # None /\ MerchantOf[p] = m}
AtJob(m) == m \in todo \/ m = row

Load(p, e) ==
    LET m == MerchantOf[p] IN
    /\ post[p] = None
    /\ post' = [post EXCEPT ![p] = e]
    /\ seen' = [seen EXCEPT ![p] = merchant[m]]
    /\ overlapped' = IF AtJob(m) \/ InFlight(m) # {}
                        THEN overlapped \cup InFlight(m) \cup {p} ELSE overlapped
    /\ UNCHANGED <<flags, job, world>>

EndPost(p) ==
    /\ post[p] # None
    /\ post' = [post EXCEPT ![p] = None]
    /\ seen' = [seen EXCEPT ![p] = NoRow]
    /\ overlapped' = overlapped \ {p}
    /\ UNCHANGED <<job, world>>

Commit(p) ==
    LET m == MerchantOf[p] IN
    /\ EndPost(p)
    /\ merchant' = [merchant EXCEPT ![m] = Flush(@, seen[p], post[p])]
    /\ chosen' = [chosen EXCEPT ![m] = IF p \in overlapped THEN None ELSE post[p]]
    /\ shadowed' = [shadowed EXCEPT ![m] =
          IF merchant[m].engine # "shadow" /\ merchant'[m].engine = "shadow" THEN day ELSE @]

PostFails(p) == EndPost(p) /\ UNCHANGED flags

-----------------------------------------------------------------------------
(* The daily job: auto_promote_merchants.                                  *)

\* count_shadow_days: the days on which both model versions were stored.
ShadowDays(m) == {d \in 0..day : {<<d, "v1">>, <<d, "v2">>} \subseteq rows[m]}

\* Mutant: more days than the gate asks for.
EnoughDaysLater(m) == Cardinality(ShadowDays(m)) > ShadowMin

EnoughDays(m) == Cardinality(ShadowDays(m)) >= ShadowMin

\* Mutant: the job takes every merchant that is not on ensemble.
ListedNotEnsemble == {m \in Merchants : merchant[m].engine # "ensemble"}

Listed == {m \in Merchants : merchant[m].engine = "shadow"}

StartJob ==
    /\ phase = "idle"
    /\ todo' = Listed /\ phase' = "next"
    /\ overlapped' = overlapped \cup UNION {InFlight(m) : m \in Listed}
    /\ UNCHANGED <<flags, world, post, row, failures, seen>>

Take(m) ==
    /\ phase = "next" /\ m \in todo
    /\ todo' = todo \ {m} /\ row' = m /\ phase' = "evaluate"
    /\ UNCHANGED <<flags, owner, world, failures, seen>>

\* evaluate_merchant and build_gates: the days decide, and what the replay of the
\* merchant's sales says of the other gates, which is either.
Pass ==
    /\ phase = "evaluate" /\ phase' = "load"
    /\ EnoughDays(row) /\ row \in Cohort
    /\ UNCHANGED <<flags, owner, world, todo, row, failures, seen>>

Blocked ==
    /\ phase = "evaluate" /\ phase' = "next" /\ row' = None
    /\ UNCHANGED <<flags, owner, world, todo, failures, seen>>

\* _flip_engine, whose session takes the row as it is now.
FlipLoad ==
    /\ phase = "load" /\ phase' = "commit"
    /\ seen' = [seen EXCEPT !["job"] = merchant[row]]
    /\ UNCHANGED <<flags, owner, world, todo, row, failures>>

FlipCommit ==
    /\ phase = "commit" /\ phase' = "next" /\ row' = None
    /\ merchant' = [merchant EXCEPT ![row] = Flush(@, seen["job"], "ensemble")]
    /\ seen' = [seen EXCEPT !["job"] = NoRow]
    /\ UNCHANGED <<chosen, shadowed, owner, world, todo, failures>>

EndJob ==
    /\ phase = "next" /\ todo = {}
    /\ phase' = "idle"
    /\ UNCHANGED <<flags, owner, world, todo, row, failures, seen>>

\* Mutant: the merchant at hand is kept when the job ends early.
JobFailsKeepsRow ==
    /\ phase # "idle" /\ failures < MaxFailures
    /\ todo' = {} /\ phase' = "idle"
    /\ failures' = failures + 1
    /\ seen' = [seen EXCEPT !["job"] = NoRow]
    /\ UNCHANGED <<flags, owner, world, row>>

\* Nothing in the job catches an error: the merchants to come wait for tomorrow.
JobFails ==
    /\ phase # "idle" /\ failures < MaxFailures
    /\ todo' = {} /\ row' = None /\ phase' = "idle"
    /\ failures' = failures + 1
    /\ seen' = [seen EXCEPT !["job"] = NoRow]
    /\ UNCHANGED <<flags, owner, world>>

-----------------------------------------------------------------------------
(* The whole.                                                              *)

Tomorrow ==
    /\ day < MaxDay /\ day' = day + 1
    /\ UNCHANGED <<flags, owner, job, rows, run, seen>>

Job ==
    \/ StartJob \/ (\E m \in Merchants : Take(m))
    \/ Pass \/ Blocked \/ FlipLoad \/ FlipCommit \/ EndJob

Next ==
    \/ \E r \in Runs : StartRun(r) \/ Store(r) \/ EndRun(r)
    \/ \E p \in Posts : (\E e \in Asks[p] : Load(p, e)) \/ Commit(p) \/ PostFails(p)
    \/ Job
    \/ JobFails
    \/ Tomorrow

Spec == Init /\ [][Next]_vars

\* The scheduler keeps starting the job, and the job, once started, keeps running.  A
\* merchant that is evaluated again and again does not fail the other gates for ever.
FairSpec == Spec /\ WF_vars(Job) /\ \A m \in Merchants : SF_vars(Pass /\ row = m)

-----------------------------------------------------------------------------

\* The engine an owner chose is the merchant's engine until the owner chooses again or
\* the job promotes the merchant from shadow, and the row says promoted exactly when it
\* is on ensemble.  This holds of a choice that was alone with its merchant: one that
\* met the job or another request may be lost.
ChoiceStands ==
    \A m \in Merchants : chosen[m] # None =>
        /\ \/ merchant[m].engine = chosen[m]
           \/ chosen[m] = "shadow" /\ merchant[m].engine = "ensemble"
        /\ merchant[m].promoted <=> merchant[m].engine = "ensemble"

\* A merchant does not stay on shadow for ever with enough days since it came there, though
\* an error at one merchant ends the job for those that come after it.  The job counts days
\* of any age, but docs/FORECAST-ENGINE-RUNBOOK.md:126 has it that whoever sets a merchant
\* back to shadow restarts the measurement, so older days give no claim to a promotion.
EligibleArePromoted ==
    \A m \in Cohort :
        LET since == {d \in ShadowDays(m) : d > shadowed[m]} IN
        []<>~(merchant[m].engine = "shadow" /\ Cardinality(since) >= ShadowMin)
=============================================================================
