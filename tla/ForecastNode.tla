---------------------------- MODULE ForecastNode ----------------------------
(***************************************************************************)
(* forecast_node: a run forecasts all its SKUs at once, each through the   *)
(* cache, Prophet behind its circuit breaker, the ensemble, and the        *)
(* forecasts table, within twelve seconds.  When too many fail the run is  *)
(* forecast again with the first version.                                  *)
(*                                                                         *)
(* What a forecast amounts to is in Demand; to a run it is only which      *)
(* version it is.  Runs go on at the same time, each followed by others.   *)
(***************************************************************************)
EXTENDS Engines, Fractions

CONSTANTS
    Skus,
    Eligible,      \* SKUs with enough history for Prophet
    Threshold,     \* forecast_circuit_threshold, a fraction of the SKUs
    ProphetLimit   \* CIRCUIT_FAILURE_THRESHOLD, 5

ASSUME ForecastNodeAssumption ==
    /\ IsFiniteSet(Skus) /\ IsFiniteSet(Runs)
    /\ Skus # {}
    /\ Eligible \subseteq Skus
    /\ ProphetLimit \in Nat \ {0}
    /\ None \notin [version: {"v1", "v2", "fallback"}, row: BOOLEAN]

VARIABLES
    pc,            \* pc[r]: where run r is
    engine,        \* engine[r]: the engine it forecasts with
    tripped,       \* tripped[r]: whether its circuit breaker has tripped
    jobs,          \* jobs[r][s]: where its forecast of s is
    result,        \* result[r][s]: that forecast, if any
    cache,         \* forecast_cache: a forecast by its key
    fit_failures,  \* _failures of Prophet's breaker
    open,          \* whether Prophet's breaker is open
    wasted         \* history: fits that failed since one succeeded or the breaker closed

prophet == <<fit_failures, open, wasted>>
progress == <<pc, engine, tripped>>
node == <<progress, jobs, result, cache, prophet>>

Results == [version: {"v1", "v2", "fallback"}, row: BOOLEAN] \cup {None}
Busy == {"get", "try", "fit", "build", "persist", "keep"}
Jobs == Runs \X Skus

\* The key of the cache, but for the horizon, which never changes.
Key(s, e) == <<s, e>>
Keys == Skus \X Engines

\* The state is of its type; an outage of Prophet costs its limit and the fits that were
\* under way when it was reached, not a fit for every SKU (ProphetCircuitBreaker).
NodeTypeOK ==
    /\ pc \in [Runs -> {"idle", "first", "second", "done", "failed"}]
    /\ engine \in [Runs -> Engines]
    /\ tripped \in [Runs -> BOOLEAN]
    /\ jobs \in [Runs -> [Skus -> {"idle", "over"} \cup Busy]]
    /\ result \in [Runs -> [Skus -> Results]]
    /\ cache \in [Keys -> Results]
    /\ fit_failures \in 0..(ProphetLimit - 1)
    /\ open \in BOOLEAN
    /\ wasted \in 0..(ProphetLimit + Cardinality(Jobs) - 1)

\* No run since the process has started.
Unused ==
    /\ pc = [r \in Runs |-> "idle"]
    /\ engine = [r \in Runs |-> "exponential"]
    /\ tripped = [r \in Runs |-> FALSE]
    /\ jobs = [r \in Runs |-> [s \in Skus |-> "idle"]]
    /\ result = [r \in Runs |-> [s \in Skus |-> None]]
    /\ cache = [k \in Keys |-> None]
    /\ fit_failures = 0 /\ open = FALSE /\ wasted = 0

-----------------------------------------------------------------------------
(* A run.                                                                  *)

Gather(r) ==
    /\ jobs' = [jobs EXCEPT ![r] = [s \in Skus |-> "get"]]
    /\ result' = [result EXCEPT ![r] = [s \in Skus |-> None]]

\* A run that has left its jobs behind does not count as over before they are.
Rested(r) == \A s \in Skus : jobs[r][s] \notin Busy

Begin(r) ==
    /\ pc[r] \in {"idle", "done", "failed"} /\ Rested(r)
    /\ \E e \in Engines : engine' = [engine EXCEPT ![r] = e]
    /\ pc' = [pc EXCEPT ![r] = "first"]
    /\ tripped' = [tripped EXCEPT ![r] = FALSE]
    /\ Gather(r)
    /\ UNCHANGED <<cache, prophet>>

\* Mutant: a fallback is as good as a forecast.
FailuresMissing(r) == {s \in Skus : result[r][s] = None}

\* The SKUs without a forecast or with a fallback, however old that is.
Failures(r) ==
    {s \in Skus : result[r][s] = None \/ result[r][s].version = "fallback"}

TooMany(r) ==
    /\ engine[r] = "ensemble"
    /\ Less(Threshold, Frac(Cardinality(Failures(r)), Cardinality(Skus)))

Trip(r) ==
    /\ pc[r] = "first" /\ Rested(r)
    /\ TooMany(r)
    /\ pc' = [pc EXCEPT ![r] = "second"]
    /\ engine' = [engine EXCEPT ![r] = "exponential"]
    /\ tripped' = [tripped EXCEPT ![r] = TRUE]
    /\ Gather(r)
    /\ UNCHANGED <<cache, prophet>>

Finish(r) ==
    /\ pc[r] \in {"first", "second"} /\ Rested(r)
    /\ ~ TooMany(r)
    /\ pc' = [pc EXCEPT ![r] = "done"]
    /\ UNCHANGED <<engine, tripped, jobs, result, cache, prophet>>

-----------------------------------------------------------------------------
(* One SKU of a run: _forecast_one and calculate_forecast.                 *)

Move(r, s, from, to) == jobs[r][s] = from /\ jobs' = [jobs EXCEPT ![r][s] = to]

Forecast(r, s, version) ==
    result' = [result EXCEPT ![r][s] = [version |-> version, row |-> FALSE]]

\* The cache knows the forecast of this engine.
Hit(r, s) ==
    LET cached == cache[Key(s, engine[r])]
    IN  /\ cached # None
        /\ Move(r, s, "get", "over")
        /\ result' = [result EXCEPT ![r][s] = cached]
        /\ UNCHANGED <<progress, cache, prophet>>

Miss(r, s) ==
    /\ cache[Key(s, engine[r])] = None
    /\ IF engine[r] = "exponential"
       THEN Move(r, s, "get", "persist") /\ Forecast(r, s, "v1")
       ELSE Move(r, s, "get", IF s \in Eligible THEN "try" ELSE "build") /\ UNCHANGED result
    /\ UNCHANGED <<progress, cache, prophet>>

\* Mutant: the breaker is not asked.
TryProphetAlways(r, s) ==
    /\ Move(r, s, "try", "fit")
    /\ UNCHANGED <<progress, result, cache, prophet>>

\* try_prophet asks its breaker.
TryProphet(r, s) ==
    /\ Move(r, s, "try", IF open THEN "build" ELSE "fit")
    /\ UNCHANGED <<progress, result, cache, prophet>>

\* record_success, also when the breaker was opened meanwhile
FitSucceeds(r, s) ==
    /\ Move(r, s, "fit", "build")
    /\ fit_failures' = 0 /\ open' = FALSE /\ wasted' = 0
    /\ UNCHANGED <<progress, result, cache>>

\* record_failure: a fit raises or takes more than five seconds.
FitFails(r, s) ==
    /\ Move(r, s, "fit", "build")
    /\ fit_failures' = (fit_failures + 1) % ProphetLimit
    /\ open' = (open \/ fit_failures + 1 = ProphetLimit)
    /\ wasted' = wasted + 1
    /\ UNCHANGED <<progress, result, cache>>

\* The ensemble is built, or raises: then the first version is the fallback.
Build(r, s) ==
    /\ Move(r, s, "build", "persist")
    /\ \E version \in {IF engine[r] = "shadow" THEN "v1" ELSE "v2", "fallback"} :
          Forecast(r, s, version)
    /\ UNCHANGED <<progress, cache, prophet>>

Persist(r, s) ==
    /\ Move(r, s, "persist", "keep")
    /\ result' = [result EXCEPT ![r][s].row = TRUE]
    /\ UNCHANGED <<progress, cache, prophet>>

\* It waits for the sales history, or for its row to be written.
AtDatabase(r, s) ==
    \/ jobs[r][s] = "get" /\ cache[Key(s, engine[r])] = None
    \/ jobs[r][s] = "persist"

\* No forecast; a row may just have been written.
Drop(r, s) ==
    /\ jobs' = [jobs EXCEPT ![r][s] = "over"]
    /\ result' = [result EXCEPT ![r][s] = None]

\* A database error ends the run; its other jobs go on.
DatabaseFails(r, s) ==
    /\ AtDatabase(r, s)
    /\ Drop(r, s)
    /\ pc' = [pc EXCEPT ![r] = "failed"]
    /\ UNCHANGED <<engine, tripped, cache, prophet>>

Keep(r, s) ==
    /\ Move(r, s, "keep", "over")
    /\ cache' = [cache EXCEPT ![Key(s, engine[r])] = result[r][s]]
    /\ UNCHANGED <<progress, result, prophet>>

\* Twelve seconds are over.
TimeOut(r, s) ==
    /\ AtDatabase(r, s) \/ jobs[r][s] = "fit"
    /\ Drop(r, s)
    /\ UNCHANGED <<progress, cache, prophet>>

Forecasts(r, s) ==
    \/ Hit(r, s) \/ Miss(r, s) \/ TryProphet(r, s) \/ FitSucceeds(r, s) \/ FitFails(r, s)
    \/ Build(r, s) \/ Persist(r, s) \/ Keep(r, s) \/ DatabaseFails(r, s) \/ TimeOut(r, s)

-----------------------------------------------------------------------------
\* An entry is ten minutes old, or makes room for others (TTLCache).
Expire ==
    /\ \E k \in Keys : cache[k] # None /\ cache' = [cache EXCEPT ![k] = None]
    /\ UNCHANGED <<progress, jobs, result, prophet>>

\* Five minutes are over.
CoolDown ==
    /\ open
    /\ open' = FALSE /\ wasted' = 0
    /\ UNCHANGED <<progress, jobs, result, cache, fit_failures>>

Operate ==
    \/ \E r \in Runs :
          \/ Begin(r) \/ Trip(r) \/ Finish(r)
          \/ \E s \in Skus : Forecasts(r, s)
    \/ Expire \/ CoolDown

Running == Unused /\ [][Operate]_node

-----------------------------------------------------------------------------
(* Properties of the runs.                                                 *)

\* What a run passes on is what its engine promises: after a trip, and without the
\* ensemble, first versions only, whatever is cached; with the ensemble, all its own
\* but for the share that may fail; and every forecast has a row in forecasts, where it
\* can be looked up, though rows could not be written and runs failed half-way
\* (forecast_node, _persist_async).
RunIsHonest ==
    \A r \in Runs : pc[r] = "done" =>
        LET versions == {s \in Skus : result[r][s] # None /\ result[r][s].version = "v2"}
        IN  /\ \A s \in Skus : result[r][s] # None => result[r][s].row
            /\ IF engine[r] = "ensemble"
               THEN /\ ~ tripped[r]
                    /\ AtMost(Frac(Cardinality(Skus \ versions), Cardinality(Skus)), Threshold)
               ELSE versions = {}
=============================================================================
