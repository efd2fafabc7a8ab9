--------------------------- MODULE ForecastProofs ---------------------------
(***************************************************************************)
(* Theorems about the engines merchants forecast with: for any merchants,  *)
(* runs and requests, the types, and that an owner's choice stands when    *)
(* its request was alone with the merchant's row (ForecastEngine); for any *)
(* runs and SKUs, that an outage of Prophet costs few fits, and that a run *)
(* passes on what its engine promises (ForecastNode); and for any history  *)
(* of sales, that a SKU which sells little is forecast neither nothing nor *)
(* more than on its best day (Forecasting).                                *)
(***************************************************************************)
EXTENDS ForecastEngine, Forecasting, FiniteSetTheorems, WellFoundedInduction, TLAPS

-----------------------------------------------------------------------------
(* The choice of an engine.                                                *)

\* A request that is alone would overwrite the very row it has loaded.
AloneSeesRow ==
    \A p \in Posts : post[p] # None /\ p \notin overlapped =>
        seen[p] = merchant[MerchantOf[p]]

\* Alone means alone: no request to the same merchant, and not in the job's hands.
AloneIsAlone ==
    \A p \in Posts : post[p] # None /\ p \notin overlapped =>
        /\ ~AtJob(MerchantOf[p])
        /\ \A q \in Posts \ {p} : MerchantOf[q] = MerchantOf[p] => post[q] = None

\* A choice that still counts when the job has the merchant in hand is "shadow", and
\* the job will overwrite the very row it has loaded.
JobSeesShadow ==
    \A m \in Merchants : AtJob(m) /\ chosen[m] # None =>
        /\ chosen[m] = "shadow" /\ merchant[m].engine = "shadow"
        /\ m = row /\ phase = "commit" => seen["job"] = merchant[m]

IInv ==
    /\ TypeOK /\ row \notin todo /\ (phase = "idle" => todo = {})
    /\ AloneSeesRow /\ AloneIsAlone /\ JobSeesShadow /\ ChoiceStands

\* Committing a row nobody has changed since it was loaded stores just what was asked.
LEMMA FlushOfLoaded ==
    ASSUME NEW now \in Row, NEW e \in Engines
    PROVE  Flush(now, now, e) = [engine |-> e, promoted |-> e = "ensemble"]
BY DEF Flush, Row, Engines

LEMMA FlushType ==
    ASSUME NEW now \in Row, NEW loaded \in Row, NEW e \in Engines
    PROVE  Flush(now, loaded, e) \in Row
BY DEF Flush, Row, Engines

LEMMA InitIInv == Init => IInv
<1> SUFFICES ASSUME Init PROVE IInv
  OBVIOUS
<1>1. TypeOK
  <2>1. 0 \in 0..MaxDay /\ 0 \in 0..MaxFailures /\ -1 \in -1..MaxDay
    BY ForecastEngineAssumption
  <2>2. QED
    BY <2>1, ForecastEngineAssumption DEF Init, TypeOK, Row, NoRow, Engines
<1>2. row \notin todo /\ (phase = "idle" => todo = {})
  BY DEF Init
<1>3. AloneSeesRow /\ AloneIsAlone /\ JobSeesShadow /\ ChoiceStands
  BY ForecastEngineAssumption
     DEF Init, AloneSeesRow, AloneIsAlone, JobSeesShadow, ChoiceStands, AtJob
<1>4. QED
  BY <1>1, <1>2, <1>3 DEF IInv

-----------------------------------------------------------------------------
(* Steps that no one's choice depends on: runs and days.                   *)

\* What the invariant speaks of, apart from the types.
core == <<merchant, chosen, owner, seen, todo, row, phase>>

LEMMA CoreUnchanged ==
    ASSUME IInv, TypeOK', UNCHANGED core
    PROVE  IInv'
BY DEF IInv, core, owner, AloneSeesRow, AloneIsAlone, JobSeesShadow, ChoiceStands, AtJob

LEMMA RunKeepsIInv ==
    ASSUME IInv, NEW r \in Runs, StartRun(r) \/ Store(r) \/ EndRun(r)
    PROVE  IInv'
<1> USE ForecastEngineAssumption
<1>1. TypeOK /\ MerchantOf[r] \in Merchants
  BY DEF IInv
<1>2. UNCHANGED core
  BY DEF StartRun, Store, EndRun, core, flags, owner, job
<1>3. CASE StartRun(r)
  <2>1. Resolve(MerchantOf[r]) \in Engines
    BY <1>1 DEF Resolve, TypeOK, Row, Engines
  <2>2. TypeOK'
    BY <1>1, <1>3, <2>1 DEF StartRun, TypeOK, flags, owner, job
  <2>3. QED
    BY <1>2, <2>2, CoreUnchanged
<1>4. CASE Store(r)
  <2>1. run[r] \in Engines
    BY <1>1, <1>4 DEF Store, TypeOK
  <2>2. \A v \in Stored(run[r]) : {day} \X v \subseteq (0..MaxDay) \X {"v1", "v2"}
    BY <1>1, <2>1 DEF Stored, TypeOK, Engines
  <2>3. rows' \in [Merchants -> SUBSET ((0..MaxDay) \X {"v1", "v2"})]
    <3>1. PICK v \in Stored(run[r]) :
             rows' = [rows EXCEPT ![MerchantOf[r]] = @ \cup ({day} \X v)]
      BY <1>4 DEF Store
    <3>2. {day} \X v \subseteq (0..MaxDay) \X {"v1", "v2"}
      BY <2>2
    <3>3. rows \in [Merchants -> SUBSET ((0..MaxDay) \X {"v1", "v2"})]
      BY <1>1 DEF TypeOK
    <3>4. QED
      BY <3>1, <3>2, <3>3
  <2>4. TypeOK'
    BY <1>1, <1>4, <2>3 DEF Store, TypeOK, flags, owner, job
  <2>5. QED
    BY <1>2, <2>4, CoreUnchanged
<1>5. CASE EndRun(r)
  <2>1. TypeOK'
    BY <1>1, <1>5 DEF EndRun, TypeOK, flags, owner, job
  <2>2. QED
    BY <1>2, <2>1, CoreUnchanged
<1>6. QED
  BY <1>3, <1>4, <1>5

LEMMA TomorrowKeepsIInv ==
    ASSUME IInv, Tomorrow
    PROVE  IInv'
<1>1. TypeOK'
  <2>1. TypeOK /\ day + 1 \in 0..MaxDay
    BY ForecastEngineAssumption DEF IInv, TypeOK, Tomorrow
  <2>2. QED
    BY <2>1, ForecastEngineAssumption DEF TypeOK, Tomorrow, flags, owner, job
<1>2. UNCHANGED core
  BY DEF Tomorrow, core, flags, owner, job
<1>3. QED
  BY <1>1, <1>2, CoreUnchanged

-----------------------------------------------------------------------------
(* The owner's requests.                                                   *)

LEMMA LoadKeepsIInv ==
    ASSUME IInv, NEW p \in Posts, NEW e \in Asks[p], Load(p, e)
    PROVE  IInv'
<1> DEFINE m == MerchantOf[p]
<1> USE ForecastEngineAssumption
<1>1. m \in Merchants /\ e \in Engines /\ p # "job" /\ e # None
  OBVIOUS
<1>2. TypeOK'
  BY <1>1 DEF IInv, TypeOK, Load, InFlight, flags, job, world
<1>3. /\ UNCHANGED <<merchant, chosen, todo, row, phase>>
      /\ seen' = [seen EXCEPT ![p] = merchant[m]]
      /\ post' = [post EXCEPT ![p] = e]
      /\ post[p] = None
  BY DEF Load, flags, job
<1>4. /\ overlapped \subseteq overlapped'
      /\ AtJob(m) \/ InFlight(m) # {} => InFlight(m) \cup {p} \subseteq overlapped'
  BY DEF Load
<1>5. seen \in [Posts \cup {"job"} -> Row] /\ post \in [Posts -> Engines \cup {None}]
  BY DEF IInv, TypeOK
<1>6. AloneSeesRow'
  BY <1>1, <1>3, <1>4, <1>5 DEF IInv, AloneSeesRow
<1>7. AloneIsAlone'
  <2> SUFFICES ASSUME NEW q \in Posts, post'[q] # None, q \notin overlapped'
               PROVE  /\ ~AtJob(MerchantOf[q])'
                      /\ \A s \in Posts \ {q} :
                            MerchantOf[s] = MerchantOf[q] => post'[s] = None
    BY DEF AloneIsAlone
  <2>1. CASE q = p
    <3>1. ~AtJob(m) /\ InFlight(m) = {}
      BY <1>4, <2>1
    <3>2. QED
      BY <1>3, <1>5, <2>1, <3>1 DEF InFlight, AtJob
  <2>2. CASE q # p
    <3>1. post[q] # None /\ q \notin overlapped
      BY <1>3, <1>4, <1>5, <2>2
    <3>2. MerchantOf[q] # m
      BY <1>4, <3>1 DEF InFlight
    <3>3. QED
      BY <1>3, <1>5, <2>2, <3>1, <3>2 DEF IInv, AloneIsAlone, AtJob
  <2>3. QED
    BY <2>1, <2>2
<1>8. JobSeesShadow' /\ ChoiceStands'
  BY <1>1, <1>3, <1>5 DEF IInv, JobSeesShadow, ChoiceStands, AtJob
<1>9. (row \notin todo /\ (phase = "idle" => todo = {}))'
  BY <1>3 DEF IInv
<1>10. QED
  BY <1>2, <1>6, <1>7, <1>8, <1>9 DEF IInv

\* The end of a request, whatever it commits, as far as the requests go.
LEMMA EndPostKeepsAlone ==
    ASSUME IInv, NEW p \in Posts, EndPost(p)
    PROVE  /\ AloneIsAlone'
           /\ \A q \in Posts : post'[q] # None /\ q \notin overlapped' =>
                 q # p /\ post[q] # None /\ q \notin overlapped /\ seen'[q] = seen[q]
           /\ seen'["job"] = seen["job"]
<1> USE ForecastEngineAssumption
<1>1. /\ seen \in [Posts \cup {"job"} -> Row]
      /\ post \in [Posts -> Engines \cup {None}]
      /\ AloneIsAlone
  BY DEF IInv, TypeOK
<1>2. /\ post' = [post EXCEPT ![p] = None]
      /\ seen' = [seen EXCEPT ![p] = NoRow]
      /\ overlapped' = overlapped \ {p}
      /\ UNCHANGED <<todo, row, phase>>
  BY DEF EndPost, job
<1>3. \A q \in Posts : post'[q] # None /\ q \notin overlapped' =>
         q # p /\ post[q] # None /\ q \notin overlapped /\ seen'[q] = seen[q]
  BY <1>1, <1>2
<1>4. AloneIsAlone'
  BY <1>1, <1>2, <1>3 DEF AloneIsAlone, AtJob
<1>5. QED
  BY <1>1, <1>2, <1>3, <1>4

LEMMA CommitKeepsIInv ==
    ASSUME IInv, NEW p \in Posts, Commit(p)
    PROVE  IInv'
<1> DEFINE m == MerchantOf[p]
<1> USE ForecastEngineAssumption
<1>1. /\ TypeOK /\ m \in Merchants
      /\ post[p] # None /\ post[p] \in Engines
      /\ merchant[m] \in Row /\ seen[p] \in Row
  BY DEF IInv, TypeOK, Commit, EndPost
<1>2. /\ merchant' = [merchant EXCEPT ![m] = Flush(merchant[m], seen[p], post[p])]
      /\ chosen' = [chosen EXCEPT ![m] = IF p \in overlapped THEN None ELSE post[p]]
      /\ UNCHANGED <<todo, row, phase>>
      /\ EndPost(p)
  BY DEF Commit, EndPost, job
<1>3. TypeOK'
  <2>1. Flush(merchant[m], seen[p], post[p]) \in Row
    BY <1>1, FlushType
  <2>2. shadowed' \in [Merchants -> -1..MaxDay]
    <3>1. day \in -1..MaxDay /\ shadowed \in [Merchants -> -1..MaxDay]
      BY <1>1 DEF TypeOK
    <3>2. QED
      BY <1>1, <3>1 DEF Commit
  <2>3. /\ merchant' \in [Merchants -> Row]
        /\ chosen' \in [Merchants -> Engines \cup {None}]
    BY <1>1, <1>2, <2>1 DEF TypeOK
  <2>4. QED
    BY <1>1, <1>2, <2>2, <2>3 DEF TypeOK, EndPost, NoRow, Row, Engines, job, world
<1>4. \A n \in Merchants \ {m} : merchant'[n] = merchant[n] /\ chosen'[n] = chosen[n]
  BY <1>1, <1>2 DEF TypeOK
<1>5. p \notin overlapped => /\ merchant'[m].engine = chosen'[m]
                             /\ merchant'[m].promoted <=> merchant'[m].engine = "ensemble"
                             /\ ~AtJob(m)
  <2> SUFFICES ASSUME p \notin overlapped
               PROVE  /\ merchant'[m].engine = chosen'[m]
                      /\ merchant'[m].promoted <=> merchant'[m].engine = "ensemble"
                      /\ ~AtJob(m)
    OBVIOUS
  <2>1. seen[p] = merchant[m] /\ ~AtJob(m)
    BY <1>1 DEF IInv, AloneSeesRow, AloneIsAlone
  <2>2. Flush(merchant[m], seen[p], post[p])
           = [engine |-> post[p], promoted |-> post[p] = "ensemble"]
    BY <1>1, <2>1, FlushOfLoaded
  <2>3. merchant'[m] = [engine |-> post[p], promoted |-> post[p] = "ensemble"]
        /\ chosen'[m] = post[p]
    BY <1>1, <1>2, <2>2 DEF TypeOK
  <2>4. /\ merchant'[m].engine = post[p]
        /\ merchant'[m].promoted = (post[p] = "ensemble")
    BY <2>3
  <2>5. QED
    BY <2>1, <2>3, <2>4, Zenon
<1>6. p \in overlapped => chosen'[m] = None
  BY <1>1, <1>2 DEF TypeOK
<1>7. ChoiceStands'
  BY <1>4, <1>5, <1>6 DEF IInv, ChoiceStands
<1>8. JobSeesShadow'
  BY <1>2, <1>4, <1>5, <1>6, EndPostKeepsAlone DEF IInv, JobSeesShadow, AtJob
<1>9. AloneSeesRow'
  <2> SUFFICES ASSUME NEW q \in Posts, post'[q] # None, q \notin overlapped'
               PROVE  seen'[q] = merchant'[MerchantOf[q]]
    BY DEF AloneSeesRow
  <2>1. q # p /\ post[q] # None /\ q \notin overlapped /\ seen'[q] = seen[q]
    BY <1>2, EndPostKeepsAlone
  <2>2. MerchantOf[q] # m
    BY <1>1, <2>1 DEF IInv, AloneIsAlone
  <2>3. QED
    BY <1>4, <2>1, <2>2 DEF IInv, AloneSeesRow
<1>10. AloneIsAlone'
  BY <1>2, EndPostKeepsAlone
<1>11. QED
  BY <1>2, <1>3, <1>7, <1>8, <1>9, <1>10 DEF IInv

LEMMA PostFailsKeepsIInv ==
    ASSUME IInv, NEW p \in Posts, PostFails(p)
    PROVE  IInv'
<1> USE ForecastEngineAssumption
<1>1. UNCHANGED <<merchant, chosen, shadowed, todo, row, phase, failures, world>> /\ EndPost(p)
  BY DEF PostFails, EndPost, flags, job
<1>2. TypeOK'
  BY <1>1 DEF IInv, TypeOK, EndPost, NoRow, Row, Engines, world
<1>3. AloneIsAlone' /\ AloneSeesRow'
  BY <1>1, EndPostKeepsAlone DEF IInv, AloneSeesRow
<1>4. JobSeesShadow' /\ ChoiceStands'
  BY <1>1, EndPostKeepsAlone DEF IInv, JobSeesShadow, ChoiceStands, AtJob
<1>5. QED
  BY <1>1, <1>2, <1>3, <1>4 DEF IInv

-----------------------------------------------------------------------------
(* The job.                                                                *)

LEMMA StartJobKeepsIInv ==
    ASSUME IInv, StartJob
    PROVE  IInv'
<1> USE ForecastEngineAssumption
<1>1. /\ UNCHANGED <<merchant, chosen, post, row, seen>>
      /\ todo' = Listed /\ phase' = "next" /\ row = None
      /\ overlapped' = overlapped \cup UNION {InFlight(m) : m \in Listed}
  BY DEF IInv, TypeOK, StartJob, flags
<1>2. TypeOK'
  BY DEF IInv, TypeOK, StartJob, Listed, InFlight, flags, world
<1>3. (row \notin todo)'
  BY <1>1 DEF Listed
<1>4. AloneSeesRow'
  BY <1>1 DEF IInv, AloneSeesRow
<1>5. AloneIsAlone'
  <2> SUFFICES ASSUME NEW q \in Posts, post'[q] # None, q \notin overlapped'
               PROVE  /\ ~AtJob(MerchantOf[q])'
                      /\ \A s \in Posts \ {q} :
                            MerchantOf[s] = MerchantOf[q] => post'[s] = None
    BY DEF AloneIsAlone
  <2>1. MerchantOf[q] \notin Listed
    BY <1>1 DEF InFlight
  <2>2. MerchantOf[q] # row
    BY <1>1
  <2>3. QED
    BY <1>1, <2>1, <2>2 DEF IInv, AloneIsAlone, AtJob
<1>6. JobSeesShadow' /\ ChoiceStands'
  <2>1. \A m \in Merchants : AtJob(m)' => merchant[m].engine = "shadow"
    BY <1>1 DEF AtJob, Listed
  <2>2. QED
    BY <1>1, <2>1 DEF IInv, ChoiceStands, JobSeesShadow
<1>7. QED
  BY <1>1, <1>2, <1>3, <1>4, <1>5, <1>6 DEF IInv

LEMMA JobReadsKeepIInv ==
    ASSUME IInv, \/ \E m \in Merchants : Take(m)
                 \/ Pass \/ Blocked \/ FlipLoad \/ EndJob \/ JobFails
    PROVE  IInv'
<1> USE ForecastEngineAssumption
<1>1. /\ UNCHANGED <<merchant, chosen, post, overlapped>>
      /\ \A p \in Posts : seen'[p] = seen[p]
      /\ \A m \in Merchants : AtJob(m)' => AtJob(m)
      /\ \A m \in Merchants : m = row' /\ phase' = "commit" => seen'["job"] = merchant[m]
      /\ (row \notin todo)' /\ (phase = "idle" => todo = {})'
      /\ TypeOK'
  <2>1. TypeOK /\ row \notin todo /\ (phase = "idle" => todo = {})
    BY DEF IInv
  <2>2. CASE \E m \in Merchants : Take(m)
    BY <2>1, <2>2 DEF Take, TypeOK, AtJob, flags, owner, world
  <2>3. CASE Pass
    BY <2>1, <2>3 DEF Pass, TypeOK, AtJob, flags, owner, world
  <2>4. CASE Blocked
    BY <2>1, <2>4 DEF Blocked, TypeOK, AtJob, flags, owner, world
  <2>5. CASE FlipLoad
    BY <2>1, <2>5 DEF FlipLoad, TypeOK, AtJob, flags, owner, world
  <2>6. CASE EndJob
    BY <2>1, <2>6 DEF EndJob, TypeOK, AtJob, flags, owner, world
  <2>7. CASE JobFails
    BY <2>1, <2>7 DEF JobFails, TypeOK, AtJob, NoRow, Row, Engines, flags, owner, world
  <2>8. QED
    BY <2>2, <2>3, <2>4, <2>5, <2>6, <2>7
<1>2. AloneSeesRow' /\ AloneIsAlone'
  BY <1>1 DEF IInv, AloneSeesRow, AloneIsAlone
<1>3. JobSeesShadow' /\ ChoiceStands'
  BY <1>1 DEF IInv, JobSeesShadow, ChoiceStands
<1>4. QED
  BY <1>1, <1>2, <1>3 DEF IInv

LEMMA FlipCommitKeepsIInv ==
    ASSUME IInv, FlipCommit
    PROVE  IInv'
<1> USE ForecastEngineAssumption
<1>1. /\ TypeOK /\ row \in Merchants /\ row \notin todo
      /\ merchant[row] \in Row /\ seen["job"] \in Row /\ "ensemble" \in Engines
  BY DEF IInv, TypeOK, FlipCommit, Engines
<1>2. /\ merchant' = [merchant EXCEPT ![row] = Flush(merchant[row], seen["job"], "ensemble")]
      /\ seen' = [seen EXCEPT !["job"] = NoRow]
      /\ phase = "commit" /\ phase' = "next" /\ row' = None
      /\ UNCHANGED <<chosen, post, overlapped, todo>>
  BY DEF FlipCommit, owner
<1>3. TypeOK'
  <2>1. Flush(merchant[row], seen["job"], "ensemble") \in Row
    BY <1>1, FlushType
  <2>2. QED
    BY <1>1, <2>1 DEF FlipCommit, TypeOK, NoRow, Row, Engines, owner, world
<1>4. \A n \in Merchants \ {row} : merchant'[n] = merchant[n]
  BY <1>1, <1>2 DEF TypeOK
<1>5. \A p \in Posts : seen'[p] = seen[p]
  BY <1>1, <1>2 DEF TypeOK
<1>6. \A n \in Merchants : AtJob(n)' => n # row /\ AtJob(n)
  BY <1>1, <1>2 DEF AtJob
<1>7. AloneSeesRow'
  BY <1>1, <1>2, <1>4, <1>5 DEF IInv, AloneSeesRow, AloneIsAlone, AtJob
<1>8. AloneIsAlone'
  BY <1>2, <1>6 DEF IInv, AloneIsAlone
<1>9. JobSeesShadow'
  BY <1>2, <1>4, <1>6 DEF IInv, JobSeesShadow
<1>10. chosen[row] # None => /\ chosen[row] = "shadow"
                            /\ merchant'[row].engine = "ensemble"
                            /\ merchant'[row].promoted
  <2> SUFFICES ASSUME chosen[row] # None
               PROVE  /\ chosen[row] = "shadow"
                      /\ merchant'[row] = [engine |-> "ensemble", promoted |-> TRUE]
    OBVIOUS
  <2>1. chosen[row] = "shadow" /\ seen["job"] = merchant[row]
    BY <1>1, <1>2 DEF IInv, JobSeesShadow, AtJob
  <2>2. Flush(merchant[row], seen["job"], "ensemble") = [engine |-> "ensemble", promoted |-> TRUE]
    BY <1>1, <2>1, FlushOfLoaded
  <2>3. QED
    BY <1>1, <1>2, <2>1, <2>2 DEF TypeOK
<1>11. ChoiceStands'
  BY <1>2, <1>4, <1>10 DEF IInv, ChoiceStands
<1>12. (row \notin todo /\ (phase = "idle" => todo = {}))'
  BY <1>1, <1>2 DEF TypeOK
<1>13. QED
  BY <1>3, <1>7, <1>8, <1>9, <1>11, <1>12 DEF IInv

-----------------------------------------------------------------------------

LEMMA NextKeepsIInv ==
    ASSUME IInv, [Next]_vars
    PROVE  IInv'
<1>1. CASE \E r \in Runs : StartRun(r) \/ Store(r) \/ EndRun(r)
  BY <1>1, RunKeepsIInv
<1>2. CASE \E p \in Posts : (\E e \in Asks[p] : Load(p, e)) \/ Commit(p) \/ PostFails(p)
  BY <1>2, LoadKeepsIInv, CommitKeepsIInv, PostFailsKeepsIInv
<1>3. CASE Job \/ JobFails
  BY <1>3, StartJobKeepsIInv, JobReadsKeepIInv, FlipCommitKeepsIInv DEF Job
<1>4. CASE Tomorrow
  BY <1>4, TomorrowKeepsIInv
<1>5. CASE UNCHANGED vars
  <2>1. TypeOK' /\ UNCHANGED core
    BY <1>5 DEF IInv, TypeOK, vars, core, flags, owner, job, world
  <2>2. QED
    BY <2>1, CoreUnchanged
<1>6. QED
  BY <1>1, <1>2, <1>3, <1>4, <1>5 DEF Next

THEOREM Invariance == Spec => []IInv
<1>1. Init => IInv
  BY InitIInv
<1>2. IInv /\ [Next]_vars => IInv'
  BY NextKeepsIInv
<1>3. QED
  BY <1>1, <1>2, PTL DEF Spec

\* The state is of its type: in particular the job has a merchant in hand exactly when
\* it is at one, however it ended.
THEOREM TypesHold == Spec => []TypeOK
<1>1. IInv => TypeOK
  BY DEF IInv
<1>2. QED
  BY <1>1, Invariance, PTL

\* The engine an owner chose alone stands until the owner chooses again or the job
\* promotes the merchant from shadow, and the promotion date agrees with it.
THEOREM ChoicesStand == Spec => []ChoiceStands
<1>1. IInv => ChoiceStands
  BY DEF IInv
<1>2. QED
  BY <1>1, Invariance, PTL

-----------------------------------------------------------------------------
(* The runs that forecast.                                                 *)

\* What a forecast made with an engine can be: its own version, or the fallback.
Promised(e) == IF e = "ensemble" THEN {"v2", "fallback"} ELSE {"v1", "fallback"}

\* The cache has only what its engine makes, after its row was written.
CacheHonest ==
    \A k \in Keys : cache[k] # None => cache[k].version \in Promised(k[2]) /\ cache[k].row

\* So have the runs; before a forecast is kept there is one, and its row is written; and
\* the first version by itself needs no ensemble.
ResultsHonest ==
    \A r \in Runs, s \in Skus :
        /\ result[r][s] # None => result[r][s].version \in Promised(engine[r])
        /\ result[r][s] # None /\ jobs[r][s] \in {"idle", "keep", "over"} => result[r][s].row
        /\ jobs[r][s] \in {"persist", "keep"} => result[r][s] # None
        /\ jobs[r][s] \in {"try", "fit", "build"} => engine[r] # "exponential"

\* A run that tripped goes on without the ensemble; one that is done has left no job
\* behind, and has tripped if too many SKUs failed.
TripsHonest ==
    \A r \in Runs :
        /\ tripped[r] => engine[r] = "exponential"
        /\ pc[r] = "done" => Rested(r) /\ ~TooMany(r)

\* The fits under way.
Fitting == {j \in Jobs : jobs[j[1]][j[2]] = "fit"}

\* While the breaker is open every fit that is lost was under way when it opened; while it
\* is closed the breaker has counted them all.
WasteBounded ==
    /\ wasted \in Nat
    /\ IF open THEN wasted + Cardinality(Fitting) <= ProphetLimit + Cardinality(Jobs) - 1
       ELSE wasted <= fit_failures

\* The type invariant but for the fits that failed.
NodeShape ==
    /\ pc \in [Runs -> {"idle", "first", "second", "done", "failed"}]
    /\ engine \in [Runs -> Engines]
    /\ tripped \in [Runs -> BOOLEAN]
    /\ jobs \in [Runs -> [Skus -> {"idle", "over"} \cup Busy]]
    /\ result \in [Runs -> [Skus -> Results]]
    /\ cache \in [Keys -> Results]
    /\ fit_failures \in 0..(ProphetLimit - 1)
    /\ open \in BOOLEAN

NodeInv == NodeShape /\ CacheHonest /\ ResultsHonest /\ TripsHonest /\ WasteBounded

\* There are finitely many jobs, and the fits under way are some of them.
LEMMA JobsFinite ==
    /\ IsFiniteSet(Jobs) /\ Cardinality(Jobs) \in Nat
    /\ IsFiniteSet(Fitting) /\ Cardinality(Fitting) \in Nat
    /\ Cardinality(Fitting) <= Cardinality(Jobs)
<1>1. IsFiniteSet(Jobs)
  BY ForecastNodeAssumption, FS_Product DEF Jobs
<1>2. Fitting \in SUBSET Jobs
  BY DEF Fitting
<1> QED BY <1>1, <1>2, FS_Subset, FS_CardinalityType

\* The fits under way are finitely many after a step, too, and no more when none begins.
LEMMA FittingFewer ==
    ASSUME Fitting' \subseteq Fitting
    PROVE  /\ Cardinality(Fitting)' \in Nat
           /\ Cardinality(Fitting)' <= Cardinality(Fitting)
<1>1. Fitting' \in SUBSET Fitting
  OBVIOUS
<1> QED BY <1>1, JobsFinite, FS_Subset, FS_CardinalityType

\* The invariant bounds the waste as the type invariant has it.
LEMMA InvTypes == ASSUME NodeInv PROVE NodeTypeOK
<1> DEFINE n == Cardinality(Jobs)
<1> DEFINE f == Cardinality(Fitting)
<1>1. n \in Nat /\ f \in Nat /\ f <= n
  BY JobsFinite
<1>2. /\ wasted \in Nat /\ fit_failures \in 0..(ProphetLimit - 1) /\ open \in BOOLEAN
      /\ open => wasted + f <= ProphetLimit + n - 1
      /\ ~open => wasted <= fit_failures
  BY DEF NodeInv, NodeShape, WasteBounded
<1> HIDE DEF n, f
<1>3. wasted \in 0..(ProphetLimit + n - 1)
  BY <1>1, <1>2, ForecastNodeAssumption
<1> QED BY <1>3 DEF NodeInv, NodeShape, NodeTypeOK, n

\* A run is honest when it is done, by the invariant.
LEMMA InvHonest == ASSUME NodeInv PROVE RunIsHonest
<1> SUFFICES ASSUME NEW r \in Runs, pc[r] = "done"
             PROVE  LET versions == {s \in Skus : result[r][s] # None /\ result[r][s].version = "v2"}
                    IN  /\ \A s \in Skus : result[r][s] # None => result[r][s].row
                        /\ IF engine[r] = "ensemble"
                           THEN /\ ~ tripped[r]
                                /\ AtMost(Frac(Cardinality(Skus \ versions), Cardinality(Skus)),
                                          Threshold)
                           ELSE versions = {}
  BY DEF RunIsHonest
<1> USE DEF NodeInv
<1> DEFINE versions == {s \in Skus : result[r][s] # None /\ result[r][s].version = "v2"}
<1>1. Rested(r) /\ ~TooMany(r)
  BY DEF TripsHonest
<1>2. \A s \in Skus : result[r][s] # None => result[r][s].row
  BY <1>1 DEF ResultsHonest, Rested, NodeShape, Busy
<1>3. CASE engine[r] = "ensemble"
  <2>1. ~tripped[r]
    BY <1>3 DEF TripsHonest
  <2>2. \A s \in Skus : result[r][s] # None => result[r][s].version \in {"v2", "fallback"}
    BY <1>3 DEF ResultsHonest, Promised
  <2>3. Skus \ versions = Failures(r)
    BY <2>2 DEF Failures
  <2>4. AtMost(Frac(Cardinality(Skus \ versions), Cardinality(Skus)), Threshold)
    BY <1>1, <1>3, <2>3 DEF TooMany, AtMost
  <2> QED BY <1>2, <1>3, <2>1, <2>4
<1>4. CASE engine[r] # "ensemble"
  <2>1. \A s \in Skus : result[r][s] # None => result[r][s].version \in {"v1", "fallback"}
    BY <1>4 DEF ResultsHonest, Promised
  <2> QED BY <1>2, <1>4, <2>1
<1> QED BY <1>3, <1>4

\* The invariant holds before the first run.
LEMMA InitNodeInv == ASSUME Unused PROVE NodeInv
<1>1. None \in Results /\ 0 \in 0..(ProphetLimit - 1)
  BY ForecastNodeAssumption DEF Results
<1>2. NodeShape
  BY <1>1 DEF Unused, NodeShape, Engines
<1>3. CacheHonest /\ ResultsHonest /\ TripsHonest /\ WasteBounded
  BY DEF Unused, CacheHonest, ResultsHonest, TripsHonest, WasteBounded
<1> QED BY <1>2, <1>3 DEF NodeInv

-----------------------------------------------------------------------------
(* What a step of a run does.                                              *)

\* A run begins to gather its forecasts, alone or once more.
LEMMA GatherStep ==
    ASSUME NodeShape, NEW r \in Runs, Gather(r)
    PROVE  /\ jobs' \in [Runs -> [Skus -> {"idle", "over"} \cup Busy]]
           /\ result' \in [Runs -> [Skus -> Results]]
           /\ \A s \in Skus : jobs'[r][s] = "get" /\ result'[r][s] = None
           /\ \A q \in Runs : q # r => jobs'[q] = jobs[q] /\ result'[q] = result[q]
           /\ Fitting' \subseteq Fitting
<1>1. None \in Results /\ "get" \in Busy
  BY DEF Results, Busy
<1>2. /\ jobs' \in [Runs -> [Skus -> {"idle", "over"} \cup Busy]]
      /\ result' \in [Runs -> [Skus -> Results]]
      /\ \A s \in Skus : jobs'[r][s] = "get" /\ result'[r][s] = None
      /\ \A q \in Runs : q # r => jobs'[q] = jobs[q] /\ result'[q] = result[q]
  BY <1>1 DEF NodeShape, Gather
<1>3. Fitting' \subseteq Fitting
  <2> SUFFICES ASSUME NEW q \in Runs, NEW s \in Skus, jobs'[q][s] = "fit"
               PROVE  jobs[q][s] = "fit"
    BY DEF Fitting, Jobs
  <2> QED BY <1>2
<1> QED BY <1>2, <1>3

\* A job moves on, and no other one does.
LEMMA MoveStep ==
    ASSUME NodeShape, NEW r \in Runs, NEW s \in Skus, NEW from,
           NEW to \in {"idle", "over"} \cup Busy, Move(r, s, from, to)
    PROVE  /\ jobs[r][s] = from /\ jobs'[r][s] = to
           /\ jobs' \in [Runs -> [Skus -> {"idle", "over"} \cup Busy]]
           /\ \A q \in Runs, t \in Skus : <<q, t>> # <<r, s>> => jobs'[q][t] = jobs[q][t]
           /\ to # "fit" => Fitting' = Fitting \ {<<r, s>>}
<1>1. /\ jobs[r][s] = from /\ jobs'[r][s] = to
      /\ jobs' \in [Runs -> [Skus -> {"idle", "over"} \cup Busy]]
      /\ \A q \in Runs, t \in Skus : <<q, t>> # <<r, s>> => jobs'[q][t] = jobs[q][t]
  BY DEF NodeShape, Move
<1>2. ASSUME to # "fit" PROVE Fitting' = Fitting \ {<<r, s>>}
  <2> SUFFICES \A j \in Jobs : j \in Fitting' <=> j \in Fitting \ {<<r, s>>}
    BY DEF Fitting
  <2> SUFFICES ASSUME NEW q \in Runs, NEW t \in Skus
               PROVE  jobs'[q][t] = "fit" <=> jobs[q][t] = "fit" /\ <<q, t>> # <<r, s>>
    BY DEF Fitting, Jobs
  <2> QED BY <1>1, <1>2
<1> QED BY <1>1, <1>2

\* What a step of one job does to its forecast and to the run.
SkuStep(r, s) ==
    /\ jobs[r][s] \in Busy
    /\ jobs' \in [Runs -> [Skus -> {"idle", "over"} \cup Busy]]
    /\ result' \in [Runs -> [Skus -> Results]]
    /\ \A q \in Runs, t \in Skus : <<q, t>> # <<r, s>> =>
          jobs'[q][t] = jobs[q][t] /\ result'[q][t] = result[q][t]
    /\ result'[r][s] # None => result'[r][s].version \in Promised(engine[r])
    /\ result'[r][s] # None /\ jobs'[r][s] \in {"idle", "keep", "over"} => result'[r][s].row
    /\ jobs'[r][s] \in {"persist", "keep"} => result'[r][s] # None
    /\ jobs'[r][s] \in {"try", "fit", "build"} => engine[r] # "exponential"
    /\ UNCHANGED <<engine, tripped>>
    /\ pc' = pc \/ pc' = [pc EXCEPT ![r] = "failed"]
    /\ \/ cache' = cache
       \/ cache' = [cache EXCEPT ![Key(s, engine[r])] = result[r][s]] /\ jobs[r][s] = "keep"

\* A table of which one entry is set to a result.
Put(r, s, v) == result' = [result EXCEPT ![r][s] = v]

\* The others stay as they are.
LEMMA SetResult ==
    ASSUME NodeShape, NEW r \in Runs, NEW s \in Skus, NEW v \in Results, Put(r, s, v)
    PROVE  /\ result' \in [Runs -> [Skus -> Results]]
           /\ result'[r][s] = v
           /\ \A q \in Runs, t \in Skus : <<q, t>> # <<r, s>> => result'[q][t] = result[q][t]
  BY DEF NodeShape, Put

\* A new forecast is one; it has no row yet.
LEMMA NewForecast ==
    ASSUME NodeShape, NEW r \in Runs, NEW s \in Skus, NEW v \in {"v1", "v2", "fallback"},
           Forecast(r, s, v)
    PROVE  /\ result' \in [Runs -> [Skus -> Results]]
           /\ result'[r][s] = [version |-> v, row |-> FALSE]
           /\ result'[r][s] # None
           /\ \A q \in Runs, t \in Skus : <<q, t>> # <<r, s>> => result'[q][t] = result[q][t]
<1> DEFINE new == [version |-> v, row |-> FALSE]
<1>1. new \in [version: {"v1", "v2", "fallback"}, row: BOOLEAN]
  OBVIOUS
<1>2. new \in Results /\ new # None
  BY <1>1, ForecastNodeAssumption DEF Results
<1>3. Put(r, s, new)
  BY DEF Forecast, Put
<1>4. /\ result' \in [Runs -> [Skus -> Results]]
      /\ result'[r][s] = new
      /\ \A q \in Runs, t \in Skus : <<q, t>> # <<r, s>> => result'[q][t] = result[q][t]
  <2> HIDE DEF new
  <2> QED BY <1>2, <1>3, SetResult
<1> QED BY <1>2, <1>4

LEMMA HitStep ==
    ASSUME NodeInv, NEW r \in Runs, NEW s \in Skus, Hit(r, s)
    PROVE  SkuStep(r, s)
<1> USE DEF NodeInv
<1> DEFINE cached == cache[Key(s, engine[r])]
<1>1. Key(s, engine[r]) \in Keys /\ Key(s, engine[r])[2] = engine[r]
  BY DEF NodeShape, Key, Keys
<1>2. cached \in Results /\ cached # None
  BY <1>1 DEF NodeShape, Hit
<1>3. cached.version \in Promised(engine[r]) /\ cached.row
  BY <1>1, <1>2 DEF CacheHonest
<1>4. Put(r, s, cached) /\ Move(r, s, "get", "over")
      /\ UNCHANGED <<pc, engine, tripped, cache>>
  BY DEF Hit, progress, Put
<1> HIDE DEF cached
<1>5. /\ result' \in [Runs -> [Skus -> Results]]
      /\ result'[r][s] = cached
      /\ \A q \in Runs, t \in Skus : <<q, t>> # <<r, s>> => result'[q][t] = result[q][t]
  BY <1>2, <1>4, SetResult
<1>6. /\ jobs[r][s] = "get" /\ jobs'[r][s] = "over"
      /\ jobs' \in [Runs -> [Skus -> {"idle", "over"} \cup Busy]]
      /\ \A q \in Runs, t \in Skus : <<q, t>> # <<r, s>> => jobs'[q][t] = jobs[q][t]
  BY <1>4, MoveStep
<1>7. \A q \in Runs, t \in Skus : <<q, t>> # <<r, s>> =>
          jobs'[q][t] = jobs[q][t] /\ result'[q][t] = result[q][t]
  BY <1>5, <1>6
<1> QED BY <1>3, <1>4, <1>5, <1>6, <1>7 DEF SkuStep, Busy

\* A step that leaves the forecast as it is, none, or one that still waits.
LEMMA SilentStep ==
    ASSUME NodeInv, NEW r \in Runs, NEW s \in Skus,
           NEW from \in Busy, NEW to \in {"try", "fit", "build"},
           Move(r, s, from, to), UNCHANGED <<progress, result, cache>>,
           engine[r] # "exponential"
    PROVE  SkuStep(r, s)
<1> USE DEF NodeInv
<1>1. /\ jobs[r][s] = from /\ jobs'[r][s] = to
      /\ jobs' \in [Runs -> [Skus -> {"idle", "over"} \cup Busy]]
      /\ \A q \in Runs, t \in Skus : <<q, t>> # <<r, s>> => jobs'[q][t] = jobs[q][t]
  BY MoveStep DEF Busy
<1>2. result'[r][s] # None => result'[r][s].version \in Promised(engine[r])
  BY DEF ResultsHonest
<1> QED BY <1>1, <1>2 DEF SkuStep, progress, NodeShape

LEMMA MissStep ==
    ASSUME NodeInv, NEW r \in Runs, NEW s \in Skus, Miss(r, s)
    PROVE  SkuStep(r, s)
<1> USE DEF NodeInv
<1>1. CASE engine[r] = "exponential"
  <2>1. Move(r, s, "get", "persist") /\ Forecast(r, s, "v1")
        /\ UNCHANGED <<pc, engine, tripped, cache>>
    BY <1>1 DEF Miss, progress
  <2>2. /\ jobs[r][s] = "get" /\ jobs'[r][s] = "persist"
        /\ jobs' \in [Runs -> [Skus -> {"idle", "over"} \cup Busy]]
        /\ \A q \in Runs, t \in Skus : <<q, t>> # <<r, s>> => jobs'[q][t] = jobs[q][t]
    BY <2>1, MoveStep DEF Busy
  <2>3. /\ result' \in [Runs -> [Skus -> Results]]
        /\ result'[r][s] = [version |-> "v1", row |-> FALSE]
        /\ result'[r][s] # None
        /\ \A q \in Runs, t \in Skus : <<q, t>> # <<r, s>> => result'[q][t] = result[q][t]
    BY <2>1, NewForecast
  <2>4. result'[r][s].version \in Promised(engine[r])
    BY <1>1, <2>3 DEF Promised
  <2> QED BY <2>1, <2>2, <2>3, <2>4 DEF SkuStep, Busy
<1>2. CASE engine[r] # "exponential"
  <2>1. PICK to \in {"try", "build"} : Move(r, s, "get", to)
    BY <1>2 DEF Miss
  <2>2. UNCHANGED <<progress, result, cache>>
    BY <1>2 DEF Miss
  <2> QED BY <1>2, <2>1, <2>2, SilentStep DEF Busy
<1> QED BY <1>1, <1>2

LEMMA BuildStep ==
    ASSUME NodeInv, NEW r \in Runs, NEW s \in Skus, Build(r, s)
    PROVE  SkuStep(r, s)
<1> USE DEF NodeInv
<1>1. PICK v \in {IF engine[r] = "shadow" THEN "v1" ELSE "v2", "fallback"} : Forecast(r, s, v)
  BY DEF Build
<1>2. Move(r, s, "build", "persist") /\ UNCHANGED <<pc, engine, tripped, cache>>
  BY DEF Build, progress
<1>3. v \in {"v1", "v2", "fallback"} /\ v \in Promised(engine[r])
  <2>1. engine[r] # "exponential"
    BY <1>2 DEF ResultsHonest, Move
  <2> QED BY <2>1 DEF NodeShape, Engines, Promised
<1>4. /\ jobs[r][s] = "build" /\ jobs'[r][s] = "persist"
      /\ jobs' \in [Runs -> [Skus -> {"idle", "over"} \cup Busy]]
      /\ \A q \in Runs, t \in Skus : <<q, t>> # <<r, s>> => jobs'[q][t] = jobs[q][t]
  BY <1>2, MoveStep DEF Busy
<1>5. /\ result' \in [Runs -> [Skus -> Results]]
      /\ result'[r][s] = [version |-> v, row |-> FALSE]
      /\ result'[r][s] # None
      /\ \A q \in Runs, t \in Skus : <<q, t>> # <<r, s>> => result'[q][t] = result[q][t]
  BY <1>1, <1>3, NewForecast
<1> QED BY <1>2, <1>3, <1>4, <1>5 DEF SkuStep, Busy

LEMMA PersistStep ==
    ASSUME NodeInv, NEW r \in Runs, NEW s \in Skus, Persist(r, s)
    PROVE  SkuStep(r, s)
<1> USE DEF NodeInv
<1>1. Move(r, s, "persist", "keep") /\ UNCHANGED <<pc, engine, tripped, cache>>
      /\ result' = [result EXCEPT ![r][s].row = TRUE]
  BY DEF Persist, progress
<1>2. /\ jobs[r][s] = "persist" /\ jobs'[r][s] = "keep"
      /\ jobs' \in [Runs -> [Skus -> {"idle", "over"} \cup Busy]]
      /\ \A q \in Runs, t \in Skus : <<q, t>> # <<r, s>> => jobs'[q][t] = jobs[q][t]
  BY <1>1, MoveStep DEF Busy
<1>3. result[r][s] # None /\ result[r][s].version \in Promised(engine[r])
  BY <1>2 DEF ResultsHonest
<1> DEFINE kept == [result[r][s] EXCEPT !.row = TRUE]
<1>4. result[r][s] \in [version: {"v1", "v2", "fallback"}, row: BOOLEAN]
  BY <1>3 DEF NodeShape, Results
<1>5. kept \in [version: {"v1", "v2", "fallback"}, row: BOOLEAN]
      /\ kept.version = result[r][s].version /\ kept.row
  BY <1>4
<1>6. Put(r, s, kept)
  BY <1>1 DEF NodeShape, Put
<1> HIDE DEF kept
<1>7. kept \in Results /\ kept # None
  BY <1>5, ForecastNodeAssumption DEF Results
<1>8. /\ result' \in [Runs -> [Skus -> Results]]
      /\ result'[r][s] = kept
      /\ \A q \in Runs, t \in Skus : <<q, t>> # <<r, s>> => result'[q][t] = result[q][t]
  BY <1>6, <1>7, SetResult
<1>9. \A q \in Runs, t \in Skus : <<q, t>> # <<r, s>> =>
          jobs'[q][t] = jobs[q][t] /\ result'[q][t] = result[q][t]
  BY <1>2, <1>8
<1> QED BY <1>1, <1>2, <1>3, <1>5, <1>7, <1>8, <1>9 DEF SkuStep, Busy

LEMMA KeepStep ==
    ASSUME NodeInv, NEW r \in Runs, NEW s \in Skus, Keep(r, s)
    PROVE  SkuStep(r, s)
<1> USE DEF NodeInv
<1>1. Move(r, s, "keep", "over") /\ UNCHANGED <<pc, engine, tripped, result>>
      /\ cache' = [cache EXCEPT ![Key(s, engine[r])] = result[r][s]]
  BY DEF Keep, progress
<1>2. /\ jobs[r][s] = "keep" /\ jobs'[r][s] = "over"
      /\ jobs' \in [Runs -> [Skus -> {"idle", "over"} \cup Busy]]
      /\ \A q \in Runs, t \in Skus : <<q, t>> # <<r, s>> => jobs'[q][t] = jobs[q][t]
  BY <1>1, MoveStep DEF Busy
<1>3. result[r][s] # None /\ result[r][s].version \in Promised(engine[r]) /\ result[r][s].row
  BY <1>2 DEF ResultsHonest
<1>4. \A q \in Runs, t \in Skus : <<q, t>> # <<r, s>> =>
          jobs'[q][t] = jobs[q][t] /\ result'[q][t] = result[q][t]
  BY <1>1, <1>2
<1>5. result' \in [Runs -> [Skus -> Results]]
  BY <1>1 DEF NodeShape
<1> QED BY <1>1, <1>2, <1>3, <1>4, <1>5 DEF SkuStep, Busy

LEMMA DropStep ==
    ASSUME NodeInv, NEW r \in Runs, NEW s \in Skus, DatabaseFails(r, s) \/ TimeOut(r, s)
    PROVE  SkuStep(r, s) /\ Fitting' \subseteq Fitting
<1> USE DEF NodeInv
<1>1. /\ jobs[r][s] \in Busy
      /\ jobs' = [jobs EXCEPT ![r][s] = "over"]
      /\ Put(r, s, None)
      /\ UNCHANGED <<engine, tripped, cache>>
      /\ pc' = pc \/ pc' = [pc EXCEPT ![r] = "failed"]
  BY DEF DatabaseFails, TimeOut, Drop, AtDatabase, Busy, progress, Put
<1>2. Move(r, s, jobs[r][s], "over")
  BY <1>1 DEF Move
<1>3. /\ jobs'[r][s] = "over"
      /\ jobs' \in [Runs -> [Skus -> {"idle", "over"} \cup Busy]]
      /\ \A q \in Runs, t \in Skus : <<q, t>> # <<r, s>> => jobs'[q][t] = jobs[q][t]
      /\ Fitting' = Fitting \ {<<r, s>>}
  BY <1>2, MoveStep
<1>4. None \in Results
  BY DEF Results
<1>5. /\ result' \in [Runs -> [Skus -> Results]]
      /\ result'[r][s] = None
      /\ \A q \in Runs, t \in Skus : <<q, t>> # <<r, s>> => result'[q][t] = result[q][t]
  BY <1>1, <1>4, SetResult
<1>6. \A q \in Runs, t \in Skus : <<q, t>> # <<r, s>> =>
          jobs'[q][t] = jobs[q][t] /\ result'[q][t] = result[q][t]
  BY <1>3, <1>5
<1> QED BY <1>1, <1>3, <1>5, <1>6 DEF SkuStep

\* Every step of a job is such a step.
LEMMA ForecastsStep ==
    ASSUME NodeInv, NEW r \in Runs, NEW s \in Skus, Forecasts(r, s)
    PROVE  SkuStep(r, s)
<1>1. ASSUME TryProphet(r, s) \/ FitSucceeds(r, s) \/ FitFails(r, s) PROVE SkuStep(r, s)
  <2>1. PICK from \in {"try", "fit"}, to \in {"fit", "build"} : Move(r, s, from, to)
    BY <1>1 DEF TryProphet, FitSucceeds, FitFails
  <2>2. UNCHANGED <<progress, result, cache>>
    BY <1>1 DEF TryProphet, FitSucceeds, FitFails
  <2>3. engine[r] # "exponential"
    BY <2>1 DEF NodeInv, ResultsHonest, Move
  <2> QED BY <2>1, <2>2, <2>3, SilentStep DEF Busy
<1> QED BY <1>1, HitStep, MissStep, BuildStep, PersistStep, KeepStep, DropStep DEF Forecasts

\* Such a step keeps what the invariant says of forecasts and runs.
LEMMA SkuStepHonest ==
    ASSUME NodeInv, NEW r \in Runs, NEW s \in Skus, SkuStep(r, s)
    PROVE  CacheHonest' /\ ResultsHonest' /\ TripsHonest'
<1> USE DEF NodeInv
<1>1. CacheHonest'
  <2>1. CASE cache' = cache
    BY <2>1 DEF CacheHonest
  <2>2. CASE cache' = [cache EXCEPT ![Key(s, engine[r])] = result[r][s]] /\ jobs[r][s] = "keep"
    <3>1. result[r][s].version \in Promised(engine[r]) /\ result[r][s].row
      BY <2>2 DEF ResultsHonest
    <3>2. Key(s, engine[r])[2] = engine[r]
      BY DEF Key
    <3> SUFFICES ASSUME NEW k \in Keys, cache'[k] # None
                 PROVE  cache'[k].version \in Promised(k[2]) /\ cache'[k].row
      BY DEF CacheHonest
    <3>3. CASE k = Key(s, engine[r])
      BY <2>2, <3>1, <3>2, <3>3 DEF NodeShape
    <3>4. CASE k # Key(s, engine[r])
      BY <2>2, <3>4 DEF NodeShape, CacheHonest
    <3> QED BY <3>3, <3>4
  <2> QED BY <2>1, <2>2 DEF SkuStep
<1>2. ResultsHonest'
  <2> SUFFICES ASSUME NEW q \in Runs, NEW t \in Skus
               PROVE  /\ result'[q][t] # None => result'[q][t].version \in Promised(engine'[q])
                      /\ result'[q][t] # None /\ jobs'[q][t] \in {"idle", "keep", "over"}
                            => result'[q][t].row
                      /\ jobs'[q][t] \in {"persist", "keep"} => result'[q][t] # None
                      /\ jobs'[q][t] \in {"try", "fit", "build"} => engine'[q] # "exponential"
    BY DEF ResultsHonest
  <2>1. CASE <<q, t>> = <<r, s>>
    <3>1. q = r /\ t = s /\ engine' = engine
      BY <2>1 DEF SkuStep
    <3> QED BY <3>1 DEF SkuStep
  <2>2. CASE <<q, t>> # <<r, s>>
    <3>1. jobs'[q][t] = jobs[q][t] /\ result'[q][t] = result[q][t] /\ engine' = engine
      BY <2>2 DEF SkuStep
    <3> QED BY <3>1 DEF ResultsHonest
  <2> QED BY <2>1, <2>2
<1>3. TripsHonest'
  <2>1. \A q \in Runs : tripped'[q] => engine'[q] = "exponential"
    BY DEF SkuStep, TripsHonest
  <2>2. ASSUME NEW q \in Runs, pc'[q] = "done" PROVE Rested(q)' /\ ~TooMany(q)'
    <3>1. pc[q] = "done"
      BY <2>2 DEF SkuStep, NodeShape
    <3>2. Rested(q) /\ ~TooMany(q)
      BY <3>1 DEF TripsHonest
    <3>3. q # r
      BY <3>2 DEF Rested, SkuStep
    <3>4. \A t \in Skus : jobs'[q][t] = jobs[q][t] /\ result'[q][t] = result[q][t]
      BY <3>3 DEF SkuStep
    <3>5. engine' = engine
      BY DEF SkuStep
    <3>6. Failures(q)' = Failures(q)
      BY <3>4 DEF Failures
    <3>7. TooMany(q)' <=> TooMany(q)
      BY <3>5, <3>6 DEF TooMany
    <3>8. Rested(q)'
      BY <3>2, <3>4 DEF Rested
    <3> QED BY <3>2, <3>7, <3>8
  <2> QED BY <2>1, <2>2 DEF TripsHonest
<1> QED BY <1>1, <1>2, <1>3

\* A run that starts, or forecasts once more, has no forecasts and no cares.
LEMMA GatherHonest ==
    ASSUME NodeInv, NEW r \in Runs, NEW e \in Engines, NEW b \in BOOLEAN,
           NEW at \in {"first", "second"}, Gather(r),
           b => e = "exponential",
           pc' = [pc EXCEPT ![r] = at], engine' = [engine EXCEPT ![r] = e],
           tripped' = [tripped EXCEPT ![r] = b], UNCHANGED <<cache, prophet>>
    PROVE  NodeInv'
<1> USE DEF NodeInv
<1>1. /\ jobs' \in [Runs -> [Skus -> {"idle", "over"} \cup Busy]]
      /\ result' \in [Runs -> [Skus -> Results]]
      /\ \A s \in Skus : jobs'[r][s] = "get" /\ result'[r][s] = None
      /\ \A q \in Runs : q # r => jobs'[q] = jobs[q] /\ result'[q] = result[q]
      /\ Fitting' \subseteq Fitting
  BY GatherStep
<1>2. \A q \in Runs : q # r => engine'[q] = engine[q] /\ tripped'[q] = tripped[q] /\ pc'[q] = pc[q]
  BY DEF NodeShape
<1>3. engine'[r] = e /\ (tripped'[r] <=> b) /\ pc'[r] = at
  BY DEF NodeShape
<1>4. NodeShape'
  BY <1>1 DEF NodeShape, prophet
<1>5. CacheHonest'
  BY DEF CacheHonest
<1>6. ResultsHonest'
  BY <1>1, <1>2 DEF ResultsHonest
<1>7. TripsHonest'
  <2> SUFFICES ASSUME NEW q \in Runs
               PROVE  /\ tripped'[q] => engine'[q] = "exponential"
                      /\ pc'[q] = "done" => Rested(q)' /\ ~TooMany(q)'
    BY DEF TripsHonest
  <2>1. CASE q = r
    BY <1>3, <2>1
  <2>2. CASE q # r
    <3>1. Rested(q)' <=> Rested(q)
      BY <1>1, <2>2 DEF Rested
    <3>2. Failures(q)' = Failures(q)
      BY <1>1, <2>2 DEF Failures
    <3>3. TooMany(q)' <=> TooMany(q)
      BY <1>2, <2>2, <3>2 DEF TooMany
    <3> QED BY <1>2, <2>2, <3>1, <3>3 DEF TripsHonest
  <2> QED BY <2>1, <2>2
<1>8. WasteBounded'
  <2>1. Cardinality(Fitting)' \in Nat /\ Cardinality(Fitting)' <= Cardinality(Fitting)
    BY <1>1, FittingFewer
  <2> QED BY <2>1, JobsFinite, ForecastNodeAssumption DEF WasteBounded, prophet
<1> QED BY <1>4, <1>5, <1>6, <1>7, <1>8

\* A step of a job wastes no more fits than were under way.
LEMMA ForecastsWaste ==
    ASSUME NodeInv, NEW r \in Runs, NEW s \in Skus, Forecasts(r, s)
    PROVE  WasteBounded' /\ fit_failures' \in 0..(ProphetLimit - 1) /\ open' \in BOOLEAN
<1> USE DEF NodeInv
<1> DEFINE n == Cardinality(Jobs)
<1> DEFINE f == Cardinality(Fitting)
<1>1. n \in Nat /\ f \in Nat /\ f <= n
  BY JobsFinite
<1>2. /\ wasted \in Nat /\ fit_failures \in 0..(ProphetLimit - 1) /\ open \in BOOLEAN
      /\ open => wasted + f <= ProphetLimit + n - 1
      /\ ~open => wasted <= fit_failures
      /\ ProphetLimit \in Nat \ {0}
  BY ForecastNodeAssumption DEF NodeShape, WasteBounded
<1>3. ASSUME UNCHANGED prophet, Fitting' \subseteq Fitting
      PROVE  WasteBounded' /\ fit_failures' \in 0..(ProphetLimit - 1) /\ open' \in BOOLEAN
  <2> DEFINE g == Cardinality(Fitting)'
  <2>1. g \in Nat /\ g <= f
    BY <1>3, FittingFewer
  <2>2. wasted' = wasted /\ fit_failures' = fit_failures /\ (open' <=> open)
    BY <1>3 DEF prophet
  <2> HIDE DEF n, f, g
  <2>3. open => wasted + g <= ProphetLimit + n - 1
    BY <1>1, <1>2, <2>1
  <2>4. open' => wasted' + g <= ProphetLimit + n - 1
    BY <2>2, <2>3
  <2>5. wasted' \in Nat /\ (~open' => wasted' <= fit_failures')
    BY <1>2, <2>2
  <2>6. WasteBounded'
    BY <2>4, <2>5 DEF WasteBounded, n, g
  <2> QED BY <1>2, <1>3, <2>6 DEF prophet
<1>4. CASE Hit(r, s) \/ Miss(r, s) \/ Build(r, s) \/ Persist(r, s) \/ Keep(r, s)
  <2>1. PICK from \in Busy, to \in ({"idle", "over"} \cup Busy) \ {"fit"} : Move(r, s, from, to)
    BY <1>4 DEF Hit, Miss, Build, Persist, Keep, Busy
  <2>2. Fitting' \subseteq Fitting
    BY <2>1, MoveStep
  <2>3. UNCHANGED prophet
    BY <1>4 DEF Hit, Miss, Build, Persist, Keep
  <2> QED BY <1>3, <2>2, <2>3
<1>5. CASE DatabaseFails(r, s) \/ TimeOut(r, s)
  <2>1. UNCHANGED prophet
    BY <1>5 DEF DatabaseFails, TimeOut
  <2> QED BY <1>3, <1>5, <2>1, DropStep
<1>6. CASE TryProphet(r, s) /\ open
  <2>1. Move(r, s, "try", "build") /\ UNCHANGED prophet
    BY <1>6 DEF TryProphet
  <2>2. Fitting' \subseteq Fitting
    BY <2>1, MoveStep DEF Busy
  <2> QED BY <1>3, <2>1, <2>2
<1>7. CASE TryProphet(r, s) /\ ~open
  <2>1. UNCHANGED prophet
    BY <1>7 DEF TryProphet
  <2> QED BY <1>2, <1>7, <2>1 DEF WasteBounded, prophet
<1>8. CASE FitSucceeds(r, s)
  <2>1. fit_failures' = 0 /\ open' = FALSE /\ wasted' = 0
    BY <1>8 DEF FitSucceeds
  <2>2. 0 \in 0..(ProphetLimit - 1) /\ 0 \in Nat /\ 0 <= 0
    BY <1>2
  <2>3. WasteBounded'
    BY <2>1, <2>2 DEF WasteBounded
  <2> QED BY <2>1, <2>2, <2>3
<1>9. CASE FitFails(r, s)
  <2>1. /\ fit_failures' = (fit_failures + 1) % ProphetLimit
        /\ wasted' = wasted + 1
        /\ open' <=> open \/ fit_failures + 1 = ProphetLimit
        /\ open' \in BOOLEAN
    BY <1>9 DEF FitFails
  <2>2. Move(r, s, "fit", "build")
    BY <1>9 DEF FitFails
  <2>3. Fitting' = Fitting \ {<<r, s>>} /\ <<r, s>> \in Fitting
    <3>1. Fitting' = Fitting \ {<<r, s>>}
      BY <2>2, MoveStep DEF Busy
    <3> QED BY <2>2, <3>1 DEF Move, Fitting, Jobs
  <2> DEFINE g == Cardinality(Fitting)'
  <2>4. g = f - 1
    <3>1. Cardinality(Fitting \ {<<r, s>>}) = Cardinality(Fitting) - 1
      BY <2>3, JobsFinite, FS_RemoveElement
    <3> QED BY <2>3, <3>1
  <2>5. \/ fit_failures + 1 = ProphetLimit
        \/ fit_failures + 1 < ProphetLimit /\ (fit_failures + 1) % ProphetLimit = fit_failures + 1
    BY <1>2
  <2>6. fit_failures' \in 0..(ProphetLimit - 1) /\ open' \in BOOLEAN
    BY <1>2, <2>1
  <2> HIDE DEF n, f, g
  <2>7. open' => wasted' + g <= ProphetLimit + n - 1
    BY <1>1, <1>2, <2>1, <2>4
  <2>8. ASSUME ~open' PROVE wasted' <= fit_failures'
    <3>1. ~open /\ fit_failures + 1 # ProphetLimit
      BY <2>1, <2>8
    <3>2. fit_failures' = fit_failures + 1 /\ wasted' = wasted + 1
      BY <2>1, <2>5, <3>1
    <3> QED BY <1>2, <3>1, <3>2
  <2>9. wasted' \in Nat
    BY <1>2, <2>1
  <2> QED BY <2>6, <2>7, <2>8, <2>9 DEF WasteBounded, n, g
<1> QED BY <1>4, <1>5, <1>6, <1>7, <1>8, <1>9 DEF Forecasts

\* No step breaks the invariant.
LEMMA NodeStep == ASSUME NodeInv, [Operate]_node PROVE NodeInv'
<1> USE DEF NodeInv
<1>1. ASSUME NEW r \in Runs, Begin(r) PROVE NodeInv'
  <2>1. PICK e \in Engines : engine' = [engine EXCEPT ![r] = e]
    BY <1>1 DEF Begin
  <2>2. /\ Gather(r) /\ UNCHANGED <<cache, prophet>>
        /\ pc' = [pc EXCEPT ![r] = "first"] /\ tripped' = [tripped EXCEPT ![r] = FALSE]
    BY <1>1 DEF Begin
  <2> QED BY <1>1, <2>1, <2>2, GatherHonest
<1>2. ASSUME NEW r \in Runs, Trip(r) PROVE NodeInv'
  <2>1. /\ Gather(r) /\ UNCHANGED <<cache, prophet>>
        /\ pc' = [pc EXCEPT ![r] = "second"] /\ tripped' = [tripped EXCEPT ![r] = TRUE]
        /\ engine' = [engine EXCEPT ![r] = "exponential"]
    BY <1>2 DEF Trip
  <2>2. "exponential" \in Engines
    BY DEF Engines
  <2> QED BY <1>2, <2>1, <2>2, GatherHonest
<1>3. ASSUME NEW r \in Runs, Finish(r) PROVE NodeInv'
  <2>1. /\ pc' = [pc EXCEPT ![r] = "done"] /\ Rested(r) /\ ~TooMany(r)
        /\ UNCHANGED <<engine, tripped, jobs, result, cache, prophet>>
    BY <1>3 DEF Finish
  <2>2. NodeShape' /\ CacheHonest' /\ ResultsHonest' /\ WasteBounded'
    BY <2>1 DEF NodeShape, CacheHonest, ResultsHonest, WasteBounded, Fitting, prophet
  <2>3. \A q \in Runs : (Rested(q)' <=> Rested(q)) /\ (TooMany(q)' <=> TooMany(q))
    BY <2>1 DEF Rested, TooMany, Failures
  <2>4. TripsHonest'
    BY <2>1, <2>3 DEF TripsHonest, NodeShape
  <2> QED BY <2>2, <2>4
<1>4. ASSUME NEW r \in Runs, NEW s \in Skus, Forecasts(r, s) PROVE NodeInv'
  <2>1. SkuStep(r, s)
    BY <1>4, ForecastsStep
  <2>2. CacheHonest' /\ ResultsHonest' /\ TripsHonest'
    BY <1>4, <2>1, SkuStepHonest
  <2>3. WasteBounded' /\ fit_failures' \in 0..(ProphetLimit - 1) /\ open' \in BOOLEAN
    BY <1>4, ForecastsWaste
  <2>4. /\ pc' \in [Runs -> {"idle", "first", "second", "done", "failed"}]
        /\ UNCHANGED <<engine, tripped>>
    BY <2>1 DEF SkuStep, NodeShape
  <2>5. cache' \in [Keys -> Results]
    <3>1. result[r][s] \in Results
      BY DEF NodeShape
    <3> QED BY <2>1, <3>1 DEF SkuStep, NodeShape
  <2>6. /\ jobs' \in [Runs -> [Skus -> {"idle", "over"} \cup Busy]]
        /\ result' \in [Runs -> [Skus -> Results]]
    BY <2>1 DEF SkuStep
  <2>7. NodeShape'
    BY <2>3, <2>4, <2>5, <2>6 DEF NodeShape
  <2> QED BY <2>2, <2>3, <2>7
<1>5. CASE Expire
  <2>1. PICK k \in Keys : cache' = [cache EXCEPT ![k] = None]
    BY <1>5 DEF Expire
  <2>2. UNCHANGED <<progress, jobs, result, prophet>>
    BY <1>5 DEF Expire
  <2>3. None \in Results
    BY DEF Results
  <2>4. NodeShape' /\ CacheHonest'
    BY <2>1, <2>2, <2>3 DEF NodeShape, CacheHonest, progress, prophet
  <2>5. ResultsHonest' /\ WasteBounded'
    BY <2>2 DEF ResultsHonest, WasteBounded, Fitting, progress, prophet
  <2>6. TripsHonest'
    BY <2>2 DEF TripsHonest, Rested, TooMany, Failures, progress
  <2> QED BY <2>4, <2>5, <2>6
<1>6. CASE CoolDown
  <2>1. open' = FALSE /\ wasted' = 0 /\ UNCHANGED <<progress, jobs, result, cache, fit_failures>>
    BY <1>6 DEF CoolDown
  <2>2. NodeShape' /\ CacheHonest' /\ ResultsHonest'
    BY <2>1 DEF NodeShape, CacheHonest, ResultsHonest, progress
  <2>3. WasteBounded'
    BY <2>1, ForecastNodeAssumption DEF WasteBounded, NodeShape
  <2>4. TripsHonest'
    BY <2>1 DEF TripsHonest, Rested, TooMany, Failures, progress
  <2> QED BY <2>2, <2>3, <2>4
<1>7. CASE UNCHANGED node
  <2>1. UNCHANGED <<pc, engine, tripped, jobs, result, cache, fit_failures, open, wasted>>
    BY <1>7 DEF node, progress, prophet
  <2>2. NodeShape' /\ CacheHonest' /\ ResultsHonest' /\ WasteBounded'
    BY <2>1 DEF NodeShape, CacheHonest, ResultsHonest, WasteBounded, Fitting
  <2>3. TripsHonest'
    BY <2>1 DEF TripsHonest, Rested, TooMany, Failures
  <2> QED BY <2>2, <2>3
<1> QED BY <1>1, <1>2, <1>3, <1>4, <1>5, <1>6, <1>7 DEF Operate

\* For any runs and SKUs: the invariant of the runs that forecast.
THEOREM RunsInvariance == Running => []NodeInv
  BY InitNodeInv, NodeStep, PTL DEF Running

\* For any runs and SKUs: the types, and that an outage of Prophet costs its limit and the
\* fits under way when it was reached, however the fits of all runs interleave.
THEOREM OutageIsBounded == Running => []NodeTypeOK
<1>1. NodeInv => NodeTypeOK
  BY InvTypes
<1> QED BY <1>1, RunsInvariance, PTL

\* For any runs and SKUs: a run passes on what its engine promises, all of it stored.
THEOREM RunsAreHonest == Running => []RunIsHonest
<1>1. NodeInv => RunIsHonest
  BY InvHonest
<1> QED BY <1>1, RunsInvariance, PTL

-----------------------------------------------------------------------------
(* Induction.  A set of naturals without a least member is empty.         *)

\* Every set of naturals with a member has a least one ...
LEMMA LeastOf ==
    ASSUME NEW S, S \subseteq Nat, S # {}
    PROVE  \E n \in S : \A m \in S : n <= m
<1>. DEFINE R == OpToRel(<, Nat)
<1>1. IsWellFoundedOn(R, Nat)
  BY NatLessThanWellFounded
<1>2. PICK n \in S : \A m \in S : ~ (<<m, n>> \in R)
  <2>. HIDE DEF R
  <2>. QED BY <1>1, WFMin
<1>3. \A m \in S : ~ (m < n)
  BY <1>2 DEF OpToRel
<1>. QED BY <1>3

\* ... so that a set with zero and every successor of its naturals has them all.
LEMMA InductiveSet ==
    ASSUME NEW S, 0 \in S, \A n \in Nat : n \in S => n + 1 \in S
    PROVE  Nat \subseteq S
<1>. SUFFICES ASSUME Nat \ S # {} PROVE FALSE
  OBVIOUS
<1>1. PICK n \in Nat \ S : \A m \in Nat \ S : n <= m
  BY LeastOf
<1>2. n # 0 /\ n - 1 \in Nat /\ n - 1 \in S
  BY <1>1
<1>. QED BY <1>2

-----------------------------------------------------------------------------
(* Fractions.                                                              *)

\* What nonlinear arithmetic below rests on.
LEMMA Cancel ==
    ASSUME NEW k \in Int, k > 0, NEW x \in Int, NEW y \in Int
    PROVE  (k * x <= k * y <=> x <= y) /\ (k * x < k * y <=> x < y) /\ (k * x = k * y <=> x = y)
<1>1. x < y => k * x < k * y
  <2>1. x < y => y - x > 0 /\ k * (y - x) > 0
    OBVIOUS
  <2>2. k * (y - x) = k * y - k * x
    OBVIOUS
  <2>. QED BY <2>1, <2>2
<1>2. y < x => k * y < k * x
  <2>1. y < x => x - y > 0 /\ k * (x - y) > 0
    OBVIOUS
  <2>2. k * (x - y) = k * x - k * y
    OBVIOUS
  <2>. QED BY <2>1, <2>2
<1>. QED BY <1>1, <1>2

\* A factor that is not negative keeps the order.
LEMMA Scale ==
    ASSUME NEW k \in Int, k >= 0, NEW x \in Int, NEW y \in Int, x <= y
    PROVE  k * x <= k * y
<1>1. k * (y - x) >= 0
  OBVIOUS
<1>2. k * (y - x) = k * y - k * x
  OBVIOUS
<1>. QED BY <1>1, <1>2

\* A positive factor keeps the sign.
LEMMA SignOfProduct ==
    ASSUME NEW k \in Int, k > 0, NEW x \in Int
    PROVE  /\ k * x > 0 <=> x > 0
           /\ k * x < 0 <=> x < 0
           /\ k * x >= 0 <=> x >= 0
           /\ k * 0 = 0
<1>1. k * 0 = 0
  OBVIOUS
<1>. QED BY <1>1, Cancel

\* Dividing a product by a factor leaves the other one.
LEMMA Quotient ==
    ASSUME NEW g \in Nat \ {0}, NEW x \in Int
    PROVE  (g * x) \div g = x
<1>. DEFINE q == (g * x) \div g
<1>1. q \in Int /\ g * q <= g * x /\ g * x < g * q + g
  OBVIOUS
<1>2. g * q + g = g * (q + 1)
  BY <1>1
<1>3. q <= x /\ x < q + 1
  <2>. HIDE DEF q
  <2>. QED BY <1>1, <1>2, Cancel
<1>. QED BY <1>1, <1>3

Divides(k, n) == \E x \in Nat : n = k * x
Divisors(p) == {k \in Nat \ {0} : Divides(k, p[1]) /\ Divides(k, p[2])}

\* Euclid: the common divisors of a and b are those of b and the rest.
LEMMA SameDivisors ==
    ASSUME NEW a \in Nat, NEW b \in Nat \ {0}
    PROVE  /\ a % b \in Nat /\ a % b < b
           /\ Divisors(<<a, b>>) = Divisors(<<b, a % b>>)
<1>. DEFINE q == a \div b
            r == a % b
<1>1. q \in Nat /\ r \in Nat /\ r < b /\ a = b * q + r
  OBVIOUS
<1>. HIDE DEF q, r
<1>2. ASSUME NEW k \in Nat \ {0}, Divides(k, b)
      PROVE  Divides(k, a) <=> Divides(k, r)
  <2>1. PICK y \in Nat : b = k * y
    BY <1>2 DEF Divides
  <2>2. b * q = k * (y * q) /\ y * q \in Nat
    BY <1>1, <2>1
  <2>3. ASSUME Divides(k, a) PROVE Divides(k, r)
    <3>1. PICK x \in Nat : a = k * x
      BY <2>3 DEF Divides
    <3>. DEFINE z == x - y * q
    <3>2. z \in Int /\ r = k * z
      BY <1>1, <2>2, <3>1
    <3>3. z >= 0
      <4>. HIDE DEF z
      <4>. QED BY <1>1, <3>2, SignOfProduct
    <3>. HIDE DEF z
    <3>. QED BY <3>2, <3>3 DEF Divides
  <2>4. ASSUME Divides(k, r) PROVE Divides(k, a)
    <3>1. PICK z \in Nat : r = k * z
      BY <2>4 DEF Divides
    <3>2. a = k * (y * q + z) /\ y * q + z \in Nat
      BY <1>1, <2>2, <3>1
    <3>. QED BY <3>2 DEF Divides
  <2>. QED BY <2>3, <2>4
<1>3. Divisors(<<a, b>>) = Divisors(<<b, r>>)
  BY <1>2 DEF Divisors
<1>. QED BY <1>1, <1>3 DEF r

\* The recursion of gcd has a solution: the greatest common divisor.
LEMMA GcdIs ==
    ASSUME NEW a \in Nat, NEW b \in Nat
    PROVE  gcd[<<a, b>>] = IF b = 0 THEN a ELSE gcd[<<b, a % b>>]
<1>. DEFINE Top(p) == CHOOSE m \in Divisors(p) : \A k \in Divisors(p) : k <= m
            F(f) == [p \in Nat \X Nat |-> IF p[2] = 0 THEN p[1] ELSE f[<<p[2], p[1] % p[2]>>]]
            G == [p \in Nat \X Nat |-> IF p = <<0, 0>> THEN 0 ELSE Top(p)]
<1>1. ASSUME NEW p \in Nat \X Nat
      PROVE  G[p] = IF p[2] = 0 THEN p[1] ELSE G[<<p[2], p[1] % p[2]>>]
  <2>1. PICK n \in Nat, m \in Nat : p = <<n, m>>
    OBVIOUS
  <2>2. CASE m # 0
    <3>1. <<m, n % m>> \in Nat \X Nat /\ <<m, n % m>> # <<0, 0>> /\ p # <<0, 0>>
      BY <2>1, <2>2, SameDivisors
    <3>2. Top(p) = Top(<<m, n % m>>)
      BY <2>1, <2>2, SameDivisors
    <3>. HIDE DEF Top
    <3>. QED BY <2>1, <2>2, <3>1, <3>2
  <2>3. CASE m = 0 /\ n = 0
    BY <2>1, <2>3
  <2>4. CASE m = 0 /\ n # 0
    <3>1. n = n * 1 /\ m = n * 0
      BY <2>4
    <3>2. n \in Divisors(p)
      BY <2>1, <2>4, <3>1 DEF Divisors, Divides
    <3>3. ASSUME NEW k \in Divisors(p) PROVE k <= n
      <4>1. k \in Nat \ {0} /\ \E x \in Nat : n = k * x
        BY <2>1 DEF Divisors, Divides
      <4>2. PICK x \in Nat : n = k * x
        BY <4>1
      <4>3. x # 0
        BY <2>4, <4>1, <4>2
      <4>4. k * 1 <= k * x
        BY <4>1, <4>3, Scale
      <4>. QED BY <4>1, <4>2, <4>4
    <3>4. Top(p) = n
      <4>1. Divisors(p) \subseteq Nat
        BY DEF Divisors
      <4>. QED BY <3>2, <3>3, <4>1
    <3>. HIDE DEF Top
    <3>. QED BY <2>1, <2>4, <3>4
  <2>. QED BY <2>2, <2>3, <2>4
<1>2. G = F(G)
  <2>. HIDE DEF G
  <2>1. G = [p \in Nat \X Nat |-> G[p]]
    BY DEF G
  <2>. QED BY <1>1, <2>1
<1>3. gcd = F(gcd)
  <2>1. \E f : f = F(f)
    <3>. HIDE DEF F, G
    <3>. QED BY <1>2
  <2>2. gcd = CHOOSE f : f = F(f)
    BY DEF gcd
  <2>. HIDE DEF F
  <2>. QED BY <2>1, <2>2
<1>4. gcd[<<a, b>>] = F(gcd)[<<a, b>>]
  <2>. HIDE DEF F
  <2>. QED BY <1>3
<1>. QED BY <1>4

\* It divides both numbers, unless both are zero.
LEMMA GcdDivides ==
    ASSUME NEW a \in Nat, NEW b \in Nat, a # 0 \/ b # 0
    PROVE  gcd[<<a, b>>] \in Divisors(<<a, b>>)
<1>. DEFINE Good(m) == \A n \in Nat : n # 0 \/ m # 0 => gcd[<<n, m>>] \in Divisors(<<n, m>>)
            S == {m \in Nat : \A k \in 0..m : Good(k)}
<1>1. Good(0)
  <2>. SUFFICES ASSUME NEW n \in Nat, n # 0 PROVE gcd[<<n, 0>>] \in Divisors(<<n, 0>>)
    OBVIOUS
  <2>1. gcd[<<n, 0>>] = n
    BY GcdIs
  <2>2. n = n * 1 /\ 0 = n * 0
    OBVIOUS
  <2>3. Divides(n, n) /\ Divides(n, 0)
    BY <2>2 DEF Divides
  <2>. QED BY <2>1, <2>3 DEF Divisors
<1>2. ASSUME NEW m \in Nat, m # 0, \A k \in 0..(m - 1) : Good(k) PROVE Good(m)
  <2>. SUFFICES ASSUME NEW n \in Nat PROVE gcd[<<n, m>>] \in Divisors(<<n, m>>)
    OBVIOUS
  <2>1. n % m \in 0..(m - 1) /\ Divisors(<<n, m>>) = Divisors(<<m, n % m>>)
    BY <1>2, SameDivisors
  <2>2. gcd[<<m, n % m>>] \in Divisors(<<m, n % m>>)
    BY <1>2, <2>1
  <2>. QED BY <1>2, <2>1, <2>2, GcdIs
<1>3. 0 \in S
  <2>. HIDE DEF Good
  <2>1. 0..0 = {0}
    OBVIOUS
  <2>. QED BY <1>1, <2>1
<1>4. ASSUME NEW m \in Nat, m \in S PROVE m + 1 \in S
  <2>. HIDE DEF Good
  <2>1. \A k \in 0..m : Good(k)
    BY <1>4
  <2>2. m + 1 - 1 = m /\ \A k \in 0..(m + 1) : k \in 0..m \/ k = m + 1
    OBVIOUS
  <2>3. Good(m + 1)
    BY <1>2, <2>1, <2>2
  <2>. QED BY <2>1, <2>2, <2>3
<1>5. Nat \subseteq S
  <2>. HIDE DEF S
  <2>. QED BY <1>3, <1>4, InductiveSet
<1>6. Good(b)
  <2>. HIDE DEF Good
  <2>1. b \in S /\ b \in 0..b
    BY <1>5
  <2>. QED BY <2>1
<1>. QED BY <1>6

\* A fraction in lowest terms has the value of the fraction it is made of.
LEMMA FracIs ==
    ASSUME NEW n \in Int, NEW d \in Nat \ {0}
    PROVE  Frac(n, d) \in Fraction /\ Frac(n, d)[1] * d = n * Frac(n, d)[2]
<1>. DEFINE g == gcd[<<Positive(n), d>>]
<1>1. Positive(n) \in Nat /\ (n = Positive(n) \/ n = 0 - Positive(n))
  BY DEF Positive
<1>2. g \in Nat \ {0} /\ Divides(g, Positive(n)) /\ Divides(g, d)
  BY <1>1, GcdDivides DEF Divisors
<1>. HIDE DEF g
<1>3. PICK x \in Int : n = g * x
  <2>1. PICK m \in Nat : Positive(n) = g * m
    BY <1>2 DEF Divides
  <2>2. CASE n = Positive(n)
    BY <2>1, <2>2
  <2>3. CASE n = 0 - Positive(n)
    <3>1. n = g * (0 - m) /\ 0 - m \in Int
      BY <1>2, <2>1, <2>3
    <3>. QED BY <3>1
  <2>. QED BY <1>1, <2>2, <2>3
<1>4. PICK y \in Nat : d = g * y
  BY <1>2 DEF Divides
<1>5. y # 0
  BY <1>2, <1>4
<1>6. n \div g = x /\ d \div g = y
  BY <1>2, <1>3, <1>4, Quotient
<1>7. Frac(n, d) = <<x, y>>
  BY <1>6 DEF Frac, g
<1>8. x * d = n * y
  BY <1>2, <1>3, <1>4
<1>. QED BY <1>5, <1>7, <1>8 DEF Fraction

\* Plus adds what its arguments stand for, with their denominators multiplied.
LEMMA PlusIs ==
    ASSUME NEW a \in Fraction, NEW b \in Fraction
    PROVE  /\ Plus(a, b) \in Fraction
           /\ Plus(a, b)[1] * (a[2] * b[2]) = (a[1] * b[2] + b[1] * a[2]) * Plus(a, b)[2]
<1>1. a[1] \in Int /\ a[2] \in Nat \ {0} /\ b[1] \in Int /\ b[2] \in Nat \ {0}
  BY DEF Fraction
<1>. DEFINE g == gcd[<<a[2], b[2]>>]
<1>2. g \in Nat \ {0} /\ Divides(g, b[2]) /\ Divides(g, a[2])
  BY <1>1, GcdDivides DEF Divisors
<1>. HIDE DEF g
<1>3. PICK y \in Nat : b[2] = g * y
  BY <1>2 DEF Divides
<1>4. PICK x \in Nat : a[2] = g * x
  BY <1>2 DEF Divides
<1>5. y # 0 /\ b[2] \div g = y /\ a[2] \div g = x
  BY <1>1, <1>2, <1>3, <1>4, Quotient
<1>. DEFINE n == a[1] * y + b[1] * x
            d == a[2] * y
            p == Frac(n, d)
<1>6. n \in Int /\ d \in Nat \ {0}
  BY <1>1, <1>5
<1>7. Plus(a, b) = p
  BY <1>5 DEF Plus, g
<1>8. p \in Fraction /\ p[1] * d = n * p[2]
  <2>. HIDE DEF n, d
  <2>. QED BY <1>6, FracIs
<1>9. p[1] \in Int /\ p[2] \in Int
  BY <1>8 DEF Fraction
<1>10. g * d = a[2] * b[2] /\ g * n = a[1] * b[2] + b[1] * a[2]
  BY <1>1, <1>2, <1>3, <1>4
<1>11. p[1] * (g * d) = g * (p[1] * d) /\ (g * n) * p[2] = g * (n * p[2])
  <2>. HIDE DEF n, d, p
  <2>. QED BY <1>2, <1>6, <1>9
<1>. HIDE DEF n, d, p
<1>. QED BY <1>7, <1>8, <1>10, <1>11

\* Times multiplies what its arguments stand for.
LEMMA TimesIs ==
    ASSUME NEW a \in Fraction, NEW b \in Fraction
    PROVE  /\ Times(a, b) \in Fraction
           /\ Times(a, b)[1] * (a[2] * b[2]) = (a[1] * b[1]) * Times(a, b)[2]
<1>1. a[1] \in Int /\ a[2] \in Nat \ {0} /\ b[1] \in Int /\ b[2] \in Nat \ {0}
  BY DEF Fraction
<1>. DEFINE p == Frac(a[1], b[2])
            q == Frac(b[1], a[2])
<1>2. p \in Fraction /\ p[1] * b[2] = a[1] * p[2]
  BY <1>1, FracIs
<1>3. q \in Fraction /\ q[1] * a[2] = b[1] * q[2]
  BY <1>1, FracIs
<1>4. Times(a, b) = <<p[1] * q[1], p[2] * q[2]>>
  BY DEF Times
<1>. HIDE DEF p, q
<1>5. p[1] \in Int /\ p[2] \in Nat \ {0} /\ q[1] \in Int /\ q[2] \in Nat \ {0}
  BY <1>2, <1>3 DEF Fraction
<1>6. p[1] * q[1] \in Int /\ p[2] * q[2] \in Nat \ {0}
  BY <1>5
<1>7. (p[1] * q[1]) * (a[2] * b[2]) = (p[1] * b[2]) * (q[1] * a[2])
  BY <1>1, <1>5
<1>8. (a[1] * b[1]) * (p[2] * q[2]) = (a[1] * p[2]) * (b[1] * q[2])
  BY <1>1, <1>5
<1>. QED BY <1>2, <1>3, <1>4, <1>6, <1>7, <1>8 DEF Fraction

\* Minus subtracts it.
LEMMA MinusIs ==
    ASSUME NEW a \in Fraction, NEW b \in Fraction
    PROVE  /\ Minus(a, b) \in Fraction
           /\ Minus(a, b)[1] * (a[2] * b[2]) = (a[1] * b[2] - b[1] * a[2]) * Minus(a, b)[2]
<1>1. a[1] \in Int /\ a[2] \in Nat \ {0} /\ b[1] \in Int /\ b[2] \in Nat \ {0}
  BY DEF Fraction
<1>2. Negative(b) \in Fraction /\ Negative(b)[1] = 0 - b[1] /\ Negative(b)[2] = b[2]
  BY <1>1 DEF Negative, Fraction
<1>3. a[1] * b[2] + (0 - b[1]) * a[2] = a[1] * b[2] - b[1] * a[2]
  BY <1>1
<1>. QED BY <1>2, <1>3, PlusIs DEF Minus

\* A fraction is less than another when it is so with their denominators crossed.
LEMMA LessIs ==
    ASSUME NEW a \in Fraction, NEW b \in Fraction
    PROVE  Less(a, b) <=> a[1] * b[2] < b[1] * a[2]
<1>1. a[1] \in Int /\ a[2] \in Nat \ {0} /\ b[1] \in Int /\ b[2] \in Nat \ {0}
  BY DEF Fraction
<1>. DEFINE m == Minus(a, b)
            k == a[2] * b[2]
            x == a[1] * b[2]
            y == b[1] * a[2]
<1>2. m[1] \in Int /\ m[2] \in Nat \ {0} /\ m[1] * k = (x - y) * m[2]
  BY MinusIs DEF Fraction
<1>3. k \in Int /\ k > 0 /\ x \in Int /\ y \in Int /\ x - y \in Int
  BY <1>1
<1>4. Less(a, b) <=> m[1] < 0
  BY DEF Less
<1>. HIDE DEF m, k, x, y
<1>5. m[1] < 0 <=> k * m[1] < 0
  BY <1>2, <1>3, SignOfProduct
<1>6. x - y < 0 <=> m[2] * (x - y) < 0
  BY <1>2, <1>3, SignOfProduct
<1>7. k * m[1] = m[1] * k /\ m[2] * (x - y) = (x - y) * m[2]
  BY <1>2, <1>3
<1>8. Less(a, b) <=> x < y
  BY <1>2, <1>3, <1>4, <1>5, <1>6, <1>7
<1>. QED BY <1>8 DEF x, y

-----------------------------------------------------------------------------
(* Bounds of fractions, and what keeps them.                               *)

\* a is at most, and at least, n / d.
Below(a, n, d) == a[1] * d <= n * a[2]
Above(a, n, d) == n * a[2] <= a[1] * d

\* The bounds of a sum are the sums of the bounds.
LEMMA PlusBounds ==
    ASSUME NEW a \in Fraction, NEW b \in Fraction,
           NEW n \in Int, NEW m \in Int, NEW d \in Nat \ {0}
    PROVE  /\ Below(a, n, d) /\ Below(b, m, d) => Below(Plus(a, b), n + m, d)
           /\ Above(a, n, d) /\ Above(b, m, d) => Above(Plus(a, b), n + m, d)
<1>1. a[1] \in Int /\ a[2] \in Nat \ {0} /\ b[1] \in Int /\ b[2] \in Nat \ {0}
  BY DEF Fraction
<1>. DEFINE p == Plus(a, b)
            k == a[2] * b[2]
            u == b[2] * (a[1] * d)
            v == a[2] * (b[1] * d)
            w == b[2] * (n * a[2])
            z == a[2] * (m * b[2])
            x == u + v
            y == w + z
<1>2. p[1] \in Int /\ p[2] \in Nat \ {0} /\ p[1] * k = (a[1] * b[2] + b[1] * a[2]) * p[2]
  BY PlusIs DEF Fraction
<1>3. k \in Int /\ k > 0 /\ u \in Int /\ v \in Int /\ w \in Int /\ z \in Int
  BY <1>1
<1>4. k * (p[1] * d) = p[2] * x
  <2>1. k * (p[1] * d) = (p[1] * k) * d
    <3>. HIDE DEF p, k
    <3>. QED BY <1>2, <1>3
  <2>2. ((a[1] * b[2] + b[1] * a[2]) * p[2]) * d = p[2] * x
    <3>. HIDE DEF p
    <3>. QED BY <1>1, <1>2
  <2>. QED BY <1>2, <2>1, <2>2
<1>5. k * ((n + m) * p[2]) = p[2] * y
  <2>1. k * ((n + m) * p[2]) = p[2] * (k * n + k * m)
    <3>. HIDE DEF p, k
    <3>. QED BY <1>2, <1>3
  <2>2. k * n + k * m = y
    <3>1. (a[2] * b[2]) * n = b[2] * (n * a[2])
      BY <1>1
    <3>2. (a[2] * b[2]) * m = a[2] * (m * b[2])
      BY <1>1
    <3>. QED BY <3>1, <3>2
  <2>. HIDE DEF p, k, y
  <2>. QED BY <2>1, <2>2
<1>6. ASSUME Below(a, n, d), Below(b, m, d) PROVE Below(p, n + m, d)
  <2>1. u <= w /\ v <= z
    BY <1>1, <1>6, Scale DEF Below
  <2>. HIDE DEF p, k, u, v, w, z
  <2>2. x \in Int /\ y \in Int /\ x <= y
    BY <1>3, <2>1
  <2>3. p[2] * x <= p[2] * y
    <3>. HIDE DEF x, y
    <3>. QED BY <1>2, <2>2, Scale
  <2>4. p[1] * d \in Int /\ (n + m) * p[2] \in Int
    BY <1>2
  <2>. HIDE DEF x, y
  <2>. QED BY <1>3, <1>4, <1>5, <2>3, <2>4, Cancel DEF Below
<1>7. ASSUME Above(a, n, d), Above(b, m, d) PROVE Above(p, n + m, d)
  <2>1. w <= u /\ z <= v
    BY <1>1, <1>7, Scale DEF Above
  <2>. HIDE DEF p, k, u, v, w, z
  <2>2. x \in Int /\ y \in Int /\ y <= x
    BY <1>3, <2>1
  <2>3. p[2] * y <= p[2] * x
    <3>. HIDE DEF x, y
    <3>. QED BY <1>2, <2>2, Scale
  <2>4. p[1] * d \in Int /\ (n + m) * p[2] \in Int
    BY <1>2
  <2>. HIDE DEF x, y
  <2>. QED BY <1>3, <1>4, <1>5, <2>3, <2>4, Cancel DEF Above
<1>. QED BY <1>6, <1>7

\* Products of numbers that are not negative are ordered like their factors.
LEMMA Products ==
    ASSUME NEW x \in Nat, NEW y \in Nat, NEW z \in Nat, NEW w \in Nat, x <= z, y <= w
    PROVE  x * y <= z * w
<1>1. x * y <= x * w
  BY Scale
<1>2. w * x <= w * z
  BY Scale
<1>3. x * w = w * x /\ z * w = w * z
  OBVIOUS
<1>. QED BY <1>1, <1>2, <1>3

\* The bounds of a product are the products of the bounds.
LEMMA TimesBounds ==
    ASSUME NEW a \in Fraction, NEW b \in Fraction, a[1] >= 0, b[1] >= 0,
           NEW n \in Nat, NEW m \in Nat, NEW d \in Nat \ {0}, NEW e \in Nat \ {0}
    PROVE  /\ Below(a, n, d) /\ Below(b, m, e) => Below(Times(a, b), n * m, d * e)
           /\ Above(a, n, d) /\ Above(b, m, e) => Above(Times(a, b), n * m, d * e)
<1>1. a[1] \in Nat /\ a[2] \in Nat \ {0} /\ b[1] \in Nat /\ b[2] \in Nat \ {0}
  BY DEF Fraction
<1>. DEFINE p == Times(a, b)
            k == a[2] * b[2]
            x == (a[1] * d) * (b[1] * e)
            y == (n * a[2]) * (m * b[2])
<1>2. p[1] \in Int /\ p[2] \in Nat \ {0} /\ p[1] * k = (a[1] * b[1]) * p[2]
  BY TimesIs DEF Fraction
<1>3. k \in Int /\ k > 0 /\ x \in Int /\ y \in Int
  BY <1>1
<1>4. k * (p[1] * (d * e)) = p[2] * x
  <2>1. k * (p[1] * (d * e)) = (p[1] * k) * (d * e)
    <3>. HIDE DEF p, k
    <3>. QED BY <1>2, <1>3
  <2>2. ((a[1] * b[1]) * p[2]) * (d * e) = p[2] * x
    <3>. HIDE DEF p
    <3>. QED BY <1>1, <1>2
  <2>. QED BY <1>2, <2>1, <2>2
<1>5. k * ((n * m) * p[2]) = p[2] * y
  <2>. HIDE DEF p
  <2>. QED BY <1>1, <1>2
<1>6. a[1] * d \in Nat /\ b[1] * e \in Nat /\ n * a[2] \in Nat /\ m * b[2] \in Nat
  BY <1>1
<1>7. p[1] * (d * e) \in Int /\ (n * m) * p[2] \in Int
  BY <1>2
<1>8. ASSUME Below(a, n, d), Below(b, m, e) PROVE Below(p, n * m, d * e)
  <2>1. x <= y
    BY <1>6, <1>8, Products DEF Below
  <2>2. p[2] * x <= p[2] * y
    <3>. HIDE DEF p, x, y
    <3>. QED BY <1>2, <1>3, <2>1, Scale
  <2>. HIDE DEF p, k, x, y
  <2>. QED BY <1>3, <1>4, <1>5, <1>7, <2>2, Cancel DEF Below
<1>9. ASSUME Above(a, n, d), Above(b, m, e) PROVE Above(p, n * m, d * e)
  <2>1. y <= x
    BY <1>6, <1>9, Products DEF Above
  <2>2. p[2] * y <= p[2] * x
    <3>. HIDE DEF p, x, y
    <3>. QED BY <1>2, <1>3, <2>1, Scale
  <2>. HIDE DEF p, k, x, y
  <2>. QED BY <1>3, <1>4, <1>5, <1>7, <2>2, Cancel DEF Above
<1>. QED BY <1>8, <1>9

\* A bound may be reduced, and is a bound of numbers of other denominators.
LEMMA Reduce ==
    ASSUME NEW a \in Fraction, NEW n \in Int, NEW d \in Nat \ {0}, NEW k \in Nat \ {0}
    PROVE  /\ Below(a, k * n, k * d) <=> Below(a, n, d)
           /\ Above(a, k * n, k * d) <=> Above(a, n, d)
<1>1. a[1] \in Int /\ a[2] \in Nat \ {0}
  BY DEF Fraction
<1>2. a[1] * (k * d) = k * (a[1] * d) /\ (k * n) * a[2] = k * (n * a[2])
  BY <1>1
<1>3. a[1] * d \in Int /\ n * a[2] \in Int
  BY <1>1
<1>. QED BY <1>2, <1>3, Cancel DEF Below, Above

\* A fraction bounds itself.
LEMMA Itself ==
    ASSUME NEW a \in Fraction
    PROVE  Below(a, a[1], a[2]) /\ Above(a, a[1], a[2])
BY DEF Below, Above, Fraction

\* The sign of a fraction is that of its numerator.
LEMMA PlusSign ==
    ASSUME NEW a \in Fraction, NEW b \in Fraction, a[1] >= 0, b[1] >= 0
    PROVE  /\ Plus(a, b)[1] >= 0
           /\ Plus(a, b)[1] > 0 <=> a[1] > 0 \/ b[1] > 0
<1>1. a[1] \in Nat /\ a[2] \in Nat \ {0} /\ b[1] \in Nat /\ b[2] \in Nat \ {0}
  BY DEF Fraction
<1>. DEFINE p == Plus(a, b)
            k == a[2] * b[2]
            x == a[1] * b[2]
            y == b[1] * a[2]
<1>2. p[1] \in Int /\ p[2] \in Nat \ {0} /\ p[1] * k = (x + y) * p[2]
  BY PlusIs DEF Fraction
<1>3. k \in Int /\ k > 0 /\ x \in Nat /\ y \in Nat
  BY <1>1
<1>4. (x > 0 <=> a[1] > 0) /\ (y > 0 <=> b[1] > 0)
  <2>1. x = b[2] * a[1] /\ y = a[2] * b[1]
    BY <1>1
  <2>. HIDE DEF x, y
  <2>. QED BY <1>1, <2>1, SignOfProduct
<1>. HIDE DEF p, k, x, y
<1>5. k * p[1] = p[2] * (x + y)
  BY <1>2, <1>3
<1>6. (p[1] >= 0 <=> k * p[1] >= 0) /\ (p[1] > 0 <=> k * p[1] > 0)
  BY <1>2, <1>3, SignOfProduct
<1>7. (x + y >= 0 <=> p[2] * (x + y) >= 0) /\ (x + y > 0 <=> p[2] * (x + y) > 0)
  BY <1>2, <1>3, SignOfProduct
<1>8. p[1] >= 0 /\ (p[1] > 0 <=> x > 0 \/ y > 0)
  BY <1>3, <1>5, <1>6, <1>7
<1>. QED BY <1>4, <1>8 DEF p

\* A product is more than nothing when both factors are.
LEMMA TimesSign ==
    ASSUME NEW a \in Fraction, NEW b \in Fraction, a[1] >= 0, b[1] >= 0
    PROVE  /\ Times(a, b)[1] >= 0
           /\ Times(a, b)[1] > 0 <=> a[1] > 0 /\ b[1] > 0
<1>1. a[1] \in Nat /\ a[2] \in Nat \ {0} /\ b[1] \in Nat /\ b[2] \in Nat \ {0}
  BY DEF Fraction
<1>. DEFINE p == Times(a, b)
            k == a[2] * b[2]
            x == a[1] * b[1]
<1>2. p[1] \in Int /\ p[2] \in Nat \ {0} /\ p[1] * k = x * p[2]
  BY TimesIs DEF Fraction
<1>3. k \in Int /\ k > 0 /\ x \in Nat
  BY <1>1
<1>4. x > 0 <=> a[1] > 0 /\ b[1] > 0
  <2>1. a[1] = 0 => x = 0
    BY <1>1
  <2>2. a[1] > 0 => (x > 0 <=> b[1] > 0)
    BY <1>1, SignOfProduct
  <2>. HIDE DEF x
  <2>. QED BY <1>1, <1>3, <2>1, <2>2
<1>. HIDE DEF p, k, x
<1>5. k * p[1] = p[2] * x
  BY <1>2, <1>3
<1>6. (p[1] >= 0 <=> k * p[1] >= 0) /\ (p[1] > 0 <=> k * p[1] > 0)
  BY <1>2, <1>3, SignOfProduct
<1>7. (x >= 0 <=> p[2] * x >= 0) /\ (x > 0 <=> p[2] * x > 0)
  BY <1>2, <1>3, SignOfProduct
<1>8. p[1] >= 0 /\ (p[1] > 0 <=> x > 0)
  BY <1>3, <1>5, <1>6, <1>7
<1>. QED BY <1>4, <1>8 DEF p

\* The whole numbers.
LEMMA Constants ==
    /\ Zero \in Fraction /\ Zero[1] = 0 /\ Zero[2] = 1
    /\ One \in Fraction /\ One[1] = 1 /\ One[2] = 1
    /\ \A n \in Int : Whole(n) \in Fraction /\ Whole(n)[1] = n /\ Whole(n)[2] = 1
BY DEF Zero, One, Whole, Fraction

\* A smoothing step stays between the values it mixes, and has a part of both.
LEMMA MixIs ==
    ASSUME NEW alpha, Share(alpha), NEW new \in Fraction, NEW old \in Fraction,
           new[1] >= 0, old[1] >= 0, NEW n \in Nat
    PROVE  /\ Mix(alpha, new, old) \in Fraction /\ Mix(alpha, new, old)[1] >= 0
           /\ new[1] > 0 \/ old[1] > 0 => Mix(alpha, new, old)[1] > 0
           /\ Below(new, n, 1) /\ Below(old, n, 1) => Below(Mix(alpha, new, old), n, 1)
           /\ Above(new, n, 1) /\ Above(old, n, 1) => Above(Mix(alpha, new, old), n, 1)
<1>. DEFINE x == alpha[1]
            y == alpha[2]
            rest == Minus(One, alpha)
            s == Times(alpha, new)
            t == Times(rest, old)
<1>1. alpha \in Fraction /\ x \in Nat /\ y \in Nat /\ 0 < x /\ x < y
  BY DEF Share, Fraction
<1>2. rest \in Fraction /\ rest[1] * y = (y - x) * rest[2] /\ rest[2] \in Nat \ {0} /\ rest[1] \in Int
  <2>1. rest \in Fraction /\ rest[1] * (1 * y) = (1 * y - x * 1) * rest[2]
    BY <1>1, MinusIs, Constants
  <2>2. 1 * y = y /\ x * 1 = x
    BY <1>1
  <2>. HIDE DEF rest, x, y
  <2>. QED BY <2>1, <2>2 DEF Fraction
<1>3. Below(rest, y - x, y) /\ Above(rest, y - x, y)
  <2>. HIDE DEF rest, x, y
  <2>. QED BY <1>1, <1>2 DEF Below, Above
<1>4. rest[1] > 0
  <2>. HIDE DEF rest, x, y
  <2>1. y - x > 0 /\ (y - x) * rest[2] > 0
    BY <1>1, <1>2, SignOfProduct
  <2>2. y * rest[1] > 0
    BY <1>1, <1>2, <2>1
  <2>. QED BY <1>1, <1>2, <2>2, SignOfProduct
<1>5. s \in Fraction /\ s[1] >= 0 /\ (s[1] > 0 <=> new[1] > 0)
  <2>1. s \in Fraction
    BY <1>1, TimesIs
  <2>2. alpha[1] >= 0 /\ alpha[1] > 0
    BY <1>1
  <2>. HIDE DEF s, x, y
  <2>3. s[1] >= 0 /\ (s[1] > 0 <=> new[1] > 0)
    BY <1>1, <2>2, TimesSign DEF s
  <2>. QED BY <2>1, <2>3
<1>6. t \in Fraction /\ t[1] >= 0 /\ (t[1] > 0 <=> old[1] > 0)
  <2>. HIDE DEF rest, x, y
  <2>1. t \in Fraction
    BY <1>2, TimesIs
  <2>2. rest[1] >= 0
    BY <1>2, <1>4
  <2>. QED BY <1>2, <1>4, <2>1, <2>2, TimesSign
<1>7. Mix(alpha, new, old) = Plus(s, t)
  BY DEF Mix
<1>8. x * n + (y - x) * n = y * n /\ y * 1 = y
  <2>. HIDE DEF x, y
  <2>. QED BY <1>1
<1>9. y - x \in Nat /\ x * n \in Int /\ (y - x) * n \in Int
  <2>. HIDE DEF x, y
  <2>. QED BY <1>1
<1>10. ASSUME Below(new, n, 1), Below(old, n, 1) PROVE Below(Plus(s, t), n, 1)
  <2>1. Below(s, x * n, y * 1)
    <3>1. Below(alpha, x, y) /\ x \in Nat /\ y \in Nat \ {0} /\ alpha[1] >= 0
      BY <1>1, Itself
    <3>. HIDE DEF x, y
    <3>2. Below(alpha, x, y) /\ Below(new, n, 1) => Below(Times(alpha, new), x * n, y * 1)
      BY <1>1, <3>1, TimesBounds
    <3>. QED BY <1>10, <3>1, <3>2
  <2>2. Below(t, (y - x) * n, y * 1)
    <3>. HIDE DEF rest, x, y
    <3>1. rest \in Fraction /\ rest[1] >= 0 /\ y \in Nat \ {0} /\ y - x \in Nat
      BY <1>1, <1>2, <1>4
    <3>2. Below(rest, y - x, y) /\ Below(old, n, 1) => Below(Times(rest, old), (y - x) * n, y * 1)
      BY <3>1, TimesBounds
    <3>. QED BY <1>3, <1>10, <3>2
  <2>. HIDE DEF s, t, x, y
  <2>3. Below(Plus(s, t), x * n + (y - x) * n, y)
    <3>1. Below(s, x * n, y) /\ Below(t, (y - x) * n, y) /\ y \in Nat \ {0}
      BY <1>1, <1>8, <2>1, <2>2
    <3>. QED BY <1>5, <1>6, <1>9, <3>1, PlusBounds
  <2>. QED BY <1>1, <1>5, <1>6, <1>8, <2>3, Reduce, PlusIs
<1>11. ASSUME Above(new, n, 1), Above(old, n, 1) PROVE Above(Plus(s, t), n, 1)
  <2>1. Above(s, x * n, y * 1)
    <3>1. Above(alpha, x, y) /\ x \in Nat /\ y \in Nat \ {0} /\ alpha[1] >= 0
      BY <1>1, Itself
    <3>. HIDE DEF x, y
    <3>2. Above(alpha, x, y) /\ Above(new, n, 1) => Above(Times(alpha, new), x * n, y * 1)
      BY <1>1, <3>1, TimesBounds
    <3>. QED BY <1>11, <3>1, <3>2
  <2>2. Above(t, (y - x) * n, y * 1)
    <3>. HIDE DEF rest, x, y
    <3>1. rest \in Fraction /\ rest[1] >= 0 /\ y \in Nat \ {0} /\ y - x \in Nat
      BY <1>1, <1>2, <1>4
    <3>2. Above(rest, y - x, y) /\ Above(old, n, 1) => Above(Times(rest, old), (y - x) * n, y * 1)
      BY <3>1, TimesBounds
    <3>. QED BY <1>3, <1>11, <3>2
  <2>. HIDE DEF s, t, x, y
  <2>3. Above(Plus(s, t), x * n + (y - x) * n, y)
    <3>1. Above(s, x * n, y) /\ Above(t, (y - x) * n, y) /\ y \in Nat \ {0}
      BY <1>1, <1>8, <2>1, <2>2
    <3>. QED BY <1>5, <1>6, <1>9, <3>1, PlusBounds
  <2>. QED BY <1>1, <1>5, <1>6, <1>8, <2>3, Reduce, PlusIs
<1>. QED
  <2>. HIDE DEF s, t
  <2>. QED BY <1>5, <1>6, <1>7, <1>10, <1>11, PlusIs, PlusSign

\* What a is over what is at least one is no more than a.
LEMMA OverIs ==
    ASSUME NEW a \in Fraction, NEW b \in Fraction, a[1] >= 0, b[1] > 0
    PROVE  /\ Over(a, b) \in Fraction /\ Over(a, b)[1] >= 0
           /\ Over(a, b)[1] > 0 <=> a[1] > 0
           /\ \A n \in Nat, k \in Nat \ {0} :
                 Below(a, k * n, 1) /\ Above(b, k, 1) => Below(Over(a, b), n, 1)
<1>. DEFINE c == <<b[2], b[1]>>
<1>1. b[1] \in Nat \ {0} /\ b[2] \in Nat \ {0} /\ c \in Fraction
  BY DEF Fraction
<1>2. c[1] = b[2] /\ c[2] = b[1]
  OBVIOUS
<1>3. Over(a, b) = Times(a, c)
  BY DEF Over
<1>4. ASSUME NEW n \in Nat, NEW k \in Nat \ {0}, Below(a, k * n, 1), Above(b, k, 1)
      PROVE  Below(Times(a, c), n, 1)
  <2>1. Below(c, 1, k)
    <3>1. k * b[2] <= b[1] * 1
      BY <1>4 DEF Above
    <3>2. b[2] * k = k * b[2] /\ 1 * b[1] = b[1] * 1
      BY <1>1
    <3>. HIDE DEF c
    <3>. QED BY <1>2, <3>1, <3>2 DEF Below
  <2>. HIDE DEF c
  <2>2. k * n \in Nat
    OBVIOUS
  <2>3. c[1] >= 0
    BY <1>1, <1>2
  <2>4. Below(Times(a, c), (k * n) * 1, 1 * k)
    BY <1>1, <1>4, <2>1, <2>2, <2>3, TimesBounds
  <2>5. (k * n) * 1 = k * n /\ 1 * k = k * 1
    OBVIOUS
  <2>6. Times(a, c) \in Fraction
    BY <1>1, TimesIs
  <2>. QED BY <2>4, <2>5, <2>6, Reduce
<1>. HIDE DEF c
<1>5. c[1] >= 0 /\ c[1] > 0
  BY <1>1, <1>2
<1>. QED BY <1>1, <1>3, <1>4, <1>5, TimesIs, TimesSign

-----------------------------------------------------------------------------
(* Sums and means.                                                         *)

\* What a sum goes through: the sums of the parts of a sequence.
LEMMA TotalIs ==
    ASSUME NEW s \in Seq(Fraction)
    PROVE  \E iter : /\ iter[{}] = Zero
                     /\ \A t \in SUBSET DOMAIN s : t # {} => iter[t] = Plus(iter[t \ {Max(t)}], s[Max(t)])
                     /\ Total(s) = iter[DOMAIN s]
<1>. DEFINE F(f) == [t \in SUBSET DOMAIN s |->
                       IF t = {} THEN Zero ELSE Plus(f[t \ {Max(t)}], s[Max(t)])]
            P(n) == \E f : f = [t \in SUBSET (1..n) |->
                       IF t = {} THEN Zero ELSE Plus(f[t \ {Max(t)}], s[Max(t)])]
            S == {n \in Nat : P(n)}
<1>1. Total(s) = (CHOOSE iter : iter = F(iter))[DOMAIN s]
  BY DEF Total, FoldLeft, MapThenFoldSet
<1>2. P(0)
  <2>1. 1..0 = {} /\ SUBSET (1..0) = {{}}
    OBVIOUS
  <2>. DEFINE f == [t \in SUBSET (1..0) |-> Zero]
  <2>2. f = [t \in SUBSET (1..0) |-> IF t = {} THEN Zero ELSE Plus(f[t \ {Max(t)}], s[Max(t)])]
    BY <2>1
  <2>. QED BY <2>2
<1>3. ASSUME NEW n \in Nat, P(n) PROVE P(n + 1)
  <2>1. PICK f : f = [t \in SUBSET (1..n) |->
                       IF t = {} THEN Zero ELSE Plus(f[t \ {Max(t)}], s[Max(t)])]
    BY <1>3
  <2>. DEFINE g == [t \in SUBSET (1..(n + 1)) |->
                       IF n + 1 \in t THEN Plus(f[t \ {n + 1}], s[n + 1]) ELSE f[t]]
  <2>2. ASSUME NEW t \in SUBSET (1..(n + 1))
        PROVE  g[t] = IF t = {} THEN Zero ELSE Plus(g[t \ {Max(t)}], s[Max(t)])
    <3>1. CASE n + 1 \in t
      <4>1. Max(t) = n + 1
        <5>1. \A x \in t : x \in Int /\ n + 1 >= x
          OBVIOUS
        <5>2. \A x \in t : (\A y \in t : x >= y) => x >= n + 1
          BY <3>1
        <5>3. \A x \in t : (\A y \in t : x >= y) => x = n + 1
          BY <5>1, <5>2
        <5>. QED BY <3>1, <5>1, <5>3 DEF Max
      <4>2. t \ {n + 1} \in SUBSET (1..n) /\ t \ {n + 1} \in SUBSET (1..(n + 1))
        OBVIOUS
      <4>3. g[t \ {n + 1}] = f[t \ {n + 1}]
        BY <4>2
      <4>. QED BY <3>1, <4>1, <4>3
    <3>2. CASE n + 1 \notin t
      <4>1. t \in SUBSET (1..n)
        BY <3>2
      <4>2. g[t] = f[t] /\ f[t] = IF t = {} THEN Zero ELSE Plus(f[t \ {Max(t)}], s[Max(t)])
        BY <2>1, <3>2, <4>1
      <4>3. t \ {Max(t)} \in SUBSET (1..(n + 1)) /\ n + 1 \notin t \ {Max(t)}
        BY <3>2
      <4>4. g[t \ {Max(t)}] = f[t \ {Max(t)}]
        BY <4>3
      <4>. HIDE DEF g
      <4>. QED BY <4>2, <4>4
    <3>. QED BY <3>1, <3>2
  <2>3. g = [t \in SUBSET (1..(n + 1)) |-> g[t]]
    OBVIOUS
  <2>4. g = [t \in SUBSET (1..(n + 1)) |-> IF t = {} THEN Zero ELSE Plus(g[t \ {Max(t)}], s[Max(t)])]
    <3>. HIDE DEF g
    <3>. QED BY <2>2, <2>3
  <2>. HIDE DEF g
  <2>. WITNESS g
  <2>. QED BY <2>4
<1>4. Nat \subseteq S
  <2>. HIDE DEF P
  <2>1. 0 \in S /\ \A n \in Nat : n \in S => n + 1 \in S
    BY <1>2, <1>3
  <2>. HIDE DEF S
  <2>. QED BY <2>1, InductiveSet
<1>5. Len(s) \in Nat /\ DOMAIN s = 1..Len(s)
  OBVIOUS
<1>6. \E f : f = F(f)
  <2>1. P(Len(s))
    <3>. HIDE DEF P
    <3>. QED BY <1>4, <1>5
  <2>2. PICK f : f = [t \in SUBSET (1..Len(s)) |->
                       IF t = {} THEN Zero ELSE Plus(f[t \ {Max(t)}], s[Max(t)])]
    BY <2>1
  <2>. QED BY <1>5, <2>2
<1>. DEFINE iter == CHOOSE f : f = F(f)
<1>7. iter = F(iter)
  <2>. HIDE DEF F
  <2>. QED BY <1>6
<1>8. Total(s) = iter[DOMAIN s]
  <2>. HIDE DEF F
  <2>. QED BY <1>1
<1>. HIDE DEF iter
<1>9. iter[{}] = Zero
  BY <1>7
<1>10. \A t \in SUBSET DOMAIN s : t # {} => iter[t] = Plus(iter[t \ {Max(t)}], s[Max(t)])
  BY <1>7
<1>. QED BY <1>8, <1>9, <1>10

\* The sums of the first values of a sequence, up to that of all.
LEMMA TotalSteps ==
    ASSUME NEW s \in Seq(Fraction)
    PROVE  \E sum : /\ sum[0] = Zero
                    /\ \A k \in 0..(Len(s) - 1) : sum[k + 1] = Plus(sum[k], s[k + 1])
                    /\ Total(s) = sum[Len(s)]
<1>1. PICK iter : /\ iter[{}] = Zero
                  /\ \A t \in SUBSET DOMAIN s : t # {} => iter[t] = Plus(iter[t \ {Max(t)}], s[Max(t)])
                  /\ Total(s) = iter[DOMAIN s]
  BY TotalIs
<1>. DEFINE n == Len(s)
            sum == [k \in 0..n |-> iter[1..k]]
<1>2. n \in Nat /\ DOMAIN s = 1..n
  OBVIOUS
<1>. HIDE DEF n
<1>3. sum[0] = Zero
  BY <1>1, <1>2
<1>4. ASSUME NEW k \in 0..(n - 1) PROVE sum[k + 1] = Plus(sum[k], s[k + 1])
  <2>1. k \in 0..n /\ k + 1 \in 0..n /\ 1..(k + 1) \in SUBSET (1..n) /\ 1..(k + 1) # {}
    BY <1>2
  <2>2. Max(1..(k + 1)) = k + 1
    <3>1. \A x \in 1..(k + 1) : x \in Int /\ k + 1 >= x
      OBVIOUS
    <3>2. \A x \in 1..(k + 1) : (\A y \in 1..(k + 1) : x >= y) => x = k + 1
      OBVIOUS
    <3>3. k + 1 \in 1..(k + 1)
      OBVIOUS
    <3>. QED BY <3>1, <3>2, <3>3 DEF Max
  <2>3. (1..(k + 1)) \ {k + 1} = 1..k
    OBVIOUS
  <2>4. iter[1..(k + 1)] = Plus(iter[1..k], s[k + 1])
    BY <1>1, <1>2, <2>1, <2>2, <2>3
  <2>. QED BY <2>1, <2>4
<1>5. Total(s) = sum[n]
  BY <1>1, <1>2
<1>. HIDE DEF sum
<1>. QED BY <1>3, <1>4, <1>5 DEF n

\* A sum of fractions is a fraction.
LEMMA TotalTyped ==
    ASSUME NEW s \in Seq(Fraction)
    PROVE  Total(s) \in Fraction
<1>1. PICK sum : /\ sum[0] = Zero
                 /\ \A k \in 0..(Len(s) - 1) : sum[k + 1] = Plus(sum[k], s[k + 1])
                 /\ Total(s) = sum[Len(s)]
  BY TotalSteps
<1>. DEFINE S == {k \in Nat : k <= Len(s) => sum[k] \in Fraction}
<1>2. 0 \in S
  BY <1>1, Constants
<1>3. ASSUME NEW k \in Nat, k \in S PROVE k + 1 \in S
  <2>. SUFFICES ASSUME k + 1 <= Len(s) PROVE sum[k + 1] \in Fraction
    OBVIOUS
  <2>1. k \in 0..(Len(s) - 1) /\ k + 1 \in 1..Len(s) /\ sum[k] \in Fraction
    BY <1>3
  <2>2. s[k + 1] \in Fraction
    BY <2>1
  <2>. QED BY <1>1, <2>1, <2>2, PlusIs
<1>. HIDE DEF S
<1>4. Len(s) \in S
  BY <1>2, <1>3, InductiveSet
<1>. QED BY <1>1, <1>4 DEF S

\* A sum of numbers between nothing and n.
LEMMA TotalBounds ==
    ASSUME NEW s \in Seq(Fraction), \A i \in 1..Len(s) : s[i][1] >= 0
    PROVE  /\ Total(s) \in Fraction /\ Total(s)[1] >= 0
           /\ (\E i \in 1..Len(s) : s[i][1] > 0) => Total(s)[1] > 0
           /\ \A n \in Nat : (\A i \in 1..Len(s) : Below(s[i], n, 1)) => Below(Total(s), Len(s) * n, 1)
<1>1. PICK sum : /\ sum[0] = Zero
                 /\ \A k \in 0..(Len(s) - 1) : sum[k + 1] = Plus(sum[k], s[k + 1])
                 /\ Total(s) = sum[Len(s)]
  BY TotalSteps
<1>. DEFINE Good(k) ==
                /\ sum[k] \in Fraction /\ sum[k][1] >= 0
                /\ (\E i \in 1..k : s[i][1] > 0) => sum[k][1] > 0
                /\ \A n \in Nat : (\A i \in 1..Len(s) : Below(s[i], n, 1)) => Below(sum[k], k * n, 1)
            S == {k \in Nat : k <= Len(s) => Good(k)}
<1>2. Good(0)
  <2>1. sum[0] \in Fraction /\ sum[0][1] = 0 /\ sum[0][2] = 1
    BY <1>1, Constants
  <2>2. \A n \in Nat : 0 * n = 0
    OBVIOUS
  <2>. QED BY <2>1, <2>2 DEF Below
<1>3. ASSUME NEW k \in Nat, k + 1 <= Len(s), Good(k) PROVE Good(k + 1)
  <2>1. k \in 0..(Len(s) - 1) /\ k + 1 \in 1..Len(s)
    BY <1>3
  <2>2. s[k + 1] \in Fraction /\ s[k + 1][1] >= 0
    BY <2>1
  <2>3. sum[k + 1] = Plus(sum[k], s[k + 1])
    BY <1>1, <2>1
  <2>4. sum[k] \in Fraction /\ sum[k][1] >= 0
    BY <1>3
  <2>5. sum[k + 1] \in Fraction /\ sum[k + 1][1] >= 0
    BY <2>2, <2>3, <2>4, PlusIs, PlusSign
  <2>6. ASSUME NEW i \in 1..(k + 1), s[i][1] > 0 PROVE sum[k + 1][1] > 0
    <3>1. i \in 1..k \/ i = k + 1
      OBVIOUS
    <3>2. sum[k][1] > 0 \/ s[k + 1][1] > 0
      BY <1>3, <2>6, <3>1
    <3>. QED BY <2>2, <2>3, <2>4, <3>2, PlusSign
  <2>7. ASSUME NEW n \in Nat, \A i \in 1..Len(s) : Below(s[i], n, 1)
        PROVE  Below(sum[k + 1], (k + 1) * n, 1)
    <3>1. Below(sum[k], k * n, 1) /\ Below(s[k + 1], n, 1)
      BY <1>3, <2>1, <2>7
    <3>2. (k + 1) * n = k * n + n /\ k * n \in Int
      OBVIOUS
    <3>. QED BY <2>2, <2>3, <2>4, <3>1, <3>2, PlusBounds
  <2>. QED BY <2>5, <2>6, <2>7
<1>4. Nat \subseteq S
  <2>. HIDE DEF Good
  <2>1. 0 \in S
    BY <1>2
  <2>2. ASSUME NEW k \in Nat, k \in S PROVE k + 1 \in S
    <3>1. Len(s) \in Nat /\ (k + 1 <= Len(s) => k <= Len(s))
      OBVIOUS
    <3>2. k + 1 <= Len(s) => Good(k)
      BY <2>2, <3>1
    <3>3. k + 1 <= Len(s) => Good(k + 1)
      BY <1>3, <3>2
    <3>. QED BY <3>3
  <2>. HIDE DEF S
  <2>. QED BY <2>1, <2>2, InductiveSet
<1>5. Good(Len(s))
  <2>. HIDE DEF Good
  <2>. QED BY <1>4
<1>. QED BY <1>1, <1>5

\* r is nothing or more, something if any of the values is, and not above them all.
Between(r, values) ==
    /\ r \in Fraction /\ r[1] >= 0
    /\ (\E i \in 1..Len(values) : values[i][1] > 0) => r[1] > 0
    /\ \A n \in Nat : (\A i \in 1..Len(values) : Below(values[i], n, 1)) => Below(r, n, 1)

\* fmean: the mean is between the values.
LEMMA MeanIs ==
    ASSUME NEW s \in Seq(Fraction), \A i \in 1..Len(s) : s[i][1] >= 0
    PROVE  Between(Mean(s), s)
<1>1. CASE s = << >>
  <2>1. Mean(s) = Zero /\ Len(s) = 0
    BY <1>1 DEF Mean
  <2>. QED BY <2>1, Constants DEF Below, Between
<1>2. CASE s # << >>
  <2>1. Len(s) \in Nat \ {0} /\ Mean(s) = Over(Total(s), Whole(Len(s)))
    BY <1>2 DEF Mean
  <2>2. Whole(Len(s)) \in Fraction /\ Whole(Len(s))[1] = Len(s) /\ Above(Whole(Len(s)), Len(s), 1)
    BY <2>1, Constants DEF Above
  <2>3. Total(s) \in Fraction /\ Total(s)[1] >= 0
    BY TotalBounds
  <2>4. Mean(s) \in Fraction /\ Mean(s)[1] >= 0 /\ (Mean(s)[1] > 0 <=> Total(s)[1] > 0)
    BY <2>1, <2>2, <2>3, OverIs
  <2>5. ASSUME NEW n \in Nat, \A i \in 1..Len(s) : Below(s[i], n, 1) PROVE Below(Mean(s), n, 1)
    <3>1. Below(Total(s), Len(s) * n, 1)
      BY <2>5, TotalBounds
    <3>. QED BY <2>1, <2>2, <2>3, <3>1, OverIs
  <2>6. (\E i \in 1..Len(s) : s[i][1] > 0) => Total(s)[1] > 0
    BY TotalBounds
  <2>. QED BY <2>4, <2>5, <2>6 DEF Between
<1>. QED BY <1>1, <1>2

-----------------------------------------------------------------------------
(* The least, and the first of the lowest.                                 *)

\* A finite set of naturals has a bound ...
LEMMA Bounded ==
    ASSUME NEW S, S \subseteq Nat, IsFiniteSet(S)
    PROVE  \E b \in Nat : \A x \in S : x <= b
<1>1. PICK s \in Seq(S) : \A x \in S : \E i \in 1..Len(s) : s[i] = x
  BY DEF IsFiniteSet
<1>. DEFINE P(k) == \E b \in Nat : \A i \in 1..k : s[i] <= b
            T == {k \in Nat : k <= Len(s) => P(k)}
<1>2. P(0)
  <2>1. \A i \in 1..0 : s[i] <= 0
    OBVIOUS
  <2>. QED BY <2>1
<1>3. ASSUME NEW k \in Nat, k + 1 <= Len(s), P(k) PROVE P(k + 1)
  <2>1. PICK b \in Nat : \A i \in 1..k : s[i] <= b
    BY <1>3
  <2>2. s[k + 1] \in Nat
    <3>1. k + 1 \in 1..Len(s)
      BY <1>3
    <3>2. s[k + 1] \in S
      BY <1>1, <3>1
    <3>. QED BY <3>2
  <2>3. \A i \in 1..k : s[i] \in Nat
    <3>1. \A i \in 1..k : i \in 1..Len(s)
      BY <1>3
    <3>2. \A i \in 1..k : s[i] \in S
      BY <1>1, <3>1
    <3>. QED BY <3>2
  <2>4. b + s[k + 1] \in Nat /\ \A i \in 1..(k + 1) : s[i] <= b + s[k + 1]
    BY <2>1, <2>2, <2>3
  <2>. QED BY <2>4
<1>4. Nat \subseteq T
  <2>. HIDE DEF P
  <2>1. 0 \in T /\ \A k \in Nat : k \in T => k + 1 \in T
    BY <1>2, <1>3
  <2>. HIDE DEF T
  <2>. QED BY <2>1, InductiveSet
<1>5. P(Len(s))
  <2>. HIDE DEF P
  <2>1. Len(s) \in Nat
    OBVIOUS
  <2>. QED BY <1>4, <2>1
<1>. QED BY <1>1, <1>5

\* ... so that, unless it is empty, it has a greatest and a least member.
LEMMA LatestIs ==
    ASSUME NEW S, S \subseteq Nat, IsFiniteSet(S), S # {}
    PROVE  Latest(S) \in S /\ \A x \in S : x <= Latest(S)
<1>. DEFINE B == {b \in Nat : \A x \in S : x <= b}
<1>1. B \subseteq Nat /\ B # {}
  BY Bounded
<1>2. PICK b \in B : \A m \in B : b <= m
  <2>. HIDE DEF B
  <2>. QED BY <1>1, LeastOf
<1>3. b \in S
  <2>. SUFFICES ASSUME b \notin S PROVE FALSE
    OBVIOUS
  <2>1. b \in Nat /\ \A x \in S : x < b /\ x \in Nat
    BY <1>2
  <2>2. b # 0
    <3>1. PICK x \in S : TRUE
      OBVIOUS
    <3>. QED BY <2>1, <3>1
  <2>3. b - 1 \in B
    BY <2>1, <2>2
  <2>. QED BY <1>2, <2>1, <2>3
<1>4. \A x \in S : x <= b
  BY <1>2
<1>. QED BY <1>3, <1>4 DEF Latest

\* A set of naturals with a member has a least one.
LEMMA EarliestIs ==
    ASSUME NEW S, S \subseteq Nat, S # {}
    PROVE  Earliest(S) \in S /\ \A x \in S : Earliest(S) <= x
BY LeastOf DEF Earliest

\* The order of fractions.
LEMMA AtMostIs ==
    ASSUME NEW a \in Fraction, NEW b \in Fraction
    PROVE  AtMost(a, b) <=> a[1] * b[2] <= b[1] * a[2]
<1>1. Less(b, a) <=> b[1] * a[2] < a[1] * b[2]
  BY LessIs
<1>2. a[1] * b[2] \in Int /\ b[1] * a[2] \in Int
  BY DEF Fraction
<1>. QED BY <1>1, <1>2 DEF AtMost

\* Less is the strict part of AtMost, and both are transitive.
LEMMA OrderIs ==
    ASSUME NEW a \in Fraction, NEW b \in Fraction, NEW c \in Fraction
    PROVE  /\ Less(a, b) => AtMost(a, b)
           /\ AtMost(a, a)
           /\ Less(a, b) \/ AtMost(b, a)
           /\ Less(a, b) /\ AtMost(b, c) => Less(a, c)
           /\ AtMost(a, b) /\ Less(b, c) => Less(a, c)
           /\ AtMost(a, b) /\ AtMost(b, c) => AtMost(a, c)
<1>1. a[1] \in Int /\ a[2] \in Nat \ {0} /\ b[1] \in Int /\ b[2] \in Nat \ {0}
        /\ c[1] \in Int /\ c[2] \in Nat \ {0}
  BY DEF Fraction
<1>. DEFINE ab == a[1] * b[2]
            ba == b[1] * a[2]
            bc == b[1] * c[2]
            cb == c[1] * b[2]
            ac == a[1] * c[2]
            ca == c[1] * a[2]
<1>2. ab \in Int /\ ba \in Int /\ bc \in Int /\ cb \in Int /\ ac \in Int /\ ca \in Int
  BY <1>1
<1>3. /\ c[2] * ab = b[2] * ac /\ c[2] * ba = a[2] * bc /\ a[2] * cb = b[2] * ca
  BY <1>1
<1>4. /\ Less(a, b) <=> ab < ba
      /\ Less(b, c) <=> bc < cb
      /\ Less(a, c) <=> ac < ca
      /\ AtMost(a, b) <=> ab <= ba
      /\ AtMost(b, c) <=> bc <= cb
      /\ AtMost(a, c) <=> ac <= ca
      /\ AtMost(b, a) <=> ba <= ab
      /\ AtMost(a, a)
  <2>1. a[1] * a[2] <= a[1] * a[2]
    BY <1>1
  <2>. QED BY <2>1, LessIs, AtMostIs
<1>. HIDE DEF ab, ba, bc, cb, ac, ca
<1>5. /\ ab < ba <=> c[2] * ab < c[2] * ba
      /\ ab <= ba <=> c[2] * ab <= c[2] * ba
  BY <1>1, <1>2, Cancel
<1>6. /\ bc < cb <=> a[2] * bc < a[2] * cb
      /\ bc <= cb <=> a[2] * bc <= a[2] * cb
  BY <1>1, <1>2, Cancel
<1>7. /\ ac < ca <=> b[2] * ac < b[2] * ca
      /\ ac <= ca <=> b[2] * ac <= b[2] * ca
  BY <1>1, <1>2, Cancel
<1>8. c[2] * ab \in Int /\ c[2] * ba \in Int /\ a[2] * cb \in Int
  BY <1>1, <1>2
<1>9. /\ ab < ba /\ bc <= cb => ac < ca
      /\ ab <= ba /\ bc < cb => ac < ca
      /\ ab <= ba /\ bc <= cb => ac <= ca
  BY <1>3, <1>5, <1>6, <1>7, <1>8
<1>. QED BY <1>2, <1>4, <1>9

\* Of numbered fractions there is a first of the lowest.
LEMMA FirstLowest ==
    ASSUME NEW S, S \subseteq Nat, IsFiniteSet(S), S # {}, NEW m, \A i \in S : m[i] \in Fraction
    PROVE  \E i \in S : \A j \in S : IF j < i THEN Less(m[i], m[j]) ELSE AtMost(m[i], m[j])
<1>. DEFINE First(R) == \E i \in R : \A j \in R : IF j < i THEN Less(m[i], m[j]) ELSE AtMost(m[i], m[j])
            T == {k \in Nat : \A R \in SUBSET S : R # {} /\ (\A i \in R : i <= k) => First(R)}
<1>1. 0 \in T
  <2>. SUFFICES ASSUME NEW R \in SUBSET S, R # {}, \A i \in R : i <= 0 PROVE First(R)
    OBVIOUS
  <2>1. 0 \in R /\ \A j \in R : j = 0
    <3>1. \A j \in R : j = 0
      OBVIOUS
    <3>. QED BY <3>1
  <2>2. AtMost(m[0], m[0])
    BY <2>1, OrderIs
  <2>. QED BY <2>1, <2>2
<1>2. ASSUME NEW k \in Nat, k \in T PROVE k + 1 \in T
  <2>. SUFFICES ASSUME NEW R \in SUBSET S, R # {}, \A i \in R : i <= k + 1 PROVE First(R)
    OBVIOUS
  <2>. DEFINE Q == R \ {k + 1}
  <2>1. \A i \in Q : i <= k
    OBVIOUS
  <2>2. CASE Q = {}
    <3>1. k + 1 \in R /\ \A j \in R : j = k + 1
      BY <2>2
    <3>2. AtMost(m[k + 1], m[k + 1])
      BY <3>1, OrderIs
    <3>. QED BY <3>1, <3>2
  <2>3. CASE Q # {} /\ k + 1 \notin R
    <3>1. Q = R
      BY <2>3
    <3>. HIDE DEF First, Q
    <3>. QED BY <1>2, <2>1, <2>3, <3>1
  <2>4. CASE Q # {} /\ k + 1 \in R
    <3>1. PICK i \in Q : \A j \in Q : IF j < i THEN Less(m[i], m[j]) ELSE AtMost(m[i], m[j])
      <4>1. First(Q)
        <5>. HIDE DEF First
        <5>1. Q \in SUBSET S
          OBVIOUS
        <5>. HIDE DEF Q
        <5>. QED BY <1>2, <2>1, <2>4, <5>1
      <4>. QED BY <4>1
    <3>2. i \in R /\ i <= k /\ \A j \in R : j \in Q \/ j = k + 1
      BY <2>1, <3>1
    <3>3. Q \subseteq R /\ \A j \in R : m[j] \in Fraction /\ j \in Nat
      OBVIOUS
    <3>. HIDE DEF Q
    <3>4. CASE Less(m[k + 1], m[i])
      <4>1. \A j \in Q : AtMost(m[i], m[j])
        BY <3>1, <3>2, <3>3, OrderIs
      <4>2. \A j \in Q : Less(m[k + 1], m[j])
        BY <2>4, <3>2, <3>3, <3>4, <4>1, OrderIs
      <4>3. AtMost(m[k + 1], m[k + 1])
        BY <2>4, <3>3, OrderIs
      <4>. QED BY <2>4, <3>2, <4>2, <4>3, OrderIs
    <3>5. CASE ~ Less(m[k + 1], m[i])
      <4>1. AtMost(m[i], m[k + 1])
        BY <3>5 DEF AtMost
      <4>2. ~ (k + 1 < i)
        BY <3>2
      <4>. QED BY <3>1, <3>2, <4>1, <4>2
    <3>. QED BY <3>4, <3>5
  <2>. QED BY <2>2, <2>3, <2>4
<1>3. PICK b \in Nat : \A x \in S : x <= b
  BY Bounded
<1>4. b \in T
  <2>. HIDE DEF T
  <2>. QED BY <1>1, <1>2, InductiveSet
<1>. QED BY <1>3, <1>4

-----------------------------------------------------------------------------
(* The models without a trend: each forecasts a rate between the values.   *)

\* The levels of smoothing are what its recursion says.
LEMMA LevelsAre ==
    ASSUME NEW values \in Seq(Fraction), NEW alpha
    PROVE  \A i \in 1..Len(values) :
              Levels(values, alpha)[i] =
                 IF i = 1 THEN values[1] ELSE Mix(alpha, values[i], Levels(values, alpha)[i - 1])
<1>. DEFINE Entry(f, i) == IF i = 1 THEN values[1] ELSE Mix(alpha, values[i], f[i - 1])
            P(n) == \E f : f = [i \in 1..n |-> Entry(f, i)]
            S == {n \in Nat : P(n)}
<1>1. P(0)
  <2>. DEFINE f == [i \in 1..0 |-> 0]
  <2>1. f = [i \in 1..0 |-> Entry(f, i)]
    OBVIOUS
  <2>. QED BY <2>1
<1>2. ASSUME NEW n \in Nat, P(n) PROVE P(n + 1)
  <2>1. PICK f : f = [i \in 1..n |-> Entry(f, i)]
    BY <1>2
  <2>. DEFINE g == [i \in 1..(n + 1) |-> IF i = n + 1 THEN Entry(f, i) ELSE f[i]]
  <2>2. ASSUME NEW i \in 1..(n + 1) PROVE g[i] = Entry(g, i)
    <3>1. CASE i = 1
      <4>1. i # n + 1 => i \in 1..n /\ f[i] = Entry(f, i)
        BY <2>1
      <4>. QED BY <3>1, <4>1
    <3>2. CASE i # 1
      <4>1. i - 1 \in 1..n /\ i - 1 \in 1..(n + 1) /\ i - 1 # n + 1
        BY <3>2
      <4>2. g[i - 1] = f[i - 1]
        BY <4>1
      <4>3. i # n + 1 => i \in 1..n /\ f[i] = Entry(f, i)
        BY <2>1
      <4>4. g[i] = Entry(f, i)
        BY <4>3
      <4>. HIDE DEF g
      <4>. QED BY <3>2, <4>2, <4>4
    <3>. QED BY <3>1, <3>2
  <2>3. g = [i \in 1..(n + 1) |-> g[i]]
    OBVIOUS
  <2>. HIDE DEF g
  <2>4. g = [i \in 1..(n + 1) |-> Entry(g, i)]
    BY <2>2, <2>3
  <2>. WITNESS g
  <2>. QED BY <2>4
<1>3. P(Len(values))
  <2>. HIDE DEF P
  <2>1. 0 \in S /\ \A n \in Nat : n \in S => n + 1 \in S
    BY <1>1, <1>2
  <2>2. Nat \subseteq S
    <3>. HIDE DEF S
    <3>. QED BY <2>1, InductiveSet
  <2>. QED BY <2>2
<1>. DEFINE F(f) == [i \in 1..Len(values) |-> Entry(f, i)]
            level == CHOOSE f : f = F(f)
<1>4. Levels(values, alpha) = level
  BY DEF Levels
<1>5. level = F(level)
  <2>1. \E f : f = F(f)
    BY <1>3
  <2>. HIDE DEF F
  <2>. QED BY <2>1
<1>. HIDE DEF level
<1>. QED BY <1>4, <1>5

\* The levels stay between the values, and keep a part of all of them.
LEMMA LevelsBounds ==
    ASSUME NEW values \in Seq(Fraction), \A i \in 1..Len(values) : values[i][1] >= 0,
           NEW alpha, Share(alpha), NEW k \in 1..Len(values)
    PROVE  LET level == Levels(values, alpha)[k]
           IN  /\ level \in Fraction /\ level[1] >= 0
               /\ (\E i \in 1..k : values[i][1] > 0) => level[1] > 0
               /\ \A n \in Nat : (\A i \in 1..Len(values) : Below(values[i], n, 1)) => Below(level, n, 1)
<1>. DEFINE level == Levels(values, alpha)
            Good(i) ==
                /\ level[i] \in Fraction /\ level[i][1] >= 0
                /\ (\E j \in 1..i : values[j][1] > 0) => level[i][1] > 0
                /\ \A n \in Nat : (\A j \in 1..Len(values) : Below(values[j], n, 1)) => Below(level[i], n, 1)
            S == {i \in Nat : i \in 1..Len(values) => Good(i)}
<1>1. ASSUME 1 <= Len(values) PROVE Good(1)
  <2>1. 1 \in 1..Len(values) /\ level[1] = values[1]
    <3>1. 1 \in 1..Len(values)
      BY <1>1
    <3>. HIDE DEF Good
    <3>. QED BY <3>1, LevelsAre
  <2>2. \A j \in 1..1 : j = 1
    OBVIOUS
  <2>3. values[1] \in Fraction
    BY <2>1
  <2>. HIDE DEF level
  <2>. QED BY <2>1, <2>2, <2>3
<1>2. ASSUME NEW i \in Nat, i \in 1..Len(values), i + 1 \in 1..Len(values), Good(i) PROVE Good(i + 1)
  <2>1. level[i + 1] = Mix(alpha, values[i + 1], level[i])
    <3>1. i + 1 # 1 /\ i + 1 - 1 = i
      BY <1>2
    <3>. QED BY <1>2, <3>1, LevelsAre
  <2>. HIDE DEF level
  <2>2. values[i + 1] \in Fraction /\ values[i + 1][1] >= 0
    BY <1>2
  <2>3. level[i] \in Fraction /\ level[i][1] >= 0
    BY <1>2
  <2>4. level[i + 1] \in Fraction /\ level[i + 1][1] >= 0
    BY <2>1, <2>2, <2>3, MixIs
  <2>5. ASSUME NEW j \in 1..(i + 1), values[j][1] > 0 PROVE level[i + 1][1] > 0
    <3>1. j \in 1..i \/ j = i + 1
      OBVIOUS
    <3>2. level[i][1] > 0 \/ values[i + 1][1] > 0
      BY <1>2, <2>5, <3>1
    <3>. QED BY <2>1, <2>2, <2>3, <3>2, MixIs
  <2>6. ASSUME NEW n \in Nat, \A j \in 1..Len(values) : Below(values[j], n, 1)
        PROVE  Below(level[i + 1], n, 1)
    <3>1. Below(level[i], n, 1) /\ Below(values[i + 1], n, 1)
      BY <1>2, <2>6
    <3>. QED BY <2>1, <2>2, <2>3, <3>1, MixIs
  <2>. QED BY <2>4, <2>5, <2>6
<1>3. Nat \subseteq S
  <2>. HIDE DEF Good
  <2>1. 0 \in S
    OBVIOUS
  <2>2. ASSUME NEW i \in Nat, i \in S PROVE i + 1 \in S
    <3>. SUFFICES ASSUME i + 1 \in 1..Len(values) PROVE Good(i + 1)
      OBVIOUS
    <3>1. CASE i = 0
      BY <1>1, <3>1
    <3>2. CASE i # 0
      <4>1. i \in 1..Len(values)
        BY <3>2
      <4>. QED BY <1>2, <2>2, <4>1
    <3>. QED BY <3>1, <3>2
  <2>. HIDE DEF S
  <2>. QED BY <2>1, <2>2, InductiveSet
<1>4. Good(k)
  <2>. HIDE DEF Good
  <2>. QED BY <1>3
<1>. QED BY <1>4

\* _one_step_mse: how far a path is off is a number.
LEMMA MisfitTyped ==
    ASSUME NEW values \in Seq(Fraction), NEW fitted, \A i \in 1..Len(values) : fitted[i] \in Fraction,
           Len(values) # 0
    PROVE  Misfit(values, fitted) \in Fraction
<1>. DEFINE n == Len(values) - 1
            Square(d) == Times(d, d)
            s == [i \in 1..n |-> Square(Minus(values[i + 1], fitted[i + 1]))]
<1>1. Len(values) \in Nat /\ n \in Nat
  OBVIOUS
<1>2. ASSUME NEW i \in 1..n PROVE Square(Minus(values[i + 1], fitted[i + 1])) \in Fraction
  <2>1. i + 1 \in 1..Len(values)
    BY <1>1
  <2>2. values[i + 1] \in Fraction /\ fitted[i + 1] \in Fraction
    BY <2>1
  <2>. QED BY <2>2, MinusIs, TimesIs
<1>3. s \in Seq(Fraction)
  <2>. HIDE DEF Square, n
  <2>. QED BY <1>1, <1>2
<1>4. Misfit(values, fitted) = Total(s)
  BY DEF Misfit
<1>. QED BY <1>3, <1>4, TotalTyped

\* The parameter that fits best is one of the grid.
LEMMA BestFitIsOfGrid ==
    ASSUME NEW grid, Len(grid) \in Nat \ {0}, NEW values \in Seq(Fraction), NEW paths,
           \A i \in 1..Len(grid), k \in 1..Len(values) : paths[i][k] \in Fraction
    PROVE  \E i \in 1..Len(grid) : BestFit(grid, values, paths) = grid[i]
<1>1. CASE Len(values) < 3
  BY <1>1 DEF BestFit
<1>2. CASE ~ (Len(values) < 3)
  <2>. DEFINE S == 1..Len(grid)
              m == [i \in S |-> Misfit(values, paths[i])]
              First(i) == \A j \in S :
                  LET mine == Misfit(values, paths[i])
                      other == Misfit(values, paths[j])
                  IN  IF j < i THEN Less(mine, other) ELSE AtMost(mine, other)
  <2>1. \A i \in S : m[i] \in Fraction
    <3>1. Len(values) # 0
      BY <1>2
    <3>. QED BY <3>1, MisfitTyped
  <2>2. S \subseteq Nat /\ IsFiniteSet(S) /\ S # {}
    <3>1. IsFiniteSet(1..Len(grid))
      BY FS_Interval
    <3>2. 1 \in S /\ S \subseteq Nat
      OBVIOUS
    <3>. QED BY <3>1, <3>2
  <2>3. PICK i \in S : \A j \in S : IF j < i THEN Less(m[i], m[j]) ELSE AtMost(m[i], m[j])
    <3>. HIDE DEF S, m
    <3>. QED BY <2>1, <2>2, FirstLowest
  <2>4. First(i)
    BY <2>3
  <2>5. (CHOOSE x \in S : First(x)) \in S
    <3>. HIDE DEF First, S
    <3>. QED BY <2>4
  <2>6. BestFit(grid, values, paths) = grid[CHOOSE x \in S : First(x)]
    BY <1>2 DEF BestFit
  <2>. HIDE DEF First
  <2>. QED BY <2>5, <2>6
<1>. QED BY <1>1, <1>2

\* Simple smoothing forecasts a number between the values, and more than nothing
\* unless there is nothing else.
LEMMA SesIs ==
    ASSUME NEW values \in Seq(Fraction), values # << >>,
           \A i \in 1..Len(values) : values[i][1] >= 0, NEW h
    PROVE  \E rate : Ses(values, h) = Flat(rate, h) /\ Between(rate, values)
<1>. DEFINE paths == [i \in 1..Len(AlphaGrid) |-> Levels(values, AlphaGrid[i])]
            alpha == BestFit(AlphaGrid, values, paths)
            rate == Levels(values, alpha)[Len(values)]
<1>1. Len(AlphaGrid) \in Nat \ {0} /\ \A i \in 1..Len(AlphaGrid) : Share(AlphaGrid[i])
  BY DemandAssumption
<1>2. \A i \in 1..Len(AlphaGrid), k \in 1..Len(values) : paths[i][k] \in Fraction
  <2>1. \A i \in 1..Len(AlphaGrid), k \in 1..Len(values) : Levels(values, AlphaGrid[i])[k] \in Fraction
    BY <1>1, LevelsBounds
  <2>. QED BY <2>1
<1>3. Share(alpha)
  <2>. HIDE DEF paths
  <2>. QED BY <1>1, <1>2, BestFitIsOfGrid
<1>4. Len(values) \in 1..Len(values)
  OBVIOUS
<1>5. Ses(values, h) = Flat(rate, h)
  BY DEF Ses
<1>. HIDE DEF alpha
<1>6. Between(rate, values)
  BY <1>3, <1>4, LevelsBounds DEF Between
<1>. HIDE DEF rate
<1>. QED BY <1>5, <1>6

\* What a part leaves of one.
LEMMA RestIs ==
    ASSUME NEW b \in Fraction, 0 <= b[1], b[1] < b[2]
    PROVE  LET rest == Minus(One, b)
           IN  rest \in Fraction /\ rest[1] > 0 /\ Below(rest, 1, 1)
<1>. DEFINE rest == Minus(One, b)
            x == b[1]
            y == b[2]
<1>1. x \in Int /\ y \in Nat \ {0} /\ 0 <= x /\ x < y
  BY DEF Fraction
<1>2. rest \in Fraction /\ rest[1] * (1 * y) = (1 * y - x * 1) * rest[2]
  BY MinusIs, Constants
<1>. HIDE DEF rest, x, y
<1>3. rest[1] \in Int /\ rest[2] \in Nat \ {0}
  BY <1>2 DEF Fraction
<1>4. y * rest[1] = rest[2] * (y - x)
  <2>1. rest[1] * (1 * y) = y * rest[1] /\ (1 * y - x * 1) * rest[2] = rest[2] * (y - x)
    BY <1>1, <1>3
  <2>. QED BY <1>2, <2>1
<1>5. rest[1] > 0
  <2>1. rest[2] * (y - x) > 0
    BY <1>1, <1>3, SignOfProduct
  <2>. QED BY <1>1, <1>3, <1>4, <2>1, SignOfProduct
<1>6. rest[1] <= rest[2]
  <2>1. rest[2] * (y - x) <= rest[2] * y
    BY <1>1, <1>3, Scale
  <2>2. rest[2] * y = y * rest[2]
    BY <1>1, <1>3
  <2>3. y * rest[1] <= y * rest[2]
    BY <1>4, <2>1, <2>2
  <2>. QED BY <1>1, <1>3, <2>3, Cancel
<1>7. Below(rest, 1, 1)
  BY <1>3, <1>6 DEF Below
<1>. QED BY <1>2, <1>5, <1>7 DEF rest

\* The share of the rate that Croston's method forecasts.
LEMMA HalfIs ==
    LET rest == Minus(One, Over(CrostonAlpha, Whole(2)))
    IN  rest \in Fraction /\ rest[1] > 0 /\ Below(rest, 1, 1)
<1>. DEFINE x == CrostonAlpha[1]
            y == CrostonAlpha[2]
            half == Over(CrostonAlpha, Whole(2))
<1>1. CrostonAlpha \in Fraction /\ x \in Nat /\ y \in Nat /\ 0 < x /\ x < y
  BY DemandAssumption DEF Share, Fraction
<1>2. half = Times(CrostonAlpha, <<1, 2>>) /\ <<1, 2>> \in Fraction
  BY DEF Over, Whole, Fraction
<1>3. half \in Fraction /\ half[1] * (y * 2) = (x * 1) * half[2] /\ half[1] >= 0
  <2>. DEFINE b == <<1, 2>>
  <2>1. b \in Fraction /\ b[1] = 1 /\ b[2] = 2 /\ half = Times(CrostonAlpha, b)
    BY <1>2
  <2>2. CrostonAlpha[1] >= 0
    BY <1>1
  <2>. HIDE DEF b
  <2>3. half \in Fraction /\ half[1] * (CrostonAlpha[2] * b[2]) = (CrostonAlpha[1] * b[1]) * half[2]
    BY <1>1, <2>1, TimesIs
  <2>4. half[1] >= 0
    BY <1>1, <2>1, <2>2, TimesSign
  <2>. QED BY <2>1, <2>3, <2>4
<1>. HIDE DEF half, x, y
<1>4. half[1] \in Int /\ half[2] \in Nat \ {0}
  BY <1>3 DEF Fraction
<1>5. half[1] < half[2]
  <2>1. half[2] * x < half[2] * y
    BY <1>1, <1>4, Cancel
  <2>2. half[2] * x = (x * 1) * half[2] /\ half[2] * y = y * half[2]
    BY <1>1, <1>4
  <2>3. half[1] * (y * 2) = y * (2 * half[1])
    BY <1>1, <1>4
  <2>4. y * (2 * half[1]) < y * half[2]
    BY <1>3, <2>1, <2>2, <2>3
  <2>5. 2 * half[1] < half[2]
    BY <1>1, <1>4, <2>4, Cancel
  <2>. QED BY <1>3, <1>4, <2>5
<1>. QED BY <1>3, <1>5, RestIs DEF half

\* The mean sale over an interval of a day at least, less the half.
LEMMA RateIs ==
    ASSUME NEW q \in Fraction, NEW p \in Fraction, q[1] > 0, p[1] > 0, Above(p, 1, 1)
    PROVE  LET rate == Times(Over(q, p), Minus(One, Over(CrostonAlpha, Whole(2))))
           IN  /\ rate \in Fraction /\ rate[1] > 0
               /\ \A n \in Nat : Below(q, n, 1) => Below(rate, n, 1)
<1>. DEFINE rest == Minus(One, Over(CrostonAlpha, Whole(2)))
            r == Over(q, p)
<1>1. rest \in Fraction /\ rest[1] > 0 /\ Below(rest, 1, 1)
  BY HalfIs
<1>2. r \in Fraction /\ r[1] > 0
  <2>1. q[1] \in Int /\ q[1] >= 0
    BY DEF Fraction
  <2>. QED BY <2>1, OverIs
<1>3. ASSUME NEW n \in Nat, Below(q, n, 1) PROVE Below(r, n, 1)
  <2>1. q[1] \in Int /\ q[1] >= 0 /\ 1 * n = n
    BY DEF Fraction
  <2>. QED BY <1>3, <2>1, OverIs
<1>. HIDE DEF rest, r
<1>4. r[1] \in Int /\ rest[1] \in Int
  BY <1>1, <1>2 DEF Fraction
<1>5. r[1] >= 0 /\ rest[1] >= 0
  BY <1>1, <1>2, <1>4
<1>6. Times(r, rest) \in Fraction /\ Times(r, rest)[1] > 0
  BY <1>1, <1>2, <1>5, TimesIs, TimesSign
<1>7. ASSUME NEW n \in Nat, Below(r, n, 1) PROVE Below(Times(r, rest), n, 1)
  <2>1. Below(Times(r, rest), n * 1, 1 * 1)
    BY <1>1, <1>2, <1>5, <1>7, TimesBounds
  <2>2. n * 1 = n /\ 1 * 1 = 1
    OBVIOUS
  <2>. QED BY <2>1, <2>2
<1>. QED BY <1>3, <1>6, <1>7 DEF r, rest

\* What is known of sales: nothing or something on each day.
Demands(values) ==
    /\ values \in Seq(Fraction)
    /\ \A i \in 1..Len(values) : values[i] = Zero \/ values[i][1] > 0

\* A day of sales is a fraction: zero, or more than nothing.
LEMMA DemandsAre ==
    ASSUME NEW values, Demands(values)
    PROVE  /\ values \in Seq(Fraction)
           /\ \A i \in 1..Len(values) : values[i] \in Fraction /\ values[i][1] >= 0
           /\ \A i \in 1..Len(values) : values[i] # Zero <=> values[i][1] > 0
<1>1. values \in Seq(Fraction) /\ \A i \in 1..Len(values) : values[i] = Zero \/ values[i][1] > 0
  BY DEF Demands
<1>2. \A i \in 1..Len(values) : values[i] \in Fraction
  BY <1>1
<1>3. \A i \in 1..Len(values) : values[i][1] \in Int
  BY <1>2 DEF Fraction
<1>. QED BY <1>1, <1>2, <1>3, Constants

\* Croston's method forecasts no more than was sold at most, and more than nothing
\* as soon as something was sold.
LEMMA CrostonIs ==
    ASSUME NEW values, Demands(values), NEW h
    PROVE  \E rate : Croston(values, h) = Flat(rate, h) /\ Between(rate, values)
<1>. DEFINE nothing == [q |-> Zero, p |-> Zero, last |-> 0, rate |-> Zero]
            q(old, t) == IF old.last = 0 THEN values[t] ELSE Mix(CrostonAlpha, values[t], old.q)
            p(old, t) == IF old.last = 0 THEN One
                         ELSE Mix(CrostonAlpha, Whole(t - old.last), old.p)
            new(old, t) == [q |-> q(old, t), p |-> p(old, t), last |-> t,
                            rate |-> Times(Over(q(old, t), p(old, t)),
                                           Minus(One, Over(CrostonAlpha, Whole(2))))]
            Entry(f, t) == IF t = 0 THEN nothing
                          ELSE IF values[t] = Zero THEN f[t - 1] ELSE new(f[t - 1], t)
            P(n) == \E f : f = [t \in 0..n |-> Entry(f, t)]
            S == {n \in Nat : P(n)}
            F(f) == [t \in 0..Len(values) |-> Entry(f, t)]
            state == CHOOSE f : f = F(f)
<1>1. Croston(values, h) = Flat(state[Len(values)].rate, h)
  BY DEF Croston
<1>2. Len(values) \in Nat
  BY DemandsAre
<1>. HIDE DEF nothing, new
<1>3. P(0)
  <2>. DEFINE f == [t \in 0..0 |-> nothing]
  <2>1. f = [t \in 0..0 |-> Entry(f, t)]
    OBVIOUS
  <2>. HIDE DEF f
  <2>. QED BY <2>1
<1>4. ASSUME NEW n \in Nat, P(n) PROVE P(n + 1)
  <2>1. PICK f : f = [t \in 0..n |-> Entry(f, t)]
    BY <1>4
  <2>. DEFINE g == [t \in 0..(n + 1) |-> IF t = n + 1 THEN Entry(f, t) ELSE f[t]]
  <2>2. ASSUME NEW t \in 0..(n + 1) PROVE g[t] = Entry(g, t)
    <3>1. CASE t = 0
      <4>1. t # n + 1 /\ t \in 0..n /\ f[t] = Entry(f, t)
        BY <2>1, <3>1
      <4>. QED BY <3>1, <4>1
    <3>2. CASE t # 0
      <4>1. t - 1 \in 0..n /\ t - 1 \in 0..(n + 1) /\ t - 1 # n + 1
        BY <3>2
      <4>2. g[t - 1] = f[t - 1]
        BY <4>1
      <4>3. t # n + 1 => t \in 0..n /\ f[t] = Entry(f, t)
        BY <2>1
      <4>4. g[t] = Entry(f, t)
        BY <4>3
      <4>. HIDE DEF g
      <4>. QED BY <3>2, <4>2, <4>4
    <3>. QED BY <3>1, <3>2
  <2>3. g = [t \in 0..(n + 1) |-> g[t]]
    OBVIOUS
  <2>. HIDE DEF g
  <2>4. g = [t \in 0..(n + 1) |-> Entry(g, t)]
    BY <2>2, <2>3
  <2>. WITNESS g
  <2>. QED BY <2>4
<1>5. state = F(state)
  <2>1. P(Len(values))
    <3>. HIDE DEF P
    <3>1. 0 \in S /\ \A n \in Nat : n \in S => n + 1 \in S
      BY <1>3, <1>4
    <3>2. Nat \subseteq S
      <4>. HIDE DEF S
      <4>. QED BY <3>1, InductiveSet
    <3>. QED BY <1>2, <3>2
  <2>2. \E f : f = F(f)
    BY <2>1
  <2>. HIDE DEF F
  <2>. QED BY <2>2
<1>. HIDE DEF state
<1>6. state[0] = nothing
  BY <1>2, <1>5
<1>7. ASSUME NEW t \in 1..Len(values)
      PROVE  state[t] = IF values[t] = Zero THEN state[t - 1] ELSE new(state[t - 1], t)
  <2>1. t \in 0..Len(values) /\ t # 0
    BY <1>2
  <2>. QED BY <1>5, <2>1
<1>. DEFINE Sells(s) ==
                /\ s.q \in Fraction /\ s.q[1] > 0
                /\ s.p \in Fraction /\ s.p[1] > 0 /\ Above(s.p, 1, 1)
                /\ s.rate \in Fraction /\ s.rate[1] > 0
                /\ \A n \in Nat : (\A i \in 1..Len(values) : Below(values[i], n, 1)) =>
                      Below(s.q, n, 1) /\ Below(s.rate, n, 1)
            Good(t) ==
                /\ state[t].last \in 0..t
                /\ state[t].last = 0 => state[t] = nothing /\ \A i \in 1..t : values[i] = Zero
                /\ state[t].last # 0 => Sells(state[t])
<1>8. Good(0)
  <2>1. nothing.last = 0
    BY DEF nothing
  <2>. QED BY <1>6, <2>1
<1>9. ASSUME NEW t \in Nat, t + 1 \in 1..Len(values), Good(t) PROVE Good(t + 1)
  <2>. DEFINE old == state[t]
              now == new(old, t + 1)
  <2>1. t + 1 - 1 = t
    OBVIOUS
  <2>2. state[t + 1] = IF values[t + 1] = Zero THEN old ELSE now
    BY <1>7, <1>9, <2>1
  <2>3. values[t + 1] \in Fraction /\ values[t + 1][1] >= 0
    BY <1>9, DemandsAre
  <2>6. old.last \in 0..t /\ (old.last # 0 => Sells(old))
    <3>. HIDE DEF Sells
    <3>. QED BY <1>9
  <2>4. CASE values[t + 1] = Zero
    <3>1. state[t + 1] = state[t]
      BY <2>2, <2>4
    <3>2. \A i \in 1..(t + 1) : i \in 1..t \/ i = t + 1
      OBVIOUS
    <3>3. state[t].last \in 0..(t + 1)
      BY <1>9
    <3>. HIDE DEF Sells
    <3>. QED BY <1>9, <2>4, <3>1, <3>2, <3>3
  <2>5. CASE values[t + 1] # Zero
    <3>1. values[t + 1][1] > 0
      BY <1>9, <2>5, DemandsAre
    <3>2. /\ now.last = t + 1 /\ now.q = q(old, t + 1) /\ now.p = p(old, t + 1)
          /\ now.rate = Times(Over(now.q, now.p), Minus(One, Over(CrostonAlpha, Whole(2))))
      BY DEF new
    <3>3. Share(CrostonAlpha)
      BY DemandAssumption
    <3>. HIDE DEF now
    <3>4. now.q \in Fraction /\ now.q[1] > 0
      <4>1. CASE old.last = 0
        BY <2>3, <3>1, <3>2, <4>1
      <4>2. CASE old.last # 0
        <5>1. old.q \in Fraction /\ old.q[1] \in Int /\ old.q[1] >= 0
          <6>. HIDE DEF old
          <6>. QED BY <2>6, <4>2 DEF Fraction
        <5>. QED BY <2>3, <3>1, <3>2, <3>3, <4>2, <5>1, MixIs
      <4>. QED BY <4>1, <4>2
    <3>5. ASSUME NEW n \in Nat, \A i \in 1..Len(values) : Below(values[i], n, 1)
          PROVE  Below(now.q, n, 1)
      <4>1. CASE old.last = 0
        BY <1>9, <3>2, <3>5, <4>1
      <4>2. CASE old.last # 0
        <5>1. old.q \in Fraction /\ old.q[1] \in Int /\ old.q[1] >= 0 /\ Below(old.q, n, 1)
          <6>. HIDE DEF old
          <6>1. Sells(old)
            BY <2>6, <4>2
          <6>2. Below(old.q, n, 1)
            BY <3>5, <6>1
          <6>. QED BY <6>1, <6>2 DEF Fraction
        <5>2. Below(values[t + 1], n, 1)
          BY <1>9, <3>5
        <5>. QED BY <2>3, <3>2, <3>3, <4>2, <5>1, <5>2, MixIs
      <4>. QED BY <4>1, <4>2
    <3>6. now.p \in Fraction /\ now.p[1] > 0 /\ Above(now.p, 1, 1)
      <4>1. CASE old.last = 0
        BY <3>2, <4>1, Constants DEF Above
      <4>2. CASE old.last # 0
        <5>1. old.p \in Fraction /\ old.p[1] \in Int /\ old.p[1] >= 0 /\ old.p[1] > 0 /\ Above(old.p, 1, 1)
          <6>. HIDE DEF old
          <6>. QED BY <2>6, <4>2 DEF Fraction
        <5>. DEFINE gap == Whole((t + 1) - old.last)
        <5>2. gap \in Fraction /\ gap[1] >= 0 /\ Above(gap, 1, 1)
          <6>1. (t + 1) - old.last \in Int /\ (t + 1) - old.last >= 1
            BY <2>6
          <6>2. gap \in Fraction /\ gap[1] = (t + 1) - old.last /\ gap[2] = 1
            BY <6>1, Constants
          <6>. HIDE DEF gap, old
          <6>. QED BY <6>1, <6>2 DEF Above
        <5>3. now.p = Mix(CrostonAlpha, gap, old.p)
          BY <3>2, <4>2
        <5>. HIDE DEF gap
        <5>. QED BY <3>3, <5>1, <5>2, <5>3, MixIs
      <4>. QED BY <4>1, <4>2
    <3>7. /\ now.rate \in Fraction /\ now.rate[1] > 0
          /\ \A n \in Nat : Below(now.q, n, 1) => Below(now.rate, n, 1)
      BY <3>2, <3>4, <3>6, RateIs
    <3>8. Sells(now)
      BY <3>4, <3>5, <3>6, <3>7
    <3>9. state[t + 1] = now /\ now.last \in 0..(t + 1) /\ now.last # 0
      BY <2>2, <2>5, <3>2
    <3>. HIDE DEF Sells
    <3>. QED BY <3>8, <3>9
  <2>. QED BY <2>4, <2>5
<1>10. Good(Len(values))
  <2>. DEFINE T == {t \in Nat : t <= Len(values) => Good(t)}
  <2>. HIDE DEF Good
  <2>1. 0 \in T
    BY <1>8
  <2>2. ASSUME NEW t \in Nat, t \in T PROVE t + 1 \in T
    <3>. SUFFICES ASSUME t + 1 <= Len(values) PROVE Good(t + 1)
      OBVIOUS
    <3>1. t + 1 \in 1..Len(values) /\ Good(t)
      BY <1>2, <2>2
    <3>. QED BY <1>9, <3>1
  <2>. HIDE DEF T
  <2>3. Len(values) \in T
    BY <1>2, <2>1, <2>2, InductiveSet
  <2>. QED BY <1>2, <2>3 DEF T
<1>. DEFINE rate == state[Len(values)].rate
<1>11. Between(rate, values)
  <2>1. CASE state[Len(values)].last = 0
    <3>1. rate = Zero /\ \A i \in 1..Len(values) : values[i] = Zero
      BY <1>10, <2>1 DEF nothing
    <3>2. \A n \in Nat : Below(Zero, n, 1)
      BY Constants DEF Below
    <3>3. \A i \in 1..Len(values) : ~ (values[i][1] > 0)
      BY <3>1, Constants
    <3>. HIDE DEF rate
    <3>. QED BY <3>1, <3>2, <3>3, Constants DEF Between
  <2>2. CASE state[Len(values)].last # 0
    <3>1. Sells(state[Len(values)])
      BY <1>10, <2>2
    <3>2. rate[1] \in Int /\ rate[1] > 0
      BY <3>1 DEF Fraction
    <3>. QED BY <3>1, <3>2 DEF Between
  <2>. QED BY <2>1, <2>2
<1>. HIDE DEF rate
<1>. QED BY <1>1, <1>11 DEF rate

-----------------------------------------------------------------------------
(* The series of a SKU, and the days of it that are held out.              *)

\* The values of finitely many arguments are finitely many.
LEMMA ImageIsFinite ==
    ASSUME NEW S, IsFiniteSet(S), NEW f
    PROVE  IsFiniteSet({f[x] : x \in S})
<1>. DEFINE T == {f[x] : x \in S}
<1>1. PICK s \in Seq(S) : \A x \in S : \E i \in 1..Len(s) : s[i] = x
  BY DEF IsFiniteSet
<1>2. Len(s) \in Nat /\ \A i \in 1..Len(s) : s[i] \in S
  BY <1>1
<1>. DEFINE t == [i \in 1..Len(s) |-> f[s[i]]]
<1>3. t \in Seq(T) /\ Len(t) = Len(s)
  BY <1>2
<1>4. \A y \in T : \E i \in 1..Len(t) : t[i] = y
  BY <1>1, <1>3
<1>. HIDE DEF t, T
<1>5. IsFiniteSet(T)
  BY <1>3, <1>4 DEF IsFiniteSet
<1>. QED BY <1>5 DEF T

\* The greater of two numbers.
LEMMA LatestOfTwo ==
    ASSUME NEW a \in Int, NEW b \in Int
    PROVE  Latest({a, b}) \in {a, b} /\ a <= Latest({a, b}) /\ b <= Latest({a, b})
<1>1. \E x \in {a, b} : \A y \in {a, b} : y <= x
  <2>1. CASE a <= b
    BY <2>1
  <2>2. CASE ~ (a <= b)
    BY <2>2
  <2>. QED BY <2>1, <2>2
<1>. DEFINE S == {a, b}
<1>. HIDE DEF S
<1>2. Latest(S) \in S /\ \A y \in S : y <= Latest(S)
  BY <1>1 DEF Latest, S
<1>. QED BY <1>2 DEF S

\* The days of a history, one after the other.
LEMMA SeriesIs ==
    ASSUME NEW hist, History(hist)
    PROVE  /\ Demands(Series(hist))
           /\ \A i \in 1..Len(Series(hist)) :
                 Series(hist)[i] # Zero => Sales(hist) # {}
           /\ Latest(Sales(hist)) \in Nat \/ Sales(hist) = {}
           /\ Sales(hist) # {} =>
                 \A i \in 1..Len(Series(hist)) : Below(Series(hist)[i], Latest(Sales(hist)), 1)
<1>. DEFINE days == DOMAIN hist
            most == Latest(Sales(hist))
<1>1. days \subseteq Nat /\ IsFiniteSet(days) /\ \A d \in days : hist[d] \in Nat
  BY DEF History
<1>2. CASE days = {}
  <2>1. Series(hist) = << >> /\ Sales(hist) = {}
    BY <1>2 DEF Series, Sales
  <2>2. << >> \in Seq(Fraction) /\ Len(<< >>) = 0
    OBVIOUS
  <2>. QED BY <2>1, <2>2 DEF Demands
<1>3. CASE days # {}
  <2>1. /\ Sales(hist) \subseteq Nat /\ Sales(hist) # {}
        /\ \A d \in days : hist[d] \in Sales(hist)
    BY <1>1, <1>3 DEF Sales
  <2>2. IsFiniteSet(Sales(hist))
    BY <1>1, ImageIsFinite DEF Sales
  <2>3. most \in Nat /\ \A d \in days : hist[d] <= most
    BY <2>1, <2>2, LatestIs
  <2>. HIDE DEF most
  <2>. DEFINE end == Latest(days)
              start == Latest({Earliest(days), end - MaxSeriesDays + 1})
              Value(date) == IF date \in days THEN Whole(hist[date]) ELSE Zero
              s == [i \in 1..(end - start + 1) |-> Value(start + i - 1)]
  <2>4. end \in Nat /\ start \in Int
    <3>1. end \in Nat /\ Earliest(days) \in Nat
      BY <1>1, <1>3, LatestIs, EarliestIs
    <3>2. end - MaxSeriesDays + 1 \in Int
      <4>. HIDE DEF end
      <4>. QED BY <3>1, DemandAssumption
    <3>. DEFINE a == Earliest(days)
                b == end - MaxSeriesDays + 1
    <3>3. start = Latest({a, b}) /\ a \in Int /\ b \in Int
      BY <3>1, <3>2
    <3>. HIDE DEF a, b, start
    <3>4. Latest({a, b}) \in {a, b}
      BY <3>3, LatestOfTwo
    <3>. QED BY <3>1, <3>3, <3>4
  <2>5. \A date : /\ Value(date) \in Fraction /\ Below(Value(date), most, 1)
                  /\ Value(date) = Zero \/ Value(date)[1] > 0
    <3>. SUFFICES ASSUME NEW date
                  PROVE  /\ Value(date) \in Fraction /\ Below(Value(date), most, 1)
                         /\ Value(date) = Zero \/ Value(date)[1] > 0
      OBVIOUS
    <3>1. CASE date \in days
      <4>. DEFINE k == hist[date]
      <4>1. k \in Nat /\ k <= most /\ Value(date) = Whole(k)
        BY <1>1, <2>3, <3>1
      <4>. HIDE DEF k, Value
      <4>2. k = 0 \/ k > 0
        BY <4>1
      <4>3. Whole(k) \in Fraction /\ Whole(k)[1] = k /\ Whole(k)[2] = 1 /\ Zero = Whole(0)
        BY <4>1, Constants DEF Zero
      <4>4. Below(Whole(k), most, 1)
        BY <2>3, <4>1, <4>3 DEF Below
      <4>. QED BY <4>1, <4>2, <4>3, <4>4
    <3>2. CASE date \notin days
      BY <2>3, <3>2, Constants DEF Below
    <3>. QED BY <3>1, <3>2
  <2>6. Series(hist) = s
    BY <1>3 DEF Series
  <2>. HIDE DEF start, end, Value
  <2>7. end - start + 1 \in Int
    BY <2>4
  <2>8. s \in Seq(Fraction) /\ \A i \in 1..Len(s) : s[i] = Value(start + i - 1)
    <3>. DEFINE n == IF end - start + 1 >= 0 THEN end - start + 1 ELSE 0
    <3>1. n \in Nat /\ 1..(end - start + 1) = 1..n
      BY <2>7
    <3>. HIDE DEF n
    <3>2. s = [i \in 1..n |-> Value(start + i - 1)]
      BY <3>1
    <3>. HIDE DEF s
    <3>3. \A i \in 1..n : Value(start + i - 1) \in Fraction
      BY <2>5
    <3>. QED BY <3>1, <3>2, <3>3
  <2>. HIDE DEF s
  <2>. QED BY <2>1, <2>3, <2>5, <2>6, <2>8 DEF Demands, most
<1>. QED BY <1>2, <1>3

Trendless == {"ses", "mean", "croston"}

\* _fitter_for: the models without a trend forecast one rate, between the values.
LEMMA PredictIs ==
    ASSUME NEW values, Demands(values), values # << >>, NEW name \in Trendless, NEW h
    PROVE  \E rate : Predict(name, values, h) = Flat(rate, h) /\ Between(rate, values)
<1>1. values \in Seq(Fraction) /\ \A i \in 1..Len(values) : values[i][1] >= 0
  BY DemandsAre
<1>2. CASE name = "ses"
  <2>1. Predict(name, values, h) = Ses(values, h)
    BY <1>2 DEF Predict
  <2>. QED BY <1>1, <2>1, SesIs
<1>3. CASE name = "croston"
  <2>1. Predict(name, values, h) = Croston(values, h)
    BY <1>3 DEF Predict
  <2>. QED BY <2>1, CrostonIs
<1>4. CASE name = "mean"
  <2>1. Predict(name, values, h) = Flat(Mean(values), h)
    BY <1>4 DEF Predict
  <2>2. Between(Mean(values), values)
    BY <1>1, MeanIs
  <2>. QED BY <2>1, <2>2
<1>. QED BY <1>2, <1>3, <1>4 DEF Trendless

\* An error is a number.
LEMMA WmapeTyped ==
    ASSUME NEW rate \in Fraction, NEW actual, Demands(actual)
    PROVE  Wmape(Flat(rate, Len(actual)), actual) \in Fraction
<1>. DEFINE n == Len(actual)
            Off(i) == Distance(Flat(rate, n)[i], actual[i])
            errors == [i \in 1..n |-> Off(i)]
            sold == Larger(Total(actual), One)
<1>1. n \in Nat /\ actual \in Seq(Fraction) /\ \A i \in 1..n : actual[i] \in Fraction
  BY DemandsAre
<1>2. ASSUME NEW i \in 1..n PROVE Off(i) \in Fraction /\ Off(i)[1] >= 0
  <2>. DEFINE d == Minus(rate, actual[i])
  <2>1. d \in Fraction /\ d[1] \in Int /\ d[2] \in Nat \ {0}
    BY <1>1, MinusIs DEF Fraction
  <2>2. Flat(rate, n)[i] = rate
    BY DEF Flat
  <2>3. Off(i) = <<Positive(d[1]), d[2]>>
    BY <2>2 DEF Distance
  <2>. HIDE DEF d, Off
  <2>4. Positive(d[1]) \in Nat
    BY <2>1 DEF Positive
  <2>. QED BY <2>1, <2>3, <2>4 DEF Fraction
<1>3. errors \in Seq(Fraction) /\ Len(errors) = n /\ \A i \in 1..Len(errors) : errors[i][1] >= 0
  <2>. HIDE DEF Off, n
  <2>. QED BY <1>1, <1>2
<1>4. Total(errors) \in Fraction /\ Total(errors)[1] >= 0
  <2>. HIDE DEF errors
  <2>. QED BY <1>3, TotalBounds
<1>5. sold \in Fraction /\ sold[1] > 0
  <2>. DEFINE t == Total(actual)
  <2>1. t \in Fraction /\ t[1] \in Int /\ t[2] \in Nat \ {0}
    BY <1>1, TotalTyped DEF Fraction
  <2>. HIDE DEF t
  <2>2. Less(t, One) <=> t[1] * 1 < 1 * t[2]
    BY <2>1, LessIs, Constants
  <2>3. ~ Less(t, One) => t[1] > 0
    BY <2>1, <2>2
  <2>. QED BY <2>1, <2>3, Constants DEF Larger, t
<1>6. Wmape(Flat(rate, n), actual) = Over(Total(errors), sold)
  BY DEF Wmape
<1>. HIDE DEF errors, sold, n
<1>. QED BY <1>4, <1>5, <1>6, OverIs DEF n

\* Some days are held out, or none, and one at least is not.
LEMMA HoldoutIs ==
    ASSUME NEW n \in Nat \ {0}
    PROVE  Holdout(n) \in 0..(n - 1)
<1>. DEFINE reached == {step \in HoldoutSteps : step[1] <= n}
            second == [step \in reached |-> step[2]]
            days == {second[step] : step \in reached}
<1>1. CASE reached = {}
  BY <1>1 DEF Holdout
<1>2. CASE reached # {}
  <2>1. IsFiniteSet(reached)
    <3>1. IsFiniteSet(HoldoutSteps) /\ reached \subseteq HoldoutSteps
      BY DemandAssumption
    <3>. HIDE DEF reached
    <3>. QED BY <3>1, FS_Subset
  <2>2. IsFiniteSet(days)
    <3>. HIDE DEF reached, second
    <3>. QED BY <2>1, ImageIsFinite
  <2>3. \A step \in reached : step[1] \in Nat /\ step[2] \in Nat /\ step[2] < step[1] /\ step[1] <= n
    BY DemandAssumption
  <2>4. days \subseteq 0..(n - 1) /\ days \subseteq Nat /\ days # {}
    <3>1. \A step \in reached : second[step] \in 0..(n - 1) /\ second[step] \in Nat
      BY <2>3
    <3>. HIDE DEF reached, second
    <3>. QED BY <1>2, <3>1
  <2>5. days = {step[2] : step \in reached}
    OBVIOUS
  <2>6. Holdout(n) = Latest(days)
    BY <1>2, <2>5 DEF Holdout
  <2>. HIDE DEF days
  <2>. QED BY <2>2, <2>4, <2>6, LatestIs
<1>. QED BY <1>1, <1>2

\* Some days of sales are days of sales.
LEMMA PartOfDemands ==
    ASSUME NEW values, Demands(values), NEW i \in 1..(Len(values) + 1), NEW j \in 0..Len(values), i <= j + 1
    PROVE  Demands(SubSeq(values, i, j)) /\ Len(SubSeq(values, i, j)) = (j - i) + 1
<1>1. values \in Seq(Fraction) /\ Len(values) \in Nat
  BY DemandsAre
<1>. DEFINE s == SubSeq(values, i, j)
<1>2. Len(s) = (j - i) + 1 /\ \A k \in 1..Len(s) : s[k] = values[(i + k) - 1] /\ (i + k) - 1 \in 1..Len(values)
  BY <1>1
<1>3. s \in Seq(Fraction)
  BY <1>1
<1>. HIDE DEF s
<1>4. Demands(s)
  BY <1>2, <1>3 DEF Demands
<1>. QED BY <1>2, <1>4 DEF s

-----------------------------------------------------------------------------
(* The choice: the models that score best, alone or blended.               *)

\* The mean of two numbers, each with its weight, is between them.
LEMMA BlendIs ==
    ASSUME NEW wa \in Fraction, NEW wb \in Fraction, wa[1] > 0, wb[1] > 0,
           NEW a \in Fraction, NEW b \in Fraction, a[1] > 0, b[1] > 0
    PROVE  LET r == Over(Plus(Times(wa, a), Times(wb, b)), Plus(wa, wb))
           IN  /\ r \in Fraction /\ r[1] > 0
               /\ \A n \in Nat : Below(a, n, 1) /\ Below(b, n, 1) => Below(r, n, 1)
<1>. DEFINE x == wa[1] * wb[2]
            y == wb[1] * wa[2]
            d == wa[2] * wb[2]
            s == Times(wa, a)
            t == Times(wb, b)
            w == Plus(wa, wb)
            sum == Plus(s, t)
            c == <<w[2], w[1]>>
<1>1. /\ wa[1] \in Nat \ {0} /\ wa[2] \in Nat \ {0} /\ wb[1] \in Nat \ {0} /\ wb[2] \in Nat \ {0}
      /\ a[1] \in Int /\ b[1] \in Int
  BY DEF Fraction
<1>2. /\ wa[1] >= 0 /\ wb[1] >= 0 /\ a[1] >= 0 /\ b[1] >= 0
  BY <1>1
<1>3. x \in Nat \ {0} /\ y \in Nat \ {0} /\ d \in Nat \ {0}
  BY <1>1
<1>4. w \in Fraction /\ w[1] > 0 /\ w[1] * d = (x + y) * w[2]
  BY <1>1, <1>2, PlusIs, PlusSign
<1>5. w[1] \in Nat \ {0} /\ w[2] \in Nat \ {0}
  BY <1>4 DEF Fraction
<1>6. c \in Fraction /\ c[1] = w[2] /\ c[2] = w[1]
  <2>. HIDE DEF w
  <2>. QED BY <1>5 DEF Fraction
<1>7. s \in Fraction /\ s[1] > 0 /\ t \in Fraction /\ t[1] > 0
  BY <1>2, TimesIs, TimesSign
<1>8. s[1] \in Int /\ t[1] \in Int /\ s[1] >= 0 /\ t[1] >= 0
  <2>. HIDE DEF s, t
  <2>. QED BY <1>7 DEF Fraction
<1>9. sum \in Fraction /\ sum[1] > 0 /\ sum[1] >= 0
  <2>. HIDE DEF s, t
  <2>. QED BY <1>7, <1>8, PlusIs, PlusSign
<1>10. ASSUME NEW n \in Nat, Below(a, n, 1), Below(b, n, 1) PROVE Below(Times(sum, c), n, 1)
  <2>1. Below(wa, wa[1], wa[2]) /\ Below(wb, wb[1], wb[2])
    BY Itself
  <2>2. Below(s, wa[1] * n, wa[2] * 1)
    <3>1. wa[1] \in Nat /\ wa[2] \in Nat \ {0} /\ wa[1] >= 0 /\ a[1] >= 0
      BY <1>1, <1>2
    <3>. HIDE DEF s
    <3>2. Below(wa, wa[1], wa[2]) /\ Below(a, n, 1) => Below(Times(wa, a), wa[1] * n, wa[2] * 1)
      BY <3>1, TimesBounds
    <3>. QED BY <1>10, <2>1, <3>2 DEF s
  <2>3. Below(t, wb[1] * n, wb[2] * 1)
    <3>1. wb[1] \in Nat /\ wb[2] \in Nat \ {0} /\ wb[1] >= 0 /\ b[1] >= 0
      BY <1>1, <1>2
    <3>. HIDE DEF t
    <3>2. Below(wb, wb[1], wb[2]) /\ Below(b, n, 1) => Below(Times(wb, b), wb[1] * n, wb[2] * 1)
      BY <3>1, TimesBounds
    <3>. QED BY <1>10, <2>1, <3>2 DEF t
  <2>. HIDE DEF s, t
  <2>4. wa[1] * n \in Int /\ wb[1] * n \in Int /\ wa[2] * 1 = wa[2] /\ wb[2] * 1 = wb[2]
    BY <1>1
  <2>5. Below(s, wb[2] * (wa[1] * n), wb[2] * wa[2]) /\ Below(t, wa[2] * (wb[1] * n), wa[2] * wb[2])
    <3>. DEFINE v == wa[1] * n
                z == wb[1] * n
    <3>1. v \in Int /\ z \in Int /\ Below(s, v, wa[2]) /\ Below(t, z, wb[2])
      BY <2>2, <2>3, <2>4
    <3>. HIDE DEF v, z
    <3>2. Below(s, wb[2] * v, wb[2] * wa[2]) /\ Below(t, wa[2] * z, wa[2] * wb[2])
      BY <1>1, <1>7, <3>1, Reduce
    <3>. QED BY <3>2 DEF v, z
  <2>6. /\ wb[2] * (wa[1] * n) = x * n /\ wb[2] * wa[2] = d /\ wa[2] * (wb[1] * n) = y * n
    BY <1>1
  <2>7. x * n \in Int /\ y * n \in Int /\ x * n + y * n = (x + y) * n
    <3>. HIDE DEF x, y
    <3>. QED BY <1>3
  <2>. HIDE DEF x, y, d
  <2>8. Below(s, x * n, d) /\ Below(t, y * n, d)
    <3>1. d = wa[2] * wb[2]
      BY DEF d
    <3>. QED BY <2>5, <2>6, <3>1
  <2>9. Below(sum, (x + y) * n, d)
    BY <1>3, <1>7, <2>7, <2>8, PlusBounds
  <2>10. Below(c, d, x + y)
    <3>1. w[2] * (x + y) = w[1] * d /\ d * w[1] = w[1] * d
      <4>. HIDE DEF w
      <4>. QED BY <1>3, <1>4, <1>5
    <3>2. w[2] * (x + y) = d * w[1]
      <4>. HIDE DEF w
      <4>. QED BY <3>1
    <3>3. d * w[1] \in Int
      <4>. HIDE DEF w
      <4>. QED BY <1>3, <1>5
    <3>. HIDE DEF c, w
    <3>. QED BY <1>6, <3>2, <3>3 DEF Below
  <2>. HIDE DEF c, sum, w
  <2>11. c[1] >= 0 /\ (x + y) * n \in Nat /\ x + y \in Nat \ {0}
    BY <1>3, <1>5, <1>6
  <2>12. Below(Times(sum, c), ((x + y) * n) * d, d * (x + y))
    BY <1>3, <1>6, <1>9, <2>9, <2>10, <2>11, TimesBounds
  <2>13. ((x + y) * n) * d = (d * (x + y)) * n /\ d * (x + y) = (d * (x + y)) * 1 /\ d * (x + y) \in Nat \ {0}
    BY <1>3
  <2>14. Times(sum, c) \in Fraction
    BY <1>6, <1>9, TimesIs
  <2>. QED BY <2>12, <2>13, <2>14, Reduce
<1>11. Over(sum, w) = Times(sum, c)
  BY DEF Over
<1>12. Over(sum, w) \in Fraction /\ Over(sum, w)[1] > 0
  <2>. HIDE DEF sum, w
  <2>. QED BY <1>4, <1>9, OverIs
<1>. HIDE DEF c
<1>. QED BY <1>10, <1>11, <1>12

\* build_ensemble: the weight of a model is a positive number, whatever its error.
LEMMA WeightIs ==
    ASSUME NEW error \in Fraction
    PROVE  LET weight == Over(One, Larger(error, LeastError))
           IN  weight \in Fraction /\ weight[1] > 0
<1>. DEFINE l == Larger(error, LeastError)
<1>1. LeastError \in Fraction /\ LeastError[1] > 0 /\ LeastError[1] \in Int /\ LeastError[2] \in Nat \ {0}
  BY DemandAssumption DEF Fraction
<1>2. error[1] \in Int /\ error[2] \in Nat \ {0}
  BY DEF Fraction
<1>3. l \in Fraction /\ l[1] > 0
  <2>1. CASE Less(error, LeastError)
    BY <1>1, <2>1 DEF Larger
  <2>2. CASE ~ Less(error, LeastError)
    <3>1. ~ (error[1] * LeastError[2] < LeastError[1] * error[2])
      BY <1>1, <2>2, LessIs
    <3>2. error[2] * LeastError[1] > 0 /\ error[2] * LeastError[1] = LeastError[1] * error[2]
      <4>1. error[2] * LeastError[1] > 0
        BY <1>1, <1>2, SignOfProduct
      <4>. QED BY <1>1, <1>2, <4>1
    <3>3. LeastError[2] * error[1] = error[1] * LeastError[2] /\ LeastError[2] * error[1] \in Int
      BY <1>1, <1>2
    <3>4. LeastError[2] * error[1] > 0
      <4>. DEFINE u == LeastError[2] * error[1]
                  v == error[2] * LeastError[1]
      <4>1. u \in Int /\ v \in Int /\ v > 0 /\ ~ (u < v)
        BY <1>1, <1>2, <3>1, <3>2, <3>3
      <4>. HIDE DEF u, v
      <4>2. u > 0
        BY <4>1
      <4>. QED BY <4>2 DEF u
    <3>5. error[1] > 0
      BY <1>1, <1>2, <3>4, SignOfProduct
    <3>. QED BY <2>2, <3>5 DEF Larger
  <2>. QED BY <2>1, <2>2
<1>. HIDE DEF l
<1>4. One \in Fraction /\ One[1] > 0 /\ One[1] >= 0
  BY Constants
<1>. QED BY <1>3, <1>4, OverIs DEF l

\* What a model without a trend forecasts is more than nothing where something was sold.
LEMMA PathIs ==
    ASSUME NEW work, Demands(work), \E i \in 1..Len(work) : work[i] # Zero,
           NEW name \in Trendless, NEW h \in Nat, NEW x
    PROVE  \E rate \in Fraction :
              /\ rate[1] > 0
              /\ \A n \in Nat : (\A i \in 1..Len(work) : Below(work[i], n, 1)) => Below(rate, n, 1)
              /\ Predict(name, work, h) = Flat(rate, h)
              /\ HorizonPath(name, work, h, x) = Flat(rate, h)
<1>1. work # << >>
  OBVIOUS
<1>2. PICK rate : Predict(name, work, h) = Flat(rate, h) /\ Between(rate, work)
  BY <1>1, PredictIs
<1>3. \E i \in 1..Len(work) : work[i][1] > 0
  BY DemandsAre
<1>4. rate \in Fraction /\ rate[1] > 0
  BY <1>2, <1>3 DEF Between
<1>5. Less(Zero, rate)
  <2>1. 0 * rate[2] < rate[1] * 1
    BY <1>4 DEF Fraction
  <2>. QED BY <1>4, <2>1, LessIs, Constants
<1>6. HorizonPath(name, work, h, x) = Flat(rate, h)
  <2>. DEFINE path == Predict(name, work, h)
  <2>1. name # "prophet" /\ name # "seasonal_holt"
    BY DEF Trendless
  <2>2. Fits(name, work)
    BY <2>1 DEF Fits
  <2>3. HorizonPath(name, work, h, x) = [i \in 1..h |-> Larger(Zero, path[i])]
    BY <2>1, <2>2 DEF HorizonPath
  <2>4. \A i \in 1..h : path[i] = rate
    BY <1>2 DEF Flat
  <2>5. Larger(Zero, rate) = rate
    BY <1>5 DEF Larger
  <2>. HIDE DEF path
  <2>. QED BY <2>3, <2>4, <2>5 DEF Flat
<1>7. \A n \in Nat : (\A i \in 1..Len(work) : Below(work[i], n, 1)) => Below(rate, n, 1)
  BY <1>2 DEF Between
<1>. QED BY <1>2, <1>4, <1>6, <1>7

\* The scores of a SKU that sells little.
LEMMA ScoresAre ==
    ASSUME NEW hist, History(hist), Slow(hist), Series(hist) # << >>, NEW x \in Externals,
           Scores(hist, x, TRUE) # << >>
    PROVE  LET scores == Scores(hist, x, TRUE)
           IN  /\ Len(scores) \in Nat \ {0}
               /\ \A i \in 1..Len(scores) :
                     scores[i].wmape \in Fraction /\ scores[i].name \in Trendless \cup {"prophet"}
<1>. DEFINE work == Series(hist)
            n == Len(work)
            h == Holdout(n)
            train == SubSeq(work, 1, n - h)
            actual == SubSeq(work, n - h + 1, n)
            names == <<"ses", "mean", "croston">>
            own == [i \in 1..3 |-> Score(names[i], train, actual)]
            other == [name |-> "prophet", wmape |-> x.wmape, residuals |-> x.residuals]
<1>1. Work(hist, TRUE) = work
  BY DEF Work, Slow, AtMost
<1>2. Demands(work) /\ n \in Nat \ {0}
  BY SeriesIs, DemandsAre
<1>3. Candidates(work, train, Mean(work)) = names
  BY DEF Candidates, Slow
<1>4. h \in 0..(n - 1)
  <2>. HIDE DEF n
  <2>. QED BY <1>2, HoldoutIs
<1>5. Demands(train) /\ train # << >> /\ Demands(actual)
  <2>. HIDE DEF h, work
  <2>1. Demands(train) /\ Len(train) = n - h
    <3>1. 1 \in 1..(n + 1) /\ n - h \in 0..n /\ 1 <= n - h + 1 /\ (n - h - 1) + 1 = n - h
      BY <1>2, <1>4
    <3>. QED BY <1>2, <1>4, <3>1, PartOfDemands
  <2>2. Demands(actual)
    <3>1. n - h + 1 \in 1..(n + 1) /\ n \in 0..n /\ n - h + 1 <= n + 1
      BY <1>2, <1>4
    <3>. QED BY <1>2, <3>1, PartOfDemands
  <2>3. train # << >>
    <3>1. n - h # 0
      BY <1>2, <1>4
    <3>. QED BY <2>1, <3>1
  <2>. QED BY <2>1, <2>2, <2>3
<1>. HIDE DEF train, actual, h, n, work
<1>6. ASSUME NEW name \in Trendless
      PROVE  Score(name, train, actual).wmape \in Fraction /\ Score(name, train, actual).name = name
  <2>1. PICK rate : Predict(name, train, Len(actual)) = Flat(rate, Len(actual)) /\ Between(rate, train)
    BY <1>5, PredictIs
  <2>2. rate \in Fraction
    BY <2>1 DEF Between
  <2>3. Wmape(Predict(name, train, Len(actual)), actual) \in Fraction
    BY <1>5, <2>1, <2>2, WmapeTyped
  <2>. QED BY <2>3 DEF Score
<1>7. /\ Len(own) = 3 /\ Len(own) \in Nat
      /\ \A i \in 1..3 : own[i].wmape \in Fraction /\ own[i].name \in Trendless
  <2>1. Len(names) = 3 /\ \A i \in 1..3 : names[i] \in Trendless
    BY DEF Trendless
  <2>. HIDE DEF names
  <2>2. \A i \in 1..3 : own[i] = Score(names[i], train, actual)
    OBVIOUS
  <2>3. Len(own) = 3
    OBVIOUS
  <2>. HIDE DEF own
  <2>. QED BY <1>6, <2>1, <2>2, <2>3
<1>8. h # 0 /\ Scores(hist, x, TRUE) = IF x = NoCandidate THEN own ELSE Append(own, other)
  <2>1. Len(names) = 3
    OBVIOUS
  <2>. QED BY <1>1, <1>3, <2>1 DEF Scores, train, actual, h, n, work
<1>. DEFINE scores == Scores(hist, x, TRUE)
            Sound(score) == score.wmape \in Fraction /\ score.name \in Trendless \cup {"prophet"}
<1>9. ASSUME x = NoCandidate
      PROVE  Len(scores) = 3 /\ \A i \in 1..3 : Sound(scores[i])
  <2>. HIDE DEF own
  <2>1. scores = own
    BY <1>8, <1>9
  <2>. HIDE DEF scores
  <2>. QED BY <1>7, <2>1
<1>10. ASSUME x # NoCandidate
       PROVE  Len(scores) = 4 /\ \A i \in 1..4 : Sound(scores[i])
  <2>1. other.wmape \in Fraction /\ other.name = "prophet"
    BY <1>10, ForecastingAssumption
  <2>. DEFINE all == {own[1], own[2], own[3], other}
  <2>2. own \in Seq(all) /\ other \in all
    OBVIOUS
  <2>. HIDE DEF own, other, all
  <2>3. scores = Append(own, other)
    BY <1>8, <1>10
  <2>. HIDE DEF scores
  <2>4. Len(scores) = 4
    <3>1. Len(Append(own, other)) = Len(own) + 1
      BY <2>2
    <3>2. Len(own) + 1 = 4
      BY <1>7
    <3>. QED BY <2>3, <3>1, <3>2
  <2>5. scores[4] = other
    <3>1. Append(own, other)[Len(own) + 1] = other
      BY <2>2
    <3>2. Len(own) + 1 = 4
      BY <1>7
    <3>. QED BY <2>3, <3>1, <3>2
  <2>6. \A i \in 1..3 : scores[i] = own[i]
    <3>1. \A i \in 1..Len(own) : Append(own, other)[i] = own[i]
      BY <2>2
    <3>2. Len(own) = 3
      BY <1>7
    <3>. QED BY <2>3, <3>1, <3>2
  <2>7. \A i \in 1..4 : i \in 1..3 \/ i = 4
    OBVIOUS
  <2>8. \A i \in 1..3 : Sound(scores[i])
    BY <1>7, <2>6
  <2>9. Sound(scores[4])
    BY <2>1, <2>5
  <2>. HIDE DEF Sound
  <2>. QED BY <2>4, <2>7, <2>8, <2>9
<1>11. Len(scores) \in Nat \ {0} /\ \A i \in 1..Len(scores) : Sound(scores[i])
  <2>. HIDE DEF scores, Sound
  <2>. QED BY <1>9, <1>10
<1>. QED BY <1>11, Zenon

\* More than nothing and not above n.
Modest(rate, n) == Less(Zero, rate) /\ AtMost(rate, Whole(n))

\* The bound of a fraction in terms of the model's order.
LEMMA ModestIs ==
    ASSUME NEW rate \in Fraction, rate[1] > 0, NEW n \in Nat, Below(rate, n, 1)
    PROVE  Modest(rate, n)
<1>1. rate[1] \in Int /\ rate[2] \in Nat \ {0}
  BY DEF Fraction
<1>2. Less(Zero, rate)
  <2>1. 0 * rate[2] < rate[1] * 1
    BY <1>1
  <2>. QED BY <2>1, LessIs, Constants
<1>3. AtMost(rate, Whole(n))
  <2>1. rate[1] * 1 <= n * rate[2]
    BY DEF Below
  <2>. QED BY <2>1, AtMostIs, Constants
<1>. QED BY <1>2, <1>3 DEF Modest

\* The first of the lowest scores is one of them.
LEMMA BestIs ==
    ASSUME NEW scores, NEW among, among \subseteq Nat, IsFiniteSet(among), among # {},
           \A i \in among : scores[i].wmape \in Fraction
    PROVE  Best(scores, among) \in among
<1>. DEFINE m == [i \in among |-> scores[i].wmape]
            First(i) == \A j \in among :
                           IF j < i THEN Less(scores[i].wmape, scores[j].wmape)
                           ELSE AtMost(scores[i].wmape, scores[j].wmape)
<1>1. \A i \in among : m[i] \in Fraction
  OBVIOUS
<1>2. PICK i \in among : \A j \in among : IF j < i THEN Less(m[i], m[j]) ELSE AtMost(m[i], m[j])
  <2>. HIDE DEF m
  <2>. QED BY <1>1, FirstLowest
<1>3. First(i)
  BY <1>2
<1>4. (CHOOSE j \in among : First(j)) \in among
  <2>. HIDE DEF First
  <2>. QED BY <1>3
<1>. QED BY <1>4 DEF Best

\* There are finitely many scores.
LEMMA UpToIsFinite == ASSUME NEW n \in Nat PROVE IsFiniteSet(1..n)
BY FS_Interval

\* The choice among models without a trend, alone or blended.
LEMMA ChosenIs ==
    ASSUME NEW scores, Len(scores) \in Nat \ {0},
           \A i \in 1..Len(scores) :
              scores[i].wmape \in Fraction /\ scores[i].name \in Trendless \cup {"prophet"},
           NEW work, Demands(work), \E i \in 1..Len(work) : work[i] # Zero,
           NEW n \in Nat, \A i \in 1..Len(work) : Below(work[i], n, 1),
           NEW h \in Nat, NEW x, "prophet" \notin ChosenBundle(scores, work, h, x).models
    PROVE  /\ Len(ChosenBundle(scores, work, h, x).predictions) = h
           /\ \A k \in 1..h : Modest(ChosenBundle(scores, work, h, x).predictions[k], n)
<1>. DEFINE first == scores[Best(scores, 1..Len(scores))]
            others == {i \in 1..Len(scores) : scores[i] # first}
            second == scores[Best(scores, others)]
            close == /\ others # {}
                     /\ AtMost(second.wmape, Times(first.wmape, Plus(One, Tolerance)))
            Path(score) == HorizonPath(score.name, work, h, x)
            Weight(score) == Over(One, Larger(score.wmape, LeastError))
            path == IF close THEN Blend(Path(first), Path(second), Weight(first), Weight(second))
                    ELSE Path(first)
<1>1. /\ ChosenBundle(scores, work, h, x).predictions = path
      /\ ChosenBundle(scores, work, h, x).models = {first.name} \cup IF close THEN {second.name} ELSE {}
  BY DEF ChosenBundle, Bundle
<1>2. 1..Len(scores) \subseteq Nat /\ IsFiniteSet(1..Len(scores)) /\ 1..Len(scores) # {}
  <2>1. IsFiniteSet(1..Len(scores))
    BY UpToIsFinite
  <2>2. 1 \in 1..Len(scores)
    OBVIOUS
  <2>. QED BY <2>1, <2>2
<1>3. /\ Best(scores, 1..Len(scores)) \in 1..Len(scores)
      /\ others # {} => Best(scores, others) \in others
  <2>1. Best(scores, 1..Len(scores)) \in 1..Len(scores)
    BY <1>2, BestIs
  <2>2. others \subseteq 1..Len(scores) /\ IsFiniteSet(others)
    <3>1. others \subseteq 1..Len(scores)
      OBVIOUS
    <3>. HIDE DEF others
    <3>. QED BY <1>2, <3>1, FS_Subset
  <2>. HIDE DEF others
  <2>3. others \subseteq Nat /\ \A i \in others : scores[i].wmape \in Fraction
    BY <2>2
  <2>. QED BY <2>1, <2>2, <2>3, BestIs
<1>4. first.name \in Trendless /\ first.wmape \in Fraction
  <2>1. first.name # "prophet"
    BY <1>1
  <2>. HIDE DEF first
  <2>2. first.name \in Trendless \cup {"prophet"} /\ first.wmape \in Fraction
    BY <1>3 DEF first
  <2>. QED BY <2>1, <2>2
<1>5. ASSUME close PROVE second.name \in Trendless /\ second.wmape \in Fraction
  <2>1. second.name # "prophet" /\ others # {}
    BY <1>1, <1>5
  <2>2. others \subseteq 1..Len(scores)
    OBVIOUS
  <2>. HIDE DEF others, first, close
  <2>3. second.name \in Trendless \cup {"prophet"} /\ second.wmape \in Fraction
    BY <1>3, <2>1, <2>2
  <2>. QED BY <2>1, <2>3
<1>. HIDE DEF first, second, others
<1>6. PICK a \in Fraction : a[1] > 0 /\ Below(a, n, 1) /\ Path(first) = Flat(a, h)
  BY <1>4, PathIs
<1>7. CASE ~ close
  <2>1. path = Flat(a, h)
    BY <1>6, <1>7
  <2>. HIDE DEF path
  <2>2. Len(path) = h /\ \A k \in 1..h : path[k] = a
    BY <2>1 DEF Flat
  <2>3. Modest(a, n)
    BY <1>6, ModestIs
  <2>. QED BY <1>1, <2>2, <2>3
<1>8. CASE close
  <2>1. PICK b \in Fraction : b[1] > 0 /\ Below(b, n, 1) /\ Path(second) = Flat(b, h)
    BY <1>5, <1>8, PathIs
  <2>. DEFINE wa == Weight(first)
              wb == Weight(second)
              r == Over(Plus(Times(wa, a), Times(wb, b)), Plus(wa, wb))
  <2>2. wa \in Fraction /\ wa[1] > 0 /\ wb \in Fraction /\ wb[1] > 0
    BY <1>4, <1>5, <1>8, WeightIs
  <2>3. path = Blend(Flat(a, h), Flat(b, h), wa, wb)
    BY <1>6, <1>8, <2>1
  <2>. HIDE DEF wa, wb, path, close
  <2>4. /\ Len(Blend(Flat(a, h), Flat(b, h), wa, wb)) = h
        /\ \A k \in 1..h : Blend(Flat(a, h), Flat(b, h), wa, wb)[k] = r
    <3>1. Len(Flat(a, h)) = h /\ \A k \in 1..h : Flat(a, h)[k] = a /\ Flat(b, h)[k] = b
      BY DEF Flat
    <3>. QED BY <3>1 DEF Blend
  <2>5. r \in Fraction /\ r[1] > 0 /\ Below(r, n, 1)
    BY <1>6, <2>1, <2>2, BlendIs
  <2>. HIDE DEF r
  <2>6. Modest(r, n)
    BY <2>5, ModestIs
  <2>. QED BY <1>1, <2>3, <2>4, <2>6
<1>. QED BY <1>7, <1>8

\* build_ensemble: a SKU that sells little is forecast a modest rate every day.
LEMMA EnsembleIs ==
    ASSUME NEW hist, History(hist), Slow(hist), SoldLately(hist), NEW x \in Externals,
           "prophet" \notin Ensemble(hist, 2, x, TRUE).models,
           NEW k \in 1..Len(Ensemble(hist, 2, x, TRUE).predictions)
    PROVE  Modest(Ensemble(hist, 2, x, TRUE).predictions[k], Latest(Sales(hist)))
<1>. DEFINE work == Series(hist)
            n == Latest(Sales(hist))
            scores == Scores(hist, x, TRUE)
            h == Latest({1, Earliest({2, MaxHorizon})})
            bundle == Ensemble(hist, 2, x, TRUE)
<1>1. Work(hist, TRUE) = work
  BY DEF Work, Slow, AtMost
<1>2. \E i \in 1..Len(work) : work[i] # Zero
  BY DEF SoldLately
<1>3. Demands(work) /\ n \in Nat /\ \A i \in 1..Len(work) : Below(work[i], n, 1)
  BY <1>2, SeriesIs
<1>4. bundle = IF scores = << >> THEN DefaultBundle(work, h) ELSE ChosenBundle(scores, work, h, x)
  BY <1>1, <1>2 DEF Ensemble
<1>5. work # << >>
  BY <1>2
\* The horizon is cut to what is forecast at most.
<1>6. h \in Nat
  <2>. DEFINE cut == Earliest({2, MaxHorizon})
  <2>1. MaxHorizon \in Nat
    BY DemandAssumption
  <2>2. cut \in {2, MaxHorizon}
    BY <2>1, EarliestIs
  <2>3. cut \in Nat
    BY <2>1, <2>2
  <2>4. h = Latest({1, cut})
    OBVIOUS
  <2>. HIDE DEF cut, h
  <2>5. Latest({1, cut}) \in {1, cut}
    <3>1. 1 \in Int /\ cut \in Int
      BY <2>3
    <3>. QED BY <3>1, LatestOfTwo, Zenon
  <2>. QED BY <2>3, <2>4, <2>5
<1>. HIDE DEF h, bundle
<1>7. Len(bundle.predictions) = h /\ \A i \in 1..h : Modest(bundle.predictions[i], n)
  <2>1. CASE scores = << >>
    <3>. DEFINE model == IF Intermittent(work) THEN "croston" ELSE "ses"
    <3>1. model \in Trendless
      BY DEF Trendless
    <3>. HIDE DEF model
    <3>2. PICK rate \in Fraction : rate[1] > 0 /\ Below(rate, n, 1) /\ Predict(model, work, h) = Flat(rate, h)
      <4>. HIDE DEF work, n
      <4>. QED BY <1>2, <1>3, <1>6, <3>1, PathIs
    <3>3. DefaultBundle(work, h).predictions = Predict(model, work, h)
      BY DEF DefaultBundle, Bundle, model
    <3>4. bundle.predictions = Flat(rate, h)
      BY <1>4, <2>1, <3>2, <3>3
    <3>5. Len(Flat(rate, h)) = h /\ \A i \in 1..h : Flat(rate, h)[i] = rate
      BY <1>6 DEF Flat
    <3>6. Modest(rate, n)
      <4>. HIDE DEF n
      <4>. QED BY <1>3, <3>2, ModestIs
    <3>. HIDE DEF work, n
    <3>. QED BY <3>4, <3>5, <3>6
  <2>2. CASE scores # << >>
    <3>1. /\ Len(scores) \in Nat \ {0}
          /\ \A i \in 1..Len(scores) :
                scores[i].wmape \in Fraction /\ scores[i].name \in Trendless \cup {"prophet"}
      BY <1>5, <2>2, ScoresAre
    <3>. HIDE DEF scores, work, n
    <3>2. bundle = ChosenBundle(scores, work, h, x)
      BY <1>4, <2>2
    <3>3. "prophet" \notin ChosenBundle(scores, work, h, x).models
      BY <3>2 DEF bundle
    <3>4. /\ Len(ChosenBundle(scores, work, h, x).predictions) = h
          /\ \A i \in 1..h : Modest(ChosenBundle(scores, work, h, x).predictions[i], n)
      BY <1>2, <1>3, <1>6, <3>1, <3>3, ChosenIs
    <3>. QED BY <3>2, <3>4
  <2>. QED BY <2>1, <2>2
<1>8. k \in 1..h
  BY <1>7 DEF bundle
<1>. QED BY <1>7, <1>8 DEF bundle

\* build_ensemble: whatever the history of a SKU, the grid, the steps of the holdout and
\* what Prophet says, a SKU below the gate for trends that sold on a day of its series is
\* never forecast to sell nothing, nor more than on its best day, unless Prophet has a say.
THEOREM SlowForecastsStayWithinSales == Selling => FlatWithinSales
<1>1. ASSUME NEW histories \in Portfolios PROVE FlatWithin(histories)
  <2>. SUFFICES ASSUME NEW k \in 1..Len(histories), NEW x \in Externals,
                       Slow(histories[k]), SoldLately(histories[k]),
                       "prophet" \notin Ensemble(histories[k], 2, x, TRUE).models,
                       NEW i \in 1..Len(Ensemble(histories[k], 2, x, TRUE).predictions)
                PROVE  /\ Less(Zero, Ensemble(histories[k], 2, x, TRUE).predictions[i])
                       /\ AtMost(Ensemble(histories[k], 2, x, TRUE).predictions[i],
                                 Whole(Latest(Sales(histories[k]))))
    BY DEF FlatWithin
  <2>1. History(histories[k])
    BY ForecastingAssumption
  <2>. QED BY <2>1, EnsembleIs DEF Modest
<1>2. [Proceed]_history => [FlatWithin(sales')]_sales
  <2>1. CASE Sell
    BY <1>1, <2>1 DEF Sell
  <2>2. CASE UNCHANGED sales
    BY <2>2
  <2>. QED BY <2>1, <2>2 DEF Proceed, history
<1>. QED BY <1>2, PTL DEF Selling, FlatWithinSales
=============================================================================
