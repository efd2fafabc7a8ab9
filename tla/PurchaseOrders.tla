--------------------------- MODULE PurchaseOrders ---------------------------
(***************************************************************************)
(* The approval API of api/routes/purchase_orders.py: POST .../approve,    *)
(* POST .../reject and the signed e-mail/Slack link POST /po/action, as    *)
(* they run side by side on one event loop.  Each handler is a coroutine   *)
(* that gives up control at every await, so each await is a step here.     *)
(*                                                                         *)
(* The database (orders, saved answers, audit log, graph checkpoints)      *)
(* survives a restart; the answer cache and the handlers do not.           *)
(***************************************************************************)
EXTENDS Naturals, FiniteSets

CONSTANTS
    POs,         \* purchase orders created as pending_approval
    Threads,     \* graph runs paused after notify_pending
    ThreadOf,    \* ThreadOf[p]: the run that drafted p; None for chat orders
    Drafted,     \* Drafted[p]: the quantity p was drafted with
    Quantities,  \* order quantities
    Keys,        \* Idempotency-Key header values
    Requests,    \* identities of the requests
    CallsOf,     \* CallsOf[r]: the calls request r may carry
    CacheMax,    \* _IDEMPOTENCY_CACHE_MAX
    MaxCrashes,  \* bound: how often the process restarts
    None

Calls ==
    [op: {"approve", "reject"}, po: POs, qty: Quantities \cup {None},
     key: Keys \cup {None}, via: {"api", "token"}]

\* What a client is answered, and what is decided about an order.
Answers == [po: POs, status: {"approved", "rejected"}]
Decisions == [status: {"approved", "rejected"}, qty: Quantities, by: Requests]

ASSUME ConstantsAssumption ==
    /\ ThreadOf \in [POs -> Threads \cup {None}]
    /\ Drafted \in [POs -> Quantities]
    /\ CallsOf \in [Requests -> SUBSET Calls]
    /\ \A r \in Requests : \A c \in CallsOf[r] : c.via = "token" => c.key = None
    /\ None \notin POs \cup Threads \cup Quantities \cup Keys \cup Requests
    /\ None \notin Calls \cup Answers \cup Decisions
    /\ CacheMax \in Nat \ {0}
    /\ MaxCrashes \in Nat

VARIABLES
    po,       \* the purchase_orders rows
    thread,   \* thread[t]: "paused" after notify_pending, or "finished"
    saved,    \* the idempotency_keys rows: key -> answer
    audit,    \* the audit_log rows po.approve and po.reject
    cache,    \* _idempotency_cache of this process: key -> answer
    pc,       \* pc[r]: where the handler of request r waits, or how it ended
    call,     \* call[r]: what request r asks for
    seen,     \* seen[r]: the quantity _resolve_po returned
    old,      \* old[r]: the quantity read before marking the order as edited
    reply,    \* reply[r]: the answer request r got, if it succeeded
    crashes   \* how often the process has restarted

database == <<po, thread, saved, audit>>
locals == <<seen, old>>
vars == <<database, cache, pc, call, locals, reply, crashes>>

Statuses == {"pending_approval", "approved", "rejected"}
Row == [status: Statuses, qty: Quantities, by: Requests \cup {None},
        edited: BOOLEAN, original: Quantities \cup {None}]

\* The places where a handler waits, and the ways it can end.
Waiting == {"lookup", "resolve", "mark", "mark_write", "resume", "update",
            "audit", "remember", "save", "reply"}
Settled == {"answered", "refused", "failed", "lost"}

TypeOK ==
    /\ po \in [POs -> Row]
    /\ thread \in [Threads -> {"paused", "finished"}]
    /\ saved \in [Keys -> Answers \cup {None}]
    /\ audit \subseteq [po: POs, status: {"approved", "rejected"}, by: Requests]
    /\ cache \in [Keys -> Answers \cup {None}]
    /\ pc \in [Requests -> {"idle"} \cup Waiting \cup Settled]
    /\ call \in [Requests -> Calls \cup {None}]
    /\ seen \in [Requests -> Quantities \cup {None}]
    /\ old \in [Requests -> Quantities \cup {None}]
    /\ reply \in [Requests -> Answers \cup {None}]
    /\ crashes \in 0..MaxCrashes

Init ==
    /\ po = [p \in POs |-> [status |-> "pending_approval", qty |-> Drafted[p],
                            by |-> None, edited |-> FALSE, original |-> None]]
    /\ thread = [t \in Threads |-> "paused"]
    /\ saved = [k \in Keys |-> None]
    /\ audit = {}
    /\ cache = [k \in Keys |-> None]
    /\ pc = [r \in Requests |-> "idle"]
    /\ call = [r \in Requests |-> None]
    /\ seen = [r \in Requests |-> None]
    /\ old = [r \in Requests |-> None]
    /\ reply = [r \in Requests |-> None]
    /\ crashes = 0

-----------------------------------------------------------------------------
(* Which step follows which, for a given call.                             *)

StatusFor(c) == IF c.op = "approve" THEN "approved" ELSE "rejected"

\* Mutant: the answer of approve copied into reject.
AnswerForCopied(c) == [po |-> c.po, status |-> "approved"]

AnswerFor(c) == [po |-> c.po, status |-> StatusFor(c)]

\* The graph is resumed only for orders that carry a thread.
AfterMark(c) == IF ThreadOf[c.po] # None THEN "resume" ELSE "update"

\* Mutant: only orders of a graph run are marked.
AfterResolveUnmarked(c) ==
    IF c.op = "approve" /\ c.qty # None /\ ThreadOf[c.po] # None
    THEN "mark" ELSE AfterMark(c)

\* _mark_edited_if_changed runs on approve and returns at once without a quantity.
AfterResolve(c) ==
    IF c.op = "approve" /\ c.qty # None THEN "mark" ELSE AfterMark(c)

\* The link handler writes no audit entry.
AfterUpdate(c) == IF c.via = "api" THEN "audit" ELSE "reply"

\* Only a call with a key has its answer stored.
AfterAudit(c) == IF c.key # None THEN "remember" ELSE "reply"

\* Handler r, waiting at one place, moves on to another or ends.
Move(r, from, to) == pc[r] = from /\ pc' = [pc EXCEPT ![r] = to]

Answer(r, answer) == reply' = [reply EXCEPT ![r] = answer]

-----------------------------------------------------------------------------
(* Arrival of a request.                                                   *)

\* The key is in this process's cache: its answer is returned unexecuted.
ReplayCached(r, c) ==
    /\ c.key # None
    /\ cache[c.key] # None
    /\ Move(r, "idle", "answered")
    /\ call' = [call EXCEPT ![r] = c]
    /\ Answer(r, cache[c.key])
    /\ UNCHANGED <<database, cache, locals, crashes>>

Submit(r, c) ==
    /\ c.key # None => cache[c.key] = None
    /\ Move(r, "idle", IF c.key # None THEN "lookup" ELSE "resolve")
    /\ call' = [call EXCEPT ![r] = c]
    /\ UNCHANGED <<database, cache, locals, reply, crashes>>

\* verify_token refuses a link that is older than its expiry.
RefuseExpiredLink(r, c) ==
    /\ c.via = "token"
    /\ Move(r, "idle", "refused")
    /\ call' = [call EXCEPT ![r] = c]
    /\ UNCHANGED <<database, cache, locals, reply, crashes>>

\* The key is looked up among the saved answers; a hit also fills the cache,
\* without the eviction that Remember does.
ReplaySaved(r) ==
    LET k == call[r].key IN
    /\ Move(r, "lookup", "answered")
    /\ saved[k] # None
    /\ cache' = [cache EXCEPT ![k] = saved[k]]
    /\ Answer(r, saved[k])
    /\ UNCHANGED <<database, call, locals, crashes>>

MissKey(r) ==
    /\ Move(r, "lookup", "resolve")
    /\ saved[call[r].key] = None
    /\ UNCHANGED <<database, cache, call, locals, reply, crashes>>

-----------------------------------------------------------------------------
(* The body shared by the three endpoints.                                 *)

\* _resolve_po: only a pending order goes on.  The row lock ends with the
\* session, so what it returns is a copy that may go stale.
Resolve(r) ==
    LET p == call[r].po IN
    /\ Move(r, "resolve", AfterResolve(call[r]))
    /\ po[p].status = "pending_approval"
    /\ seen' = [seen EXCEPT ![r] = po[p].qty]
    /\ UNCHANGED <<database, cache, call, old, reply, crashes>>

RefuseResolved(r) ==
    /\ Move(r, "resolve", "refused")
    /\ po[call[r].po].status # "pending_approval"
    /\ UNCHANGED <<database, cache, call, locals, reply, crashes>>

\* _mark_edited_if_changed reads the order again, whatever its status now.
MarkRead(r) ==
    LET qty == po[call[r].po].qty IN
    /\ Move(r, "mark", IF qty # call[r].qty THEN "mark_write" ELSE AfterMark(call[r]))
    /\ old' = [old EXCEPT ![r] = qty]
    /\ UNCHANGED <<database, cache, call, seen, reply, crashes>>

\* ... and commits the mark in a transaction of its own.
MarkWrite(r) ==
    /\ Move(r, "mark_write", AfterMark(call[r]))
    /\ po' = [po EXCEPT ![call[r].po] =
                 [@ EXCEPT !.edited = TRUE, !.original = old[r]]]
    /\ UNCHANGED <<thread, saved, audit, cache, call, locals, reply, crashes>>

\* _resume_graph: the run goes through notify_confirmed to its end.  Resuming
\* a finished run does nothing.
Resume(r) ==
    /\ Move(r, "resume", "update")
    /\ thread' = [thread EXCEPT ![ThreadOf[call[r].po]] = "finished"]
    /\ UNCHANGED <<po, saved, audit, cache, call, locals, reply, crashes>>

\* Mutant: the timeout is swallowed and the order decided.
ResumeFailsSwallowed(r) ==
    /\ Move(r, "resume", "update")
    /\ UNCHANGED <<database, cache, call, locals, reply, crashes>>

\* The resume raises or overruns its 120 seconds; the run may have ended all
\* the same.
ResumeFails(r) ==
    LET t == ThreadOf[call[r].po] IN
    /\ Move(r, "resume", "failed")
    /\ \E s \in {thread[t], "finished"} : thread' = [thread EXCEPT ![t] = s]
    /\ UNCHANGED <<po, saved, audit, cache, call, locals, reply, crashes>>

\* Mutant: the row is selected by its id alone.
StillPendingById(p) == p \in POs

\* The WHERE clause of _update_po_status.
StillPending(p) == po[p].status = "pending_approval"

\* Mutant: the quantity of the call is written also when it names none.
DecidedRowNoDefault(r) ==
    LET c == call[r]
    IN  [po[c.po] EXCEPT !.status = StatusFor(c), !.by = r,
                         !.qty = IF c.op = "approve" THEN c.qty ELSE @]

\* The row a decision leaves: approve also writes the quantity, the caller's or
\* the one _resolve_po saw.
DecidedRow(r) ==
    LET c == call[r]
        chosen == IF c.qty # None THEN c.qty ELSE seen[r]
    IN  [po[c.po] EXCEPT !.status = StatusFor(c), !.by = r,
                         !.qty = IF c.op = "approve" THEN chosen ELSE @]

\* _update_po_status, under the row lock from SELECT to COMMIT ...
Update(r) ==
    LET p == call[r].po IN
    /\ Move(r, "update", AfterUpdate(call[r]))
    /\ StillPending(p)
    /\ po' = [po EXCEPT ![p] = DecidedRow(r)]
    /\ UNCHANGED <<thread, saved, audit, cache, call, locals, reply, crashes>>

\* Mutants: the missing row is not noticed, or waited for.
ConflictIgnored(r) ==
    /\ Move(r, "update", AfterUpdate(call[r]))
    /\ ~StillPending(call[r].po)
    /\ UNCHANGED <<database, cache, call, locals, reply, crashes>>
ConflictRetried(r) ==
    /\ Move(r, "update", "update")
    /\ ~StillPending(call[r].po)
    /\ UNCHANGED <<database, cache, call, locals, reply, crashes>>

\* ... or 409, when another handler was faster.
Conflict(r) ==
    /\ Move(r, "update", "refused")
    /\ ~StillPending(call[r].po)
    /\ UNCHANGED <<database, cache, call, locals, reply, crashes>>

\* log_audit_event commits the entry.
Audit(r) ==
    LET c == call[r] IN
    /\ Move(r, "audit", AfterAudit(c))
    /\ audit' = audit \cup {[po |-> c.po, status |-> StatusFor(c), by |-> r]}
    /\ UNCHANGED <<po, thread, saved, cache, call, locals, reply, crashes>>

-----------------------------------------------------------------------------
(* Keeping the answer for retries, failures and restarts.                  *)

Cached == {k \in Keys : cache[k] # None}

\* The entries of which one makes room.  The code takes the oldest; insertion
\* order is not modelled, so it may be any.
Evictable == {k \in Cached : Cardinality(Cached) >= CacheMax}

\* The answer enters the cache, in the place of another when it is full.
Remember(r) ==
    LET c == call[r]
        Put(gone) == [k \in Keys |-> IF k = c.key THEN AnswerFor(c)
                                     ELSE IF k \in gone THEN None ELSE cache[k]]
    IN
    /\ Move(r, "remember", "save")
    /\ \/ Evictable = {} /\ cache' = Put({})
       \/ \E k \in Evictable : cache' = Put({k})
    /\ UNCHANGED <<database, call, locals, reply, crashes>>

\* The row is inserted, unless another request has used the primary key.
SaveKey(r) ==
    /\ Move(r, "save", "reply")
    /\ saved[call[r].key] = None
    /\ saved' = [saved EXCEPT ![call[r].key] = AnswerFor(call[r])]
    /\ UNCHANGED <<po, thread, audit, cache, call, locals, reply, crashes>>

KeyTaken(r) ==
    /\ Move(r, "save", "failed")
    /\ saved[call[r].key] # None
    /\ UNCHANGED <<database, cache, call, locals, reply, crashes>>

\* The handler returns its answer to the client.
Reply(r) ==
    /\ Move(r, "reply", "answered")
    /\ Answer(r, AnswerFor(call[r]))
    /\ UNCHANGED <<database, cache, call, locals, crashes>>

\* A database error ends the handler where it waits; what it committed stays.
Fail(r) ==
    /\ \E from \in Waiting \ {"remember", "reply"} : Move(r, from, "failed")
    /\ UNCHANGED <<database, cache, call, locals, reply, crashes>>

\* The process restarts: its handlers and its cache are gone.
Crash ==
    /\ crashes < MaxCrashes
    /\ crashes' = crashes + 1
    /\ cache' = [k \in Keys |-> None]
    /\ pc' = [r \in Requests |-> IF pc[r] \in Waiting THEN "lost" ELSE pc[r]]
    /\ UNCHANGED <<database, call, locals, reply>>

Arrive(r) ==
    \E c \in CallsOf[r] : ReplayCached(r, c) \/ Submit(r, c) \/ RefuseExpiredLink(r, c)

\* The steps the event loop takes for a handler it has started.
Run(r) ==
    \/ ReplaySaved(r) \/ MissKey(r) \/ Resolve(r) \/ RefuseResolved(r)
    \/ MarkRead(r) \/ MarkWrite(r) \/ Resume(r) \/ ResumeFails(r)
    \/ Update(r) \/ Conflict(r) \/ Audit(r) \/ Remember(r) \/ SaveKey(r)
    \/ KeyTaken(r) \/ Reply(r)

Next ==
    \/ \E r \in Requests : Arrive(r) \/ Run(r) \/ Fail(r)
    \/ Crash

Spec == Init /\ [][Next]_vars

\* Nobody has to send a request and nothing has to fail, but a started handler
\* keeps being scheduled: every await of it is answered or times out.
FairSpec == Spec /\ \A r \in Requests : WF_vars(Run(r))

-----------------------------------------------------------------------------
(* Properties.                                                             *)

Decided(p) == po[p].status # "pending_approval"
TrueAnswer(a) == po[a.po].status = a.status

\* Whatever a client is answered, and whatever is kept to be answered later,
\* is the decision in the database: also a replay after a restart, and when
\* two calls used one key.
AnswersTrue ==
    /\ \A r \in Requests : reply[r] # None => TrueAnswer(reply[r])
    /\ \A k \in Keys : /\ cache[k] # None => TrueAnswer(cache[k])
                       /\ saved[k] # None => TrueAnswer(saved[k])

\* The audit log never contradicts the orders: an entry names the request that
\* decided the order and what it decided, so no order has two entries.
AuditMatchesDecision ==
    \A a \in audit : po[a.po].status = a.status /\ po[a.po].by = a.by

\* No order is approved at another quantity than it was drafted with without
\* being marked as edited, whoever marked, decided or failed in between.
EditNeverSilent ==
    \A p \in POs : po[p].status = "approved" /\ po[p].qty # Drafted[p]
                       => po[p].edited

\* The approval interrupt of a run is over before any of its orders is decided:
\* no decided order leaves its graph waiting.
NoOrphanInterrupt ==
    \A p \in POs : Decided(p) /\ ThreadOf[p] # None
                       => thread[ThreadOf[p]] = "finished"

\* Every started request comes to an end, whatever the other ones do.
EveryRequestSettles ==
    \A r \in Requests : pc[r] \in Waiting ~> pc[r] \in Settled

\* The decisions clients were told, as PODecision sees them.
Told == {reply[r] : r \in {q \in Requests : reply[q] # None}}

DecisionOf(p) == IF Decided(p)
                 THEN [status |-> po[p].status, qty |-> po[p].qty, by |-> po[p].by]
                 ELSE None

Abstract == INSTANCE PODecision
                WITH decision <- [p \in POs |-> DecisionOf(p)], told <- Told

\* The API implements PODecision: at most one decision for every order, by one
\* request and at one quantity, final, and clients told of nothing else.
RefinesDecision == Abstract!Spec
=============================================================================
