------------------------------ MODULE Webhooks ------------------------------
(***************************************************************************)
(* Shopify's webhooks, as agent/webhooks.py receives them: recognised by   *)
(* their event id, handled, and remembered; what fails is kept in          *)
(* failed_webhooks and tried again by a job of the scheduler.  Shopify     *)
(* itself delivers an event again when it is not answered with 200.        *)
(*                                                                         *)
(* Handling an event commits one transaction, so it is one step.  For      *)
(* orders_create it adds to the sales history: doing it twice counts the   *)
(* order twice.                                                            *)
(***************************************************************************)
EXTENDS Naturals, Sequences, FiniteSets, SequencesExt

CONSTANTS
    Events,      \* event ids
    Deliveries,  \* HTTP requests that deliver an event
    EventOf,     \* EventOf[d]: the event delivery d carries
    Oversized,   \* deliveries whose payload failed_webhooks cuts off
    CacheSize,   \* _MAX_WEBHOOK_CACHE_SIZE
    MaxRetries,  \* max_retries
    Batch,       \* LIMIT of the job's query
    MaxOutages,  \* bound: restarts, and database errors that end the job
    None

ASSUME WebhooksAssumption ==
    /\ EventOf \in [Deliveries -> Events]
    /\ Oversized \subseteq Deliveries
    /\ CacheSize \in Nat \ {0}
    /\ MaxRetries \in Nat \ {0}
    /\ Batch \in Nat \ {0}
    /\ MaxOutages \in Nat
    /\ None \notin Deliveries \cup Nat

VARIABLES
    applied,  \* applied[e]: how often event e was handled to the end
    events,   \* the webhook_events rows
    recent,   \* _processed_webhook_events of this process, oldest first
    failed,   \* failed[d]: retry_count of the failed_webhooks row of d, if any
    due,      \* rows whose next_retry_at has passed
    pc,       \* pc[d]: what the handler of delivery d does next, or its answer
    todo,     \* the job: rows it has read and not come to yet
    row,      \* the job: the row it is at
    phase,    \* the job: what it does next
    late,     \* history: deliveries that came when one of their event was answered "ok"
    outages

database == <<applied, events, failed>>
job == <<todo, row, phase>>
vars == <<database, recent, due, pc, job, late, outages>>

Working == {"lookup", "handle", "remember", "record", "enqueue"}
Answered == {"ok", "ignored", "queued", "error", "lost"}

\* The state is of its type; no row is tried more often than max_retries allows.
TypeOK ==
    /\ applied \in [Events -> Nat]
    /\ events \subseteq Events
    /\ recent \in Seq(Events) /\ Len(recent) <= CacheSize
    /\ failed \in [Deliveries -> 0..MaxRetries \cup {None}]
    /\ due \subseteq Deliveries
    /\ pc \in [Deliveries -> {"idle"} \cup Working \cup Answered]
    /\ todo \subseteq Deliveries
    /\ row \in Deliveries \cup {None}
    /\ phase \in {"next", "delete", "postpone"}
    /\ late \subseteq Deliveries
    /\ outages \in 0..MaxOutages

Init ==
    /\ applied = [e \in Events |-> 0]
    /\ events = {}
    /\ recent = << >>
    /\ failed = [d \in Deliveries |-> None]
    /\ due = {}
    /\ pc = [d \in Deliveries |-> "idle"]
    /\ todo = {} /\ row = None /\ phase = "next"
    /\ late = {}
    /\ outages = 0

-----------------------------------------------------------------------------
(* A delivery: handle_webhook_event.                                       *)

Cached == ToSet(recent)

PositionOf(e) == CHOOSE i \in 1..Len(recent) : recent[i] = e

\* The event is now the newest of the cache: it is moved to the end, or added there,
\* and the oldest makes room for it when the cache is full.
Remembering(e) ==
    IF e \in Cached THEN Append(RemoveAt(recent, PositionOf(e)), e)
    ELSE IF Len(recent) < CacheSize THEN Append(recent, e)
    ELSE Append(Tail(recent), e)

Move(d, from, to) == pc[d] = from /\ pc' = [pc EXCEPT ![d] = to]

Apply(d) == applied' = [applied EXCEPT ![EventOf[d]] = @ + 1]

\* An event of the cache is ignored at once, any other is looked up.
Arrive(d) ==
    /\ Move(d, "idle", IF EventOf[d] \in Cached THEN "ignored" ELSE "lookup")
    /\ late' = late \cup
           {c \in {d} : \E q \in Deliveries : EventOf[q] = EventOf[c] /\ pc[q] = "ok"}
    /\ UNCHANGED <<database, recent, due, job, outages>>

Duplicate(d) ==
    /\ EventOf[d] \in events
    /\ Move(d, "lookup", "ignored")
    /\ UNCHANGED <<database, recent, due, job, late, outages>>

\* Mutant: the event is remembered before it has been handled.
FreshRemembered(d) ==
    /\ EventOf[d] \notin events
    /\ Move(d, "lookup", "handle")
    /\ recent' = Remembering(EventOf[d])
    /\ UNCHANGED <<database, due, job, late, outages>>

Fresh(d) ==
    /\ EventOf[d] \notin events
    /\ Move(d, "lookup", "handle")
    /\ UNCHANGED <<database, recent, due, job, late, outages>>

Handle(d) ==
    /\ Move(d, "handle", "remember")
    /\ Apply(d)
    /\ UNCHANGED <<events, failed, recent, due, job, late, outages>>

\* The handler raises, and has committed nothing.
HandleFails(d) ==
    /\ Move(d, "handle", "enqueue")
    /\ UNCHANGED <<database, recent, due, job, late, outages>>

\* _enqueue_failed_webhook; the answer is an error all the same.
Enqueue(d) ==
    /\ Move(d, "enqueue", "queued")
    /\ failed' = [failed EXCEPT ![d] = 0]
    /\ UNCHANGED <<applied, events, recent, due, job, late, outages>>

\* _mark_webhook_processed: the cache first ...
Remember(d) ==
    /\ Move(d, "remember", "record")
    /\ recent' = Remembering(EventOf[d])
    /\ UNCHANGED <<database, due, job, late, outages>>

\* Mutant: the cache is thought to be enough.
RecordCacheOnly(d) ==
    /\ Move(d, "record", "ok")
    /\ UNCHANGED <<database, recent, due, job, late, outages>>

\* ... and then the database, where the event id is the primary key.
Record(d) ==
    /\ EventOf[d] \notin events
    /\ Move(d, "record", "ok")
    /\ events' = events \cup {EventOf[d]}
    /\ UNCHANGED <<applied, failed, recent, due, job, late, outages>>

\* A bad signature, a database error, or the key already there: an error is the answer
\* and nothing is kept for a retry.
Fail(d) ==
    /\ \E from \in {"lookup", "enqueue", "record"} : Move(d, from, "error")
    /\ UNCHANGED <<database, recent, due, job, late, outages>>

-----------------------------------------------------------------------------
(* The job: retry_failed_webhooks.                                         *)

\* The time of the next retry comes.
FallDue(d) ==
    /\ failed[d] # None /\ d \notin due
    /\ due' = due \cup {d}
    /\ UNCHANGED <<database, recent, pc, job, late, outages>>

\* Mutant: one retry too many.
RetryableOnceMore == {d \in due : failed[d] # None /\ failed[d] <= MaxRetries}

Retryable == {d \in due : failed[d] # None /\ failed[d] < MaxRetries}

\* The scheduler starts the job again only when it has ended.
SelectDue ==
    /\ todo = {} /\ row = None /\ Retryable # {}
    /\ \E rows \in SUBSET Retryable :
          /\ Cardinality(rows) <= Batch
          /\ rows # Retryable => Cardinality(rows) = Batch
          /\ todo' = rows
    /\ UNCHANGED <<database, recent, due, pc, row, phase, late, outages>>

Take(d) ==
    /\ phase = "next" /\ row = None
    /\ d \in todo
    /\ todo' = todo \ {d}
    /\ row' = d

\* The event is handled again, whether or not it has been handled meanwhile.
Retry(d) ==
    /\ Take(d)
    /\ d \notin Oversized
    /\ phase' = "delete"
    /\ Apply(d)
    /\ UNCHANGED <<events, failed, recent, due, pc, late, outages>>

\* Mutant: the row is deleted whatever the handler did.
RetryFailsDeleted(d) ==
    /\ Take(d)
    /\ phase' = "delete"
    /\ UNCHANGED <<database, recent, due, pc, late, outages>>

\* The handler raises; a payload that was cut off cannot even be parsed.
RetryFails(d) ==
    /\ Take(d)
    /\ phase' = "postpone"
    /\ UNCHANGED <<database, recent, due, pc, late, outages>>

Delete ==
    /\ phase = "delete"
    /\ failed' = [failed EXCEPT ![row] = None]
    /\ due' = due \ {row}
    /\ phase' = "next" /\ row' = None
    /\ UNCHANGED <<applied, events, recent, pc, todo, late, outages>>

\* The row could not be deleted and is postponed like one that failed.
DeleteFails ==
    /\ phase = "delete"
    /\ phase' = "postpone"
    /\ UNCHANGED <<database, recent, due, pc, todo, row, late, outages>>

\* Mutant: the failure is not counted.
PostponeUncounted ==
    /\ phase = "postpone"
    /\ due' = due \ {row}
    /\ phase' = "next" /\ row' = None
    /\ UNCHANGED <<database, recent, pc, todo, late, outages>>

Postpone ==
    /\ phase = "postpone"
    /\ failed' = [failed EXCEPT ![row] = @ + 1]
    /\ due' = due \ {row}
    /\ phase' = "next" /\ row' = None
    /\ UNCHANGED <<applied, events, recent, pc, todo, late, outages>>

\* A database error while postponing ends the job, which leaves the other rows.
JobFails ==
    /\ phase = "postpone"
    /\ outages < MaxOutages
    /\ outages' = outages + 1
    /\ todo' = {} /\ row' = None /\ phase' = "next"
    /\ UNCHANGED <<database, recent, due, pc, late>>

\* The process, which is the API's and the scheduler's, restarts.
Restart ==
    /\ outages < MaxOutages
    /\ outages' = outages + 1
    /\ recent' = << >>
    /\ pc' = [d \in Deliveries |-> IF pc[d] \in Working THEN "lost" ELSE pc[d]]
    /\ todo' = {} /\ row' = None /\ phase' = "next"
    /\ UNCHANGED <<database, due, late>>

Job ==
    \/ SelectDue
    \/ \E d \in Deliveries : Retry(d) \/ RetryFails(d)
    \/ Delete \/ DeleteFails \/ Postpone

Next ==
    \/ \E d \in Deliveries :
          \/ Arrive(d) \/ Duplicate(d) \/ Fresh(d) \/ Handle(d) \/ HandleFails(d)
          \/ Enqueue(d) \/ Remember(d) \/ Record(d) \/ Fail(d) \/ FallDue(d)
    \/ Job \/ JobFails \/ Restart

Spec == Init /\ [][Next]_vars

\* Time passes, and the scheduler runs the job as long as there are rows for it.
FairSpec == Spec /\ WF_vars(Job) /\ \A d \in Deliveries : WF_vars(FallDue(d))

-----------------------------------------------------------------------------
(* Properties.                                                             *)

\* What is taken for processed has been processed: no event is ignored, answered
\* with "ok" or remembered, in the cache or the database, that was not handled to the
\* end, whatever failed or was lost on the way (_mark_webhook_processed).
ProcessedIsApplied ==
    /\ \A d \in Deliveries : pc[d] \in {"ok", "ignored"} => applied[EventOf[d]] > 0
    /\ \A e \in events \cup Cached : applied[e] > 0

\* A delivery that was put aside is not forgotten: its row stays, even when its
\* retries have run out, until the event has been handled (retry_failed_webhooks).
FailureIsKept ==
    \A d \in Deliveries :
        pc[d] = "queued" => failed[d] # None \/ applied[EventOf[d]] > 0

\* Once a delivery was answered with "ok" no later delivery of its event is handled,
\* also after the cache has dropped the event or a restart has emptied it.
OkIsRemembered ==
    \A d \in late :
        pc[d] \notin {"handle", "remember", "record", "enqueue", "queued", "ok"}

\* Every row is deleted in the end or has had its retries: none is starved by the
\* limit of the query, by others that keep failing, or by a restart.
EveryFailureSettles ==
    \A d \in Deliveries : failed[d] # None ~> failed[d] \in {None, MaxRetries}
=============================================================================
