----------------------------- MODULE ChatActions -----------------------------
(***************************************************************************)
(* Confirming and cancelling what the chat assistant proposed, as          *)
(* agent/chat/actions.py does it.  The actions proposed in one reply are a *)
(* JSON list in one row of chat_messages.  A request reads the row, works  *)
(* on its copy, and later writes the whole list back.                      *)
(***************************************************************************)
EXTENDS Naturals

CONSTANTS
    Actions,   \* the actions of one assistant message, each drafting an order
    Requests,  \* identities of the requests
    OpOf,      \* OpOf[r]: "confirm" or "cancel"
    ActionOf   \* ActionOf[r]: the action request r is about

ASSUME ChatAssumption ==
    /\ OpOf \in [Requests -> {"confirm", "cancel"}]
    /\ ActionOf \in [Requests -> Actions]

VARIABLES
    actions,  \* the row: action -> status
    overdue,  \* actions whose expires_at has passed
    pc,       \* pc[r]: what request r does next, or how it ended
    copy,     \* copy[r]: the list as r has read it and changed it
    ordered,  \* ordered[r]: r has created a purchase order
    audit,    \* the requests with an entry in audit_log
    before    \* history: before[r]: the requests that were over when r began

vars == <<actions, overdue, pc, copy, ordered, audit, before>>

Statuses == {"pending", "confirmed", "cancelled", "expired"}
Working == {"insert", "persist", "persist_expired", "audit"}

\* A request is torn when it fails between the order and the list.
Ended == {"answered", "refused", "failed", "torn"}

\* The state is of its type: every status the list takes is one of the four
\* _require_pending knows.
TypeOK ==
    /\ actions \in [Actions -> Statuses]
    /\ overdue \subseteq Actions
    /\ pc \in [Requests -> {"idle"} \cup Working \cup Ended]
    /\ copy \in [Requests -> [Actions -> Statuses]]
    /\ ordered \in [Requests -> BOOLEAN]
    /\ audit \subseteq Requests
    /\ before \in [Requests -> SUBSET Requests]

Init ==
    /\ actions = [a \in Actions |-> "pending"]
    /\ overdue = {}
    /\ pc = [r \in Requests |-> "idle"]
    /\ copy = [r \in Requests |-> [a \in Actions |-> "pending"]]
    /\ ordered = [r \in Requests |-> FALSE]
    /\ audit = {}
    /\ before = [r \in Requests |-> {}]

-----------------------------------------------------------------------------

Move(r, from, to) == pc[r] = from /\ pc' = [pc EXCEPT ![r] = to]

\* The row is read, now, into the request's copy.
Read(r) == before' = [before EXCEPT ![r] = {q \in Requests : pc[q] \in Ended}]

\* The status an action gets in the copy of the list.
Set(r, status) ==
    copy' = [copy EXCEPT ![r] = [actions EXCEPT ![ActionOf[r]] = status]]

\* Mutant: only a confirmed action is refused.
FindUnlessConfirmed(r) ==
    /\ actions[ActionOf[r]] # "confirmed"
    /\ ActionOf[r] \notin overdue
    /\ \/ /\ OpOf[r] = "confirm"
          /\ Move(r, "idle", "insert")
          /\ copy' = [copy EXCEPT ![r] = actions]
       \/ /\ OpOf[r] = "cancel"
          /\ Move(r, "idle", "persist")
          /\ Set(r, "cancelled")
    /\ Read(r)
    /\ UNCHANGED <<actions, overdue, ordered, audit>>

\* _find_action and _require_pending: a pending action goes on.  Cancelling sets
\* the status at once, confirming creates the order first.
Find(r) ==
    /\ actions[ActionOf[r]] = "pending"
    /\ ActionOf[r] \notin overdue
    /\ \/ /\ OpOf[r] = "confirm"
          /\ Move(r, "idle", "insert")
          /\ copy' = [copy EXCEPT ![r] = actions]
       \/ /\ OpOf[r] = "cancel"
          /\ Move(r, "idle", "persist")
          /\ Set(r, "cancelled")
    /\ Read(r)
    /\ UNCHANGED <<actions, overdue, ordered, audit>>

\* A resolved action is refused with 409 ...
RefuseResolved(r) ==
    /\ actions[ActionOf[r]] # "pending"
    /\ Move(r, "idle", "refused")
    /\ Read(r)
    /\ UNCHANGED <<actions, overdue, copy, ordered, audit>>

\* ... and an overdue one with 410, once the list says that it has expired.
FindOverdue(r) ==
    /\ actions[ActionOf[r]] = "pending"
    /\ ActionOf[r] \in overdue
    /\ Move(r, "idle", "persist_expired")
    /\ Set(r, "expired")
    /\ Read(r)
    /\ UNCHANGED <<actions, overdue, ordered, audit>>

\* Mutant: the action takes the status of the order it created.
InsertOrderStatus(r) ==
    /\ Move(r, "insert", "persist")
    /\ ordered' = [ordered EXCEPT ![r] = TRUE]
    /\ copy' = [copy EXCEPT ![r][ActionOf[r]] = "pending_approval"]
    /\ UNCHANGED <<actions, overdue, audit, before>>

\* confirm_action commits the order, pending approval, and marks its copy.
InsertOrder(r) ==
    /\ Move(r, "insert", "persist")
    /\ ordered' = [ordered EXCEPT ![r] = TRUE]
    /\ copy' = [copy EXCEPT ![r][ActionOf[r]] = "confirmed"]
    /\ UNCHANGED <<actions, overdue, audit, before>>

\* _persist_actions writes the whole copy over the row.
Persist(r) ==
    /\ \/ Move(r, "persist", "audit")
       \/ Move(r, "persist_expired", "refused")
    /\ actions' = copy[r]
    /\ UNCHANGED <<overdue, copy, ordered, audit, before>>

\* log_audit_event, and the answer.
Audit(r) ==
    /\ Move(r, "audit", "answered")
    /\ audit' = audit \cup {r}
    /\ UNCHANGED <<actions, overdue, copy, ordered, before>>

\* A database error or a restart ends the request; what it committed stays.
Fail(r) ==
    /\ \E from \in Working :
          Move(r, from, IF ordered[r] /\ from = "persist" THEN "torn" ELSE "failed")
    /\ UNCHANGED <<actions, overdue, copy, ordered, audit, before>>

\* The fifteen minutes of an action pass.
Expire(a) ==
    /\ a \notin overdue
    /\ overdue' = overdue \cup {a}
    /\ UNCHANGED <<actions, pc, copy, ordered, audit, before>>

Next ==
    \/ \E r \in Requests :
          \/ Find(r) \/ RefuseResolved(r) \/ FindOverdue(r)
          \/ InsertOrder(r) \/ Persist(r) \/ Audit(r) \/ Fail(r)
    \/ \E a \in Actions : Expire(a)

Spec == Init /\ [][Next]_vars

-----------------------------------------------------------------------------
(* Properties.                                                             *)

\* Two requests were at work on the message at the same time.
Overlap(r, q) ==
    /\ r # q
    /\ pc[r] # "idle" /\ pc[q] # "idle"
    /\ q \notin before[r] /\ r \notin before[q]

\* A request that was answered and had the message to itself.
Undisturbed(r) == pc[r] = "answered" /\ \A q \in Requests : ~Overlap(r, q)

\* Request q came to the action of r after r was over.
Follows(q, r) == ActionOf[q] = ActionOf[r] /\ r \in before[q]

\* An action that was confirmed or cancelled without interference is never ordered
\* again, however many requests about this message follow, in whatever order, at the
\* same time or failing half-way (_require_pending, actions.py:87).
SettledIsNotOrdered ==
    \A r, q \in Requests : Undisturbed(r) /\ Follows(q, r) => ~ordered[q]

\* The list keeps what an undisturbed request was told: whatever later requests write
\* back, its action stays confirmed with an order and an audit entry, or cancelled
\* without an order of its own (_persist_actions, actions.py:79).
ListIsTrue ==
    \A r \in Requests : Undisturbed(r) =>
        /\ actions[ActionOf[r]] = IF ordered[r] THEN "confirmed" ELSE "cancelled"
        /\ r \in audit
=============================================================================
