------------------------ MODULE PurchaseOrdersProofs ------------------------
(***************************************************************************)
(* Proofs about PurchaseOrders.tla, for every number of orders, requests,  *)
(* keys and restarts.                                                      *)
(***************************************************************************)
EXTENDS PurchaseOrders, TLAPS

\* The call a handler carries allows the step it waits at.
CallFitsStep(r) ==
    LET c == call[r] IN
    /\ pc[r] # "idle" => c \in Calls
    /\ pc[r] \in {"lookup", "remember", "save"} => c.key # None
    /\ pc[r] \in {"mark", "mark_write"} => c.op = "approve" /\ c.qty # None
    /\ pc[r] = "mark_write" => old[r] # None
    /\ pc[r] = "resume" => ThreadOf[c.po] # None

\* A handler past Resolve has seen the drafted quantity: no quantity changes
\* before the decision, and Resolve went on only for a pending order.
SeenIsDrafted(r) ==
    pc[r] \in {"mark", "mark_write", "resume", "update"}
        => seen[r] = Drafted[call[r].po]

\* A handler past the marking has marked its own change, if it makes one and
\* the order is still open.
MarkedBefore(r) ==
    LET c == call[r] IN
    pc[r] \in {"resume", "update"} /\ c.op = "approve" /\ ~Decided(c.po)
        => c.qty \in {None, Drafted[c.po]} \/ po[c.po].edited

\* A handler past the resume has ended the run of its order.
ResumedBefore(r) ==
    LET c == call[r] IN
    pc[r] = "update" /\ ThreadOf[c.po] # None
        => thread[ThreadOf[c.po]] = "finished"

\* A handler past the update is the one that decided its order.
DecidedByMe(r) ==
    LET c == call[r] IN
    pc[r] \in {"audit", "remember", "save", "reply"}
        => po[c.po].status = StatusFor(c) /\ po[c.po].by = r

HandlerInv == \A r \in Requests :
    /\ CallFitsStep(r) /\ SeenIsDrafted(r) /\ MarkedBefore(r)
    /\ ResumedBefore(r) /\ DecidedByMe(r)

\* An open order is as drafted, a decided one has its decider.
RowInv == \A p \in POs :
    IF Decided(p) THEN po[p].by # None
    ELSE po[p].qty = Drafted[p] /\ po[p].by = None

\* Only a handler that has ended has answered.
ReplyLast == \A r \in Requests : reply[r] # None => pc[r] = "answered"

IInv ==
    /\ TypeOK
    /\ ReplyLast
    /\ HandlerInv
    /\ RowInv
    /\ AnswersTrue
    /\ AuditMatchesDecision
    /\ EditNeverSilent
    /\ NoOrphanInterrupt

-----------------------------------------------------------------------------
LEMMA InitIInv == Init => IInv
  <1> SUFFICES ASSUME Init PROVE IInv
    OBVIOUS
  <1> USE ConstantsAssumption
  <1>1. TypeOK
    BY DEF Init, TypeOK, Row, Statuses, Waiting, Settled
  <1>2. HandlerInv
    BY DEF Init, HandlerInv, CallFitsStep, SeenIsDrafted, MarkedBefore,
           ResumedBefore, DecidedByMe
  <1>3. RowInv /\ EditNeverSilent /\ NoOrphanInterrupt /\ ReplyLast
    BY DEF Init, ReplyLast, RowInv, EditNeverSilent, NoOrphanInterrupt, Decided
  <1>4. AnswersTrue /\ AuditMatchesDecision
    BY DEF Init, AnswersTrue, AuditMatchesDecision
  <1> QED
    BY <1>1, <1>2, <1>3, <1>4 DEF IInv
-----------------------------------------------------------------------------
\* Every step keeps the types.
LEMMA TypeStep == ASSUME IInv, [Next]_vars PROVE TypeOK'
  <1> USE ConstantsAssumption
  <1>0. /\ TypeOK
        /\ \A r \in Requests : CallFitsStep(r) /\ SeenIsDrafted(r)
    BY DEF IInv, HandlerInv
  <1>a. \A r \in Requests : \A c \in CallsOf[r] :
            c \in Calls /\ (c.key # None => c.key \in Keys)
    BY DEF Calls
  <1>b. \A c \in Calls : /\ c.po \in POs
                         /\ c.qty # None => c.qty \in Quantities
                         /\ c.key # None => c.key \in Keys
                         /\ StatusFor(c) \in {"approved", "rejected"}
                         /\ AnswerFor(c) \in Answers
    BY DEF Calls, StatusFor, AnswerFor, Answers
  <1> USE <1>0 DEF TypeOK, Waiting, Settled, CallFitsStep, database, locals, Move, Answer
  <1>1. ASSUME NEW r \in Requests, NEW c \in CallsOf[r], ReplayCached(r, c) PROVE TypeOK'
    BY <1>1, <1>a DEF ReplayCached
  <1>2. ASSUME NEW r \in Requests, NEW c \in CallsOf[r], Submit(r, c) PROVE TypeOK'
    BY <1>2, <1>a DEF Submit
  <1>3. ASSUME NEW r \in Requests, NEW c \in CallsOf[r], RefuseExpiredLink(r, c)
        PROVE TypeOK'
    BY <1>3, <1>a DEF RefuseExpiredLink
  <1>4. ASSUME NEW r \in Requests, ReplaySaved(r) \/ MissKey(r) PROVE TypeOK'
    BY <1>4, <1>b DEF ReplaySaved, MissKey
  <1>5. ASSUME NEW r \in Requests, Resolve(r) \/ RefuseResolved(r) PROVE TypeOK'
    <2>1. call[r] \in Calls /\ po[call[r].po].qty \in Quantities
      BY <1>5, <1>b DEF Resolve, RefuseResolved, Row
    <2>2. AfterResolve(call[r]) \in Waiting
      BY DEF AfterResolve, AfterMark
    <2> QED
      BY <1>5, <2>1, <2>2 DEF Resolve, RefuseResolved
  <1>6. ASSUME NEW r \in Requests, MarkRead(r) PROVE TypeOK'
    BY <1>6, <1>b DEF MarkRead, AfterMark, Row
  <1>7. ASSUME NEW r \in Requests, MarkWrite(r) PROVE TypeOK'
    <2>0. po[call[r].po] \in Row /\ old[r] \in Quantities
      BY <1>7, <1>b DEF MarkWrite
    <2>1. [po[call[r].po] EXCEPT !.edited = TRUE, !.original = old[r]] \in Row
      BY <2>0 DEF Row
    <2>2. AfterMark(call[r]) \in Waiting
      BY DEF AfterMark
    <2> QED
      BY <1>7, <1>b, <2>1, <2>2 DEF MarkWrite
  <1>8. ASSUME NEW r \in Requests, Resume(r) \/ ResumeFails(r) PROVE TypeOK'
    BY <1>8, <1>b DEF Resume, ResumeFails
  <1>9. ASSUME NEW r \in Requests, Update(r) PROVE TypeOK'
    <2> DEFINE c == call[r]
               chosen == IF c.qty # None THEN c.qty ELSE seen[r]
    <2>1. c \in Calls /\ po[c.po] \in Row
      BY <1>9, <1>b DEF Update
    <2>2. chosen \in Quantities
      BY <1>9, <1>b, <2>1 DEF Update, SeenIsDrafted
    <2>3. StatusFor(c) \in Statuses
      BY DEF StatusFor, Statuses
    <2> HIDE DEF chosen
    <2>4. [po[c.po] EXCEPT !.status = StatusFor(c), !.by = r,
                           !.qty = IF c.op = "approve" THEN chosen ELSE @] \in Row
      BY <2>1, <2>2, <2>3 DEF Row
    <2>5. DecidedRow(r) \in Row
      BY <2>4 DEF DecidedRow, chosen
    <2> QED
      BY <1>9, <1>b, <2>5 DEF Update, AfterUpdate
  <1>10. ASSUME NEW r \in Requests, Conflict(r) \/ KeyTaken(r) \/ Fail(r) PROVE TypeOK'
    BY <1>10 DEF Conflict, KeyTaken, Fail
  <1>11. ASSUME NEW r \in Requests, Audit(r) PROVE TypeOK'
    BY <1>11, <1>b DEF Audit, AfterAudit
  <1>12. ASSUME NEW r \in Requests, Remember(r) PROVE TypeOK'
    <2>1. AnswerFor(call[r]) \in Answers
      BY <1>12, <1>b DEF Remember
    <2>2. cache' \in [Keys -> Answers \cup {None}]
      BY <1>12, <2>1 DEF Remember
    <2> QED
      BY <1>12, <2>2 DEF Remember
  <1>13. ASSUME NEW r \in Requests, SaveKey(r) PROVE TypeOK'
    BY <1>13, <1>b DEF SaveKey
  <1>14. ASSUME NEW r \in Requests, Reply(r) PROVE TypeOK'
    BY <1>14, <1>b DEF Reply
  <1>15. CASE Crash
    BY <1>15 DEF Crash
  <1>16. CASE UNCHANGED vars
    BY <1>16 DEF vars
  <1> QED
    BY <1>1, <1>2, <1>3, <1>4, <1>5, <1>6, <1>7, <1>8, <1>9, <1>10, <1>11,
       <1>12, <1>13, <1>14, <1>15, <1>16 DEF Next, Arrive, Run
-----------------------------------------------------------------------------
\* What no step takes back: a decision, the mark of an edited order, the end
\* of a run; and an order that is still open has kept its quantity.
Kept ==
    /\ \A p \in POs :
           /\ Decided(p) => /\ po'[p].status = po[p].status
                            /\ po'[p].qty = po[p].qty
                            /\ po'[p].by = po[p].by
           /\ ~Decided(p)' => /\ ~Decided(p)
                              /\ po'[p].qty = po[p].qty
                              /\ po'[p].by = po[p].by
           /\ po[p].edited => po'[p].edited
    /\ \A t \in Threads : thread[t] = "finished" => thread'[t] = "finished"

LEMMA KeptStep == ASSUME IInv, [Next]_vars PROVE Kept
  <1> USE ConstantsAssumption
  <1>0. /\ TypeOK
        /\ \A r \in Requests : CallFitsStep(r)
    BY DEF IInv, HandlerInv
  <1>b. \A c \in Calls : c.po \in POs
    BY DEF Calls
  <1> USE <1>0 DEF TypeOK, database, Kept, Decided, Move
  <1>1. ASSUME UNCHANGED <<po, thread>> PROVE Kept
    BY <1>1
  <1>2. ASSUME NEW r \in Requests, MarkWrite(r) PROVE Kept
    <2>1. call[r].po \in POs
      BY <1>2, <1>b DEF MarkWrite, CallFitsStep
    <2> QED
      BY <1>2, <2>1 DEF MarkWrite, Row
  <1>3. ASSUME NEW r \in Requests, Resume(r) \/ ResumeFails(r) PROVE Kept
    BY <1>3 DEF Resume, ResumeFails
  <1>4. ASSUME NEW r \in Requests, Update(r) PROVE Kept
    <2>1. call[r].po \in POs
      BY <1>4, <1>b DEF Update, CallFitsStep
    <2>2. /\ DecidedRow(r).status # "pending_approval"
          /\ DecidedRow(r).edited = po[call[r].po].edited
      BY <2>1 DEF DecidedRow, StatusFor, Row
    <2> QED
      BY <1>4, <2>1, <2>2 DEF Update, StillPending
  <1>5. ASSUME NEW r \in Requests, NEW c \in CallsOf[r],
               ReplayCached(r, c) \/ Submit(r, c) \/ RefuseExpiredLink(r, c)
        PROVE  UNCHANGED <<po, thread>>
    BY <1>5 DEF ReplayCached, Submit, RefuseExpiredLink
  <1>6. ASSUME NEW r \in Requests,
               \/ ReplaySaved(r) \/ MissKey(r) \/ Resolve(r) \/ RefuseResolved(r)
               \/ MarkRead(r) \/ Conflict(r) \/ Audit(r) \/ Remember(r) \/ SaveKey(r)
               \/ KeyTaken(r) \/ Reply(r) \/ Fail(r)
        PROVE  UNCHANGED <<po, thread>>
    BY <1>6 DEF ReplaySaved, MissKey, Resolve, RefuseResolved, MarkRead, Conflict,
                Audit, Remember, SaveKey, KeyTaken, Reply, Fail
  <1>7. Crash \/ UNCHANGED vars => UNCHANGED <<po, thread>>
    BY DEF Crash, vars
  <1> QED
    BY <1>1, <1>2, <1>3, <1>4, <1>5, <1>6, <1>7 DEF Next, Arrive, Run
-----------------------------------------------------------------------------
\* The facts HandlerInv states about one handler.
OneHandler(q) ==
    /\ CallFitsStep(q) /\ SeenIsDrafted(q) /\ MarkedBefore(q)
    /\ ResumedBefore(q) /\ DecidedByMe(q)

\* A handler that does not move, or ends, keeps its facts: they only mention
\* its own variables and what Kept says stays.
LEMMA Bystander ==
    ASSUME IInv, Kept, TypeOK', NEW q \in Requests,
           UNCHANGED <<call[q], seen[q], old[q]>>,
           pc'[q] = pc[q] \/ (pc[q] \in Waiting /\ pc'[q] \in Settled)
    PROVE  OneHandler(q)'
  <1> USE ConstantsAssumption
  <1>1. OneHandler(q) /\ TypeOK
    BY DEF IInv, HandlerInv, OneHandler
  <1>2. CASE pc[q] \in Waiting /\ pc'[q] \in Settled
    BY <1>1, <1>2 DEF OneHandler, CallFitsStep, SeenIsDrafted, MarkedBefore,
       ResumedBefore, DecidedByMe, Waiting, Settled
  <1>3. CASE pc'[q] = pc[q]
    BY <1>1, <1>3 DEF OneHandler, CallFitsStep, SeenIsDrafted, MarkedBefore,
         ResumedBefore, DecidedByMe, Kept, Decided, TypeOK, Calls, StatusFor
  <1> QED
    BY <1>2, <1>3
\* A handler that moves on has the facts of the place it moves to.
LEMMA Mover ==
    ASSUME IInv, Kept, TypeOK', NEW r \in Requests, Arrive(r) \/ Run(r) \/ Fail(r)
    PROVE  OneHandler(r)'
  <1> USE ConstantsAssumption
  <1>1. OneHandler(r) /\ TypeOK /\ RowInv
    BY DEF IInv, HandlerInv, OneHandler
  <1>b. \A c \in Calls : c.po \in POs /\ (c.op = "approve" \/ c.op = "reject")
    BY DEF Calls
  <1> USE <1>1, <1>b DEF OneHandler, CallFitsStep, Move, database, locals
  <1> USE DEF SeenIsDrafted, MarkedBefore, ResumedBefore, DecidedByMe
  <1>2. CASE Arrive(r)
    <2>1. PICK c \in CallsOf[r] : ReplayCached(r, c) \/ Submit(r, c) \/ RefuseExpiredLink(r, c)
      BY <1>2 DEF Arrive
    <2>2. c \in Calls /\ call'[r] = c
      BY <2>1 DEF ReplayCached, Submit, RefuseExpiredLink, TypeOK
    <2>3. pc'[r] \in {"answered", "lookup", "resolve", "refused"}
      BY <2>1 DEF ReplayCached, Submit, RefuseExpiredLink, TypeOK
    <2>4. pc'[r] = "lookup" => c.key # None
      BY <2>1 DEF ReplayCached, Submit, RefuseExpiredLink, TypeOK
    <2> QED
      BY <2>2, <2>3, <2>4
  <1>3. CASE ReplaySaved(r) \/ RefuseResolved(r) \/ ResumeFails(r) \/ Conflict(r)
             \/ KeyTaken(r) \/ Reply(r) \/ Fail(r)
    <2>1. /\ UNCHANGED <<call[r], seen[r], old[r]>>
          /\ pc[r] \in Waiting /\ pc'[r] \in Settled
      BY <1>3 DEF ReplaySaved, RefuseResolved, ResumeFails, Conflict, KeyTaken,
                  Reply, Fail, TypeOK, Waiting, Settled
    <2> QED
      BY <2>1, Bystander
  <1>4. CASE MissKey(r)
    BY <1>4 DEF MissKey, TypeOK
  <1>5. CASE Resolve(r)
    BY <1>5 DEF Resolve, AfterResolve, AfterMark, RowInv, Decided, TypeOK
  <1>6. CASE MarkRead(r)
    BY <1>6 DEF MarkRead, AfterMark, RowInv, Decided, TypeOK, Row
  <1>7. CASE MarkWrite(r)
    BY <1>7 DEF MarkWrite, AfterMark, Decided, TypeOK, Row
  <1>8. CASE Resume(r)
    BY <1>8 DEF Resume, TypeOK, Decided, Kept
  <1>9. CASE Update(r)
    BY <1>9 DEF Update, AfterUpdate, DecidedRow, TypeOK, Row, Decided
  <1>10. CASE Audit(r) \/ Remember(r) \/ SaveKey(r)
    BY <1>10 DEF Audit, AfterAudit, Remember, SaveKey, TypeOK
  <1> QED
    BY <1>2, <1>3, <1>4, <1>5, <1>6, <1>7, <1>8, <1>9, <1>10 DEF Run

LEMMA HandlerStep == ASSUME IInv, [Next]_vars, Kept, TypeOK' PROVE HandlerInv'
  <1> SUFFICES ASSUME NEW q \in Requests PROVE OneHandler(q)'
    BY DEF HandlerInv, OneHandler
  <1>1. TypeOK
    BY DEF IInv
  <1>2. ASSUME NEW r \in Requests, Arrive(r) \/ Run(r) \/ Fail(r), q # r
        PROVE  UNCHANGED <<call[q], seen[q], old[q], pc[q]>>
    <2>1. CASE Arrive(r)
      BY <1>1, <1>2, <2>1 DEF Arrive, ReplayCached, Submit, RefuseExpiredLink,
         Move, locals, TypeOK
    <2>2. CASE Run(r) \/ Fail(r)
      BY <1>1, <1>2, <2>2 DEF Run, ReplaySaved, MissKey, Resolve, RefuseResolved,
         MarkRead, MarkWrite, Resume, ResumeFails, Update, Conflict, Audit,
         Remember, SaveKey, KeyTaken, Reply, Fail, Move, locals, TypeOK
    <2> QED
      BY <1>2, <2>1, <2>2
  <1>3. Crash => /\ UNCHANGED <<call[q], seen[q], old[q]>>
                 /\ pc'[q] = pc[q] \/ (pc[q] \in Waiting /\ pc'[q] \in Settled)
    BY DEF Crash, Settled, locals
  <1>4. UNCHANGED vars => UNCHANGED <<call[q], seen[q], old[q], pc[q]>>
    BY DEF vars, locals
  <1> QED
    BY <1>2, <1>3, <1>4, Bystander, Mover DEF Next
-----------------------------------------------------------------------------
\* Only _update_po_status decides an order: it is the step behind every change
\* of status, by the request whose call names the order.
LEMMA OnlyUpdateDecides ==
    ASSUME IInv, [Next]_vars, NEW p \in POs, ~Decided(p), Decided(p)'
    PROVE  \E r \in Requests : /\ Update(r) /\ call[r].po = p
                               /\ po'[p] = DecidedRow(r)
  <1> USE DEF IInv, TypeOK, Decided, database
  <1>1. ASSUME NEW r \in Requests, MarkWrite(r) PROVE FALSE
    BY <1>1 DEF MarkWrite, Row
  <1>2. ASSUME NEW r \in Requests, Update(r)
        PROVE  call[r].po = p /\ po'[p] = DecidedRow(r)
    BY <1>2 DEF Update
  <1>3. ASSUME NEW r \in Requests, Arrive(r) PROVE UNCHANGED po
    BY <1>3 DEF Arrive, ReplayCached, Submit, RefuseExpiredLink
  <1>4. ASSUME NEW r \in Requests, Run(r) \/ Fail(r), ~Update(r), ~MarkWrite(r)
        PROVE  UNCHANGED po
    BY <1>4 DEF Run, ReplaySaved, MissKey, Resolve, RefuseResolved, MarkRead,
       Resume, ResumeFails, Conflict, Audit, Remember, SaveKey, KeyTaken, Reply, Fail
  <1>5. Crash \/ UNCHANGED vars => UNCHANGED po
    BY DEF Crash, vars
  <1>6. UNCHANGED po => FALSE
    OBVIOUS
  <1>7. PICK r \in Requests : Arrive(r) \/ Run(r) \/ Fail(r)
    BY <1>5, <1>6 DEF Next
  <1> QED
    BY <1>1, <1>2, <1>3, <1>4, <1>6, <1>7

LEMMA RowStep ==
    ASSUME IInv, [Next]_vars, Kept, TypeOK', HandlerInv'
    PROVE  RowInv' /\ EditNeverSilent' /\ NoOrphanInterrupt'
  <1> USE ConstantsAssumption
  <1>0. TypeOK /\ RowInv /\ EditNeverSilent /\ NoOrphanInterrupt
    BY DEF IInv
  <1>1. ASSUME NEW p \in POs, ~Decided(p)'
        PROVE  po'[p].qty = Drafted[p] /\ po'[p].by = None
    BY <1>0, <1>1 DEF Kept, RowInv
  <1>2. ASSUME NEW p \in POs, Decided(p), Decided(p)'
        PROVE  /\ po'[p].by # None
               /\ po'[p].status = "approved" /\ po'[p].qty # Drafted[p] => po'[p].edited
               /\ ThreadOf[p] # None => thread'[ThreadOf[p]] = "finished"
    BY <1>0, <1>2 DEF Kept, RowInv, EditNeverSilent, NoOrphanInterrupt
  <1>3. ASSUME NEW p \in POs, ~Decided(p), Decided(p)'
        PROVE  /\ po'[p].by # None
               /\ po'[p].status = "approved" /\ po'[p].qty # Drafted[p] => po'[p].edited
               /\ ThreadOf[p] # None => thread'[ThreadOf[p]] = "finished"
    <2>1. PICK r \in Requests : Update(r) /\ call[r].po = p /\ po'[p] = DecidedRow(r)
      BY <1>3, OnlyUpdateDecides
    <2>2. /\ SeenIsDrafted(r) /\ MarkedBefore(r) /\ ResumedBefore(r)
          /\ CallFitsStep(r) /\ pc[r] = "update"
      BY <2>1 DEF IInv, HandlerInv, Update, Move
    <2>3. call[r] \in Calls /\ po[p] \in Row
      BY <2>2, <1>0 DEF CallFitsStep, TypeOK
    <2>4. ThreadOf[p] # None => thread'[ThreadOf[p]] = "finished"
      BY <2>1, <2>2 DEF ResumedBefore, Kept
    <2>5. po'[p].by = r
      BY <2>1, <2>3 DEF DecidedRow, Row
    <2>6. po'[p].status = "approved" /\ po'[p].qty # Drafted[p] => po[p].edited
      BY <2>1, <2>2, <2>3, <1>3
         DEF DecidedRow, Row, StatusFor, SeenIsDrafted, MarkedBefore, Calls
    <2>7. po'[p].edited = po[p].edited
      BY <2>1, <2>3 DEF DecidedRow, Row
    <2> QED
      BY <2>4, <2>5, <2>6, <2>7
  <1> QED
    BY <1>1, <1>2, <1>3 DEF RowInv, EditNeverSilent, NoOrphanInterrupt, Decided

LEMMA ReplyStep == ASSUME IInv, [Next]_vars, TypeOK' PROVE ReplyLast'
  <1>0. TypeOK /\ ReplyLast
    BY DEF IInv
  <1> USE <1>0 DEF ReplyLast, TypeOK, Move, Answer
  <1>1. ASSUME NEW r \in Requests, Arrive(r) PROVE ReplyLast'
    BY <1>1 DEF Arrive, ReplayCached, Submit, RefuseExpiredLink
  <1>2. ASSUME NEW r \in Requests, Run(r) \/ Fail(r) PROVE ReplyLast'
    BY <1>2 DEF Run, ReplaySaved, MissKey, Resolve, RefuseResolved, MarkRead,
       MarkWrite, Resume, ResumeFails, Update, Conflict, Audit, Remember, SaveKey,
       KeyTaken, Reply, Fail, Waiting
  <1>3. CASE Crash \/ UNCHANGED vars
    BY <1>3 DEF Crash, vars, Waiting
  <1> QED
    BY <1>1, <1>2, <1>3 DEF Next

\* An answer that is true stays true, since decisions are kept.
LEMMA TrueStays ==
    ASSUME Kept, NEW a \in Answers, TrueAnswer(a)
    PROVE  TrueAnswer(a)'
  BY DEF Kept, TrueAnswer, Decided, Answers

\* Answers and audit entries are only made by handlers past the update, which
\* DecidedByMe says have decided their orders that way.
LEMMA AnswersStep ==
    ASSUME IInv, [Next]_vars, Kept, TypeOK'
    PROVE  AnswersTrue' /\ AuditMatchesDecision'
  <1> USE ConstantsAssumption
  <1>0. /\ TypeOK /\ AnswersTrue /\ AuditMatchesDecision
        /\ \A r \in Requests : CallFitsStep(r) /\ DecidedByMe(r)
    BY DEF IInv, HandlerInv
  <1> DEFINE Good == {a \in Answers : TrueAnswer(a)} \cup {None}
             Past == {"audit", "remember", "save", "reply"}
             AllGood == /\ reply' \in [Requests -> Good]
                        /\ cache' \in [Keys -> Good]
                        /\ saved' \in [Keys -> Good]
             Logged(r) == [po |-> call[r].po, status |-> StatusFor(call[r]), by |-> r]
  <1>1. /\ reply \in [Requests -> Good]
        /\ cache \in [Keys -> Good]
        /\ saved \in [Keys -> Good]
    BY <1>0 DEF TypeOK, AnswersTrue
  <1>2. \A r \in Requests : pc[r] \in Past => AnswerFor(call[r]) \in Good
    BY <1>0 DEF DecidedByMe, CallFitsStep, AnswerFor, Answers, TrueAnswer, StatusFor, Calls
  <1>3. None \in Good
    OBVIOUS
  <1>4. AllGood /\ (audit' = audit \/ \E r \in Requests :
                        pc[r] \in Past /\ audit' = audit \cup {Logged(r)})
    <2> HIDE DEF Good
    <2> USE <1>1, <1>2, <1>3 DEF Move, Answer, database
    <2>1. ASSUME NEW r \in Requests, Arrive(r) PROVE AllGood /\ audit' = audit
      <3>1. PICK c \in CallsOf[r] :
                ReplayCached(r, c) \/ Submit(r, c) \/ RefuseExpiredLink(r, c)
        BY <2>1 DEF Arrive
      <3>2. c.key # None => c.key \in Keys
        BY DEF Calls
      <3> QED
        BY <3>1, <3>2 DEF ReplayCached, Submit, RefuseExpiredLink
    <2>2. ASSUME NEW r \in Requests, ReplaySaved(r) PROVE AllGood /\ audit' = audit
      <3>1. call[r].key \in Keys
        BY <2>2, <1>0 DEF ReplaySaved, CallFitsStep, Calls
      <3> QED
        BY <2>2, <3>1 DEF ReplaySaved
    <2>3. ASSUME NEW r \in Requests, Remember(r) PROVE AllGood /\ audit' = audit
      <3>1. cache' \in [Keys -> Good]
        BY <2>3 DEF Remember, Past
      <3> QED
        BY <2>3, <3>1 DEF Remember
    <2>4. ASSUME NEW r \in Requests, SaveKey(r) \/ Reply(r)
          PROVE  AllGood /\ audit' = audit
      BY <2>4 DEF SaveKey, Reply
    <2>5. ASSUME NEW r \in Requests, Audit(r)
          PROVE  AllGood /\ pc[r] \in Past /\ audit' = audit \cup {Logged(r)}
      BY <2>5 DEF Audit
    <2>6. ASSUME NEW r \in Requests,
                 \/ MissKey(r) \/ Resolve(r) \/ RefuseResolved(r) \/ MarkRead(r)
                 \/ MarkWrite(r) \/ Resume(r) \/ ResumeFails(r) \/ Update(r)
                 \/ Conflict(r) \/ KeyTaken(r) \/ Fail(r)
          PROVE  AllGood /\ audit' = audit
      BY <2>6 DEF MissKey, Resolve, RefuseResolved, MarkRead, MarkWrite, Resume,
         ResumeFails, Update, Conflict, KeyTaken, Fail
    <2>7. CASE Crash
      BY <2>7 DEF Crash
    <2>8. CASE UNCHANGED vars
      BY <2>8 DEF vars
    <2> QED
      BY <2>1, <2>2, <2>3, <2>4, <2>5, <2>6, <2>7, <2>8 DEF Next, Run
  <1>5. AnswersTrue'
    <2>1. \A a \in Good : a # None => TrueAnswer(a)'
      BY TrueStays
    <2> HIDE DEF Good
    <2> QED
      BY <1>4, <2>1 DEF AnswersTrue, TrueAnswer
  <1>6. AuditMatchesDecision'
    <2>1. \A a \in audit : /\ a.po \in POs
                           /\ Decided(a.po)
      BY <1>0 DEF TypeOK, AuditMatchesDecision, Decided
    <2>2. \A r \in Requests : pc[r] \in Past =>
              /\ call[r].po \in POs
              /\ Decided(call[r].po)
              /\ po[call[r].po].status = StatusFor(call[r])
              /\ po[call[r].po].by = r
      BY <1>0 DEF CallFitsStep, DecidedByMe, Decided, StatusFor, Calls
    <2> QED
      BY <1>0, <1>4, <2>1, <2>2 DEF Kept, AuditMatchesDecision
  <1> QED
    BY <1>5, <1>6

-----------------------------------------------------------------------------
LEMMA StepIInv == IInv /\ [Next]_vars => IInv'
  <1> SUFFICES ASSUME IInv, [Next]_vars PROVE IInv'
    OBVIOUS
  <1>1. TypeOK' /\ Kept
    BY TypeStep, KeptStep
  <1>2. HandlerInv'
    BY <1>1, HandlerStep
  <1>3. RowInv' /\ EditNeverSilent' /\ NoOrphanInterrupt'
    BY <1>1, <1>2, RowStep
  <1>4. AnswersTrue' /\ AuditMatchesDecision' /\ ReplyLast'
    BY <1>1, AnswersStep, ReplyStep
  <1> QED
    BY <1>1, <1>2, <1>3, <1>4 DEF IInv

\* The inductive invariant holds throughout.
THEOREM Invariance == Spec => []IInv
  BY InitIInv, StepIInv, PTL DEF Spec

\* Every variable keeps its type in every behaviour.
THEOREM TypeCorrect == Spec => []TypeOK
  <1>1. IInv => TypeOK
    BY DEF IInv
  <1> QED
    BY <1>1, Invariance, PTL

\* What _run_with_idempotency answers or keeps is always the decision the
\* database has, for any sharing of keys, any eviction and any restart.
THEOREM AnswersAreTrue == Spec => []AnswersTrue
  <1>1. IInv => AnswersTrue
    BY DEF IInv
  <1> QED
    BY <1>1, Invariance, PTL

\* log_audit_event never records a decision other than the one that stands.
THEOREM AuditIsTrue == Spec => []AuditMatchesDecision
  <1>1. IInv => AuditMatchesDecision
    BY DEF IInv
  <1> QED
    BY <1>1, Invariance, PTL

\* _approve_po_impl never approves a changed quantity without the edited mark.
THEOREM EditsAreMarked == Spec => []EditNeverSilent
  <1>1. IInv => EditNeverSilent
    BY DEF IInv
  <1> QED
    BY <1>1, Invariance, PTL

\* No order is decided while the graph that drafted it still waits.
THEOREM InterruptsAreOver == Spec => []NoOrphanInterrupt
  <1>1. IInv => NoOrphanInterrupt
    BY DEF IInv
  <1> QED
    BY <1>1, Invariance, PTL

-----------------------------------------------------------------------------
(* PurchaseOrders implements PODecision.                                   *)

LEMMA DecisionTyped ==
    ASSUME TypeOK, RowInv, NEW p \in POs, Decided(p)
    PROVE  DecisionOf(p) \in Decisions /\ DecisionOf(p) # None
  <1>1. /\ po[p].status \in {"approved", "rejected"}
        /\ po[p].qty \in Quantities
        /\ po[p].by \in Requests
    BY DEF TypeOK, RowInv, Row, Statuses, Decided
  <1>2. DecisionOf(p) =
            [status |-> po[p].status, qty |-> po[p].qty, by |-> po[p].by]
    BY DEF DecisionOf
  <1>3. DecisionOf(p) \in Decisions
    BY <1>1, <1>2 DEF Decisions
  <1> QED
    BY <1>3, ConstantsAssumption

LEMMA InitRefines == Init => Abstract!Init
  BY DEF Init, Abstract!Init, DecisionOf, Decided, Told

\* A step is a decision, an answer, or nothing that PODecision sees.
LEMMA StepRefines ==
    ASSUME IInv, IInv', Kept, [Next]_vars
    PROVE  [Abstract!Next]_(Abstract!vars)
  <1> USE ConstantsAssumption
  <1> DEFINE abs == [p \in POs |-> DecisionOf(p)]
  <1>0. TypeOK /\ RowInv /\ ReplyLast /\ AnswersTrue' /\ TypeOK' /\ RowInv'
    BY DEF IInv
  <1>1. UNCHANGED reply => UNCHANGED Told
    BY DEF Told
  <1>2. UNCHANGED po => UNCHANGED abs
    BY DEF DecisionOf, Decided
  <1>3. ASSUME NEW r \in Requests, MarkWrite(r) PROVE UNCHANGED <<abs, Told>>
    <2>1. \A p \in POs : /\ po'[p].status = po[p].status
                         /\ po'[p].qty = po[p].qty
                         /\ po'[p].by = po[p].by
      BY <1>0, <1>3 DEF MarkWrite, TypeOK, Row
    <2>2. UNCHANGED abs
      BY <2>1 DEF DecisionOf, Decided
    <2> QED
      BY <1>1, <1>3, <2>2 DEF MarkWrite
  <1>4. ASSUME NEW r \in Requests, Update(r) PROVE Abstract!Next
    <2>0. call[r].po \in POs
      BY <1>4 DEF IInv, HandlerInv, CallFitsStep, Update, Move, Calls
    <2>1. PICK p \in POs : p = call[r].po
      BY <2>0
    <2>a. ~Decided(p)
      BY <1>4, <2>1 DEF Update, StillPending, Decided
    <2>2. po' = [po EXCEPT ![p] = DecidedRow(r)] /\ UNCHANGED reply
      BY <1>4, <2>1 DEF Update
    <2>3. Decided(p)'
      BY <1>0, <2>1, <2>2 DEF DecidedRow, StatusFor, TypeOK, Row, Decided
    <2>4. DecisionOf(p)' \in Decisions
      BY <1>0, <2>3 DEF DecisionOf, Decisions, Decided, TypeOK, Row, Statuses, RowInv
    <2>5. abs' = [abs EXCEPT ![p] = DecisionOf(p)']
      BY <1>0, <2>2 DEF DecisionOf, Decided, TypeOK
    <2>6. abs[p] = None
      BY <2>a DEF DecisionOf
    <2> HIDE DEF abs
    <2>7. Abstract!Decide(p)
      BY <1>1, <2>2, <2>4, <2>5, <2>6 DEF Abstract!Decide, abs
    <2> QED
      BY <2>1, <2>7 DEF Abstract!Next
  <1>5. ASSUME NEW r \in Requests, NEW a \in Answers, UNCHANGED po, Answer(r, a), reply[r] = None
        PROVE  Abstract!Next
    <2>1. reply' = [reply EXCEPT ![r] = a] /\ TrueAnswer(a)'
      BY <1>0, <1>5 DEF Answer, AnswersTrue, TypeOK
    <2>2. /\ a.po \in POs
          /\ po[a.po].status = a.status
          /\ a = [po |-> a.po, status |-> a.status]
          /\ Decided(a.po)
      BY <1>5, <2>1 DEF TrueAnswer, Answers, Decided
    <2>3. Told' = Told \cup {a}
      BY <1>0, <1>5, <2>1 DEF Told, TypeOK
    <2>4. abs[a.po] # None
      BY <1>0, <2>2, DecisionTyped
    <2>5. abs[a.po].status = a.status
      BY <2>2 DEF DecisionOf
    <2>6. UNCHANGED abs
      BY <1>2, <1>5
    <2> HIDE DEF abs
    <2>7. Abstract!Tell(a.po)
      BY <2>2, <2>3, <2>4, <2>5, <2>6 DEF Abstract!Tell, abs
    <2> QED
      BY <2>2, <2>7 DEF Abstract!Next
  <1>6. ASSUME NEW r \in Requests, Arrive(r)
        PROVE  Abstract!Next \/ UNCHANGED <<abs, Told>>
    <2>1. PICK c \in CallsOf[r] :
              ReplayCached(r, c) \/ Submit(r, c) \/ RefuseExpiredLink(r, c)
      BY <1>6 DEF Arrive
    <2>2. CASE ReplayCached(r, c)
      <3>1. /\ UNCHANGED po /\ reply[r] = None
            /\ cache[c.key] \in Answers /\ Answer(r, cache[c.key])
        BY <1>0, <2>2 DEF ReplayCached, ReplyLast, Move, database, TypeOK, Calls
      <3> HIDE DEF abs
      <3> QED
        BY <3>1, <1>5
    <2> HIDE DEF abs
    <2> QED
      BY <1>1, <1>2, <2>1, <2>2 DEF Submit, RefuseExpiredLink, database
  <1>7. ASSUME NEW r \in Requests, ReplaySaved(r) \/ Reply(r) PROVE Abstract!Next
    <2>1. call[r] \in Calls /\ (pc[r] = "lookup" => call[r].key \in Keys)
      BY <1>7 DEF IInv, HandlerInv, CallFitsStep, ReplaySaved, Reply, Move, Calls
    <2>2. AnswerFor(call[r]) \in Answers
      BY <2>1 DEF AnswerFor, Answers, StatusFor, Calls
    <2>3. \E a \in Answers : UNCHANGED po /\ Answer(r, a) /\ reply[r] = None
      BY <1>0, <1>7, <2>1, <2>2 DEF ReplaySaved, Reply, ReplyLast, Move, database, TypeOK
    <2> HIDE DEF abs
    <2> QED
      BY <2>3, <1>5
  <1>8. ASSUME NEW r \in Requests,
               \/ MissKey(r) \/ Resolve(r) \/ RefuseResolved(r) \/ MarkRead(r)
               \/ Resume(r) \/ ResumeFails(r) \/ Conflict(r) \/ Audit(r)
               \/ Remember(r) \/ SaveKey(r) \/ KeyTaken(r) \/ Fail(r)
        PROVE  UNCHANGED <<po, reply>>
    BY <1>8 DEF MissKey, Resolve, RefuseResolved, MarkRead, Resume, ResumeFails,
       Conflict, Audit, Remember, SaveKey, KeyTaken, Fail, database
  <1>9. Crash \/ UNCHANGED vars => UNCHANGED <<po, reply>>
    BY DEF Crash, vars, database
  <1>10. Abstract!Next \/ UNCHANGED <<abs, Told>>
    <2> HIDE DEF abs
    <2> QED
      BY <1>1, <1>2, <1>3, <1>4, <1>6, <1>7, <1>8, <1>9 DEF Next, Run
  <1> QED
    BY <1>10 DEF Abstract!vars

\* The approval API implements PODecision: an order is decided at most once and
\* for good, and clients hear of no other decision.
THEOREM Refinement == Spec => RefinesDecision
  <1>1. IInv /\ IInv' /\ [Next]_vars => [Abstract!Next]_(Abstract!vars)
    BY KeptStep, StepRefines
  <1> QED
    BY <1>1, InitRefines, Invariance, PTL DEF Spec, RefinesDecision, Abstract!Spec
=============================================================================
