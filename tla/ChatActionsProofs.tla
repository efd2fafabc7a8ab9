-------------------------- MODULE ChatActionsProofs --------------------------
(***************************************************************************)
(* Theorems about ChatActions.tla, for any actions of a reply and any      *)
(* number of requests about them: an action that a request settled without *)
(* interference stays settled and is never ordered again.                  *)
(***************************************************************************)
EXTENDS ChatActions, TLAPS

\* No other request was at work on the message while r was.
Solo(r) == \A q \in Requests : ~Overlap(r, q)

\* What an answered request has made of its action.
Settled(r) == IF OpOf[r] = "confirm" THEN "confirmed" ELSE "cancelled"

Types ==
    /\ TypeOK
    /\ \A r \in Requests : \A q \in before[r] : pc[q] \in Ended

\* What a request has done by the time it is where it is.
OwnWork(r) ==
    /\ pc[r] \in {"idle", "insert", "persist_expired", "refused"} => ~ordered[r]
    /\ pc[r] = "insert" => OpOf[r] = "confirm"
    /\ pc[r] = "persist" => copy[r][ActionOf[r]] = Settled(r)
    /\ pc[r] \in {"persist", "audit", "answered"} => ordered[r] = (OpOf[r] = "confirm")
    /\ pc[r] = "answered" => r \in audit

\* Once r has written the list, it and the copies of all who came later agree with it,
\* and who came for the same action was refused.
Stays(r) ==
    /\ actions[ActionOf[r]] = Settled(r)
    /\ \A q \in Requests : r \in before[q] =>
          /\ ActionOf[q] = ActionOf[r] => pc[q] = "refused"
          /\ pc[q] \in Working => copy[q][ActionOf[r]] = Settled(r)

SettledStays ==
    \A r \in Requests : pc[r] \in {"audit", "answered"} /\ Solo(r) => Stays(r)

IInv == Types /\ (\A r \in Requests : OwnWork(r)) /\ SettledStays

LEMMA InitIInv == Init => IInv
BY ChatAssumption
   DEF Init, IInv, Types, TypeOK, OwnWork, SettledStays, Stays, Statuses, Working, Ended

-----------------------------------------------------------------------------
(* Every step of a request either begins it or moves it on.                *)

Begins(r) ==
    /\ pc[r] = "idle"
    /\ \E to \in {"insert", "persist", "persist_expired", "refused"} :
          pc' = [pc EXCEPT ![r] = to]
    /\ Read(r)
    /\ UNCHANGED <<actions, overdue, ordered, audit>>

Proceeds(r) ==
    /\ pc[r] \in Working
    /\ \E to \in {"persist", "audit"} \cup Ended : pc' = [pc EXCEPT ![r] = to]
    /\ UNCHANGED <<overdue, before>>

LEMMA BeginsIsAStep ==
    ASSUME NEW r \in Requests, Find(r) \/ RefuseResolved(r) \/ FindOverdue(r)
    PROVE  Begins(r)
BY DEF Begins, Find, RefuseResolved, FindOverdue, Move

LEMMA ProceedsIsAStep ==
    ASSUME NEW r \in Requests, InsertOrder(r) \/ Persist(r) \/ Audit(r) \/ Fail(r)
    PROVE  Proceeds(r)
BY DEF Proceeds, InsertOrder, Persist, Audit, Fail, Move, Working, Ended

\* Who is alone after such a step was alone before it; and while a request that is
\* alone works, everyone else is over or has not begun.
LEMMA SoloBefore ==
    ASSUME Types, NEW p \in Requests, Begins(p) \/ Proceeds(p),
           NEW r \in Requests, pc[r] # "idle", Solo(r)'
    PROVE  Solo(r)
<1> SUFFICES ASSUME NEW q \in Requests, Overlap(r, q) PROVE FALSE
  BY DEF Solo
<1>1. CASE Begins(p)
  <2>1. r # p /\ q # p
    BY <1>1 DEF Begins, Overlap
  <2>2. before'[r] = before[r] /\ before'[q] = before[q] /\ pc'[r] = pc[r] /\ pc'[q] = pc[q]
    BY <1>1, <2>1 DEF Begins, Read, Types, TypeOK
  <2>3. QED
    BY <2>2 DEF Overlap, Solo
<1>2. CASE Proceeds(p)
  <2>1. before' = before /\ pc'[r] # "idle" /\ pc'[q] # "idle"
    BY <1>2 DEF Proceeds, Overlap, Types, TypeOK, Ended
  <2>2. QED
    BY <2>1 DEF Overlap, Solo
<1>3. QED
  BY <1>1, <1>2

LEMMA WorkersCameLater ==
    ASSUME Types, NEW r \in Requests, NEW q \in Requests, q # r,
           Solo(r), pc[r] # "idle", pc[q] \in Working
    PROVE  r \in before[q]
BY DEF Solo, Overlap, Types, Working, Ended

LEMMA AloneWhileWorking ==
    ASSUME Types, NEW r \in Requests, pc[r] \in Working, NEW q \in Requests, r \in before[q]
    PROVE  FALSE
BY DEF Types, Working, Ended

-----------------------------------------------------------------------------
(* Each step keeps the invariant.                                          *)

LEMMA BeginKeepsOwnWork ==
    ASSUME IInv, NEW p \in Requests, Find(p) \/ RefuseResolved(p) \/ FindOverdue(p)
    PROVE  Types' /\ \A r \in Requests : OwnWork(r)'
<1> USE ChatAssumption
<1>1. Types /\ TypeOK /\ Begins(p)
  BY BeginsIsAStep DEF IInv, Types
<1>2. TypeOK'
  <2>1. pc' \in [Requests -> {"idle"} \cup Working \cup Ended]
    BY <1>1 DEF Begins, TypeOK, Working, Ended
  <2>2. before' \in [Requests -> SUBSET Requests]
    BY <1>1 DEF Begins, Read, TypeOK
  <2>3. copy' \in [Requests -> [Actions -> Statuses]]
    <3>1. \A status \in Statuses :
             [actions EXCEPT ![ActionOf[p]] = status] \in [Actions -> Statuses]
      BY <1>1 DEF TypeOK
    <3>2. PICK l \in [Actions -> Statuses] : copy' = [copy EXCEPT ![p] = l] \/ copy' = copy
      BY <1>1, <3>1 DEF Find, RefuseResolved, FindOverdue, Set, TypeOK, Statuses
    <3>3. QED
      BY <1>1, <3>2 DEF TypeOK
  <2>4. QED
    BY <1>1, <2>1, <2>2, <2>3 DEF Begins, TypeOK
<1>3. \A r \in Requests : \A q \in before'[r] : q \in Requests /\ pc[q] \in Ended
  BY <1>1 DEF Begins, Read, Types, TypeOK
<1>4. \A q \in Requests : pc[q] \in Ended => pc'[q] = pc[q]
  BY <1>1 DEF Begins, TypeOK, Ended
<1>5. ASSUME NEW r \in Requests PROVE OwnWork(r)'
  <2>1. OwnWork(r)
    BY DEF IInv
  <2>2. CASE r # p
    <3>1. pc'[r] = pc[r] /\ copy'[r] = copy[r] /\ UNCHANGED <<ordered, audit>>
      BY <1>1, <2>2 DEF Find, RefuseResolved, FindOverdue, Move, Set, TypeOK
    <3>2. QED
      BY <2>1, <3>1 DEF OwnWork, Settled
  <2>3. CASE r = p
    <3>1. pc[p] = "idle" /\ ordered'[p] = FALSE
      BY <1>1, <2>1, <2>3 DEF Begins, OwnWork, TypeOK
    <3>2. CASE Find(p) /\ OpOf[p] = "confirm"
      BY <1>1, <2>3, <3>1, <3>2 DEF Find, Move, TypeOK, OwnWork, Settled
    <3>3. CASE Find(p) /\ OpOf[p] = "cancel"
      <4>1. pc'[p] = "persist" /\ copy'[p][ActionOf[p]] = "cancelled"
        BY <1>1, <3>3 DEF Find, Move, Set, TypeOK
      <4>2. QED
        BY <2>3, <3>1, <3>3, <4>1 DEF OwnWork, Settled
    <3>4. CASE RefuseResolved(p) \/ FindOverdue(p)
      <4>1. pc'[p] \in {"refused", "persist_expired"}
        BY <1>1, <3>4 DEF RefuseResolved, FindOverdue, Move, TypeOK
      <4>2. QED
        BY <2>3, <3>1, <4>1 DEF OwnWork
    <3>5. QED
      BY <3>2, <3>3, <3>4
  <2>4. QED
    BY <2>2, <2>3
<1>6. QED
  BY <1>2, <1>3, <1>4, <1>5 DEF Types

\* Whoever comes to a settled action is refused; whoever comes to another action of
\* the list takes the settled one along in its copy.
LEMMA BeginKeepsSettled ==
    ASSUME IInv, NEW p \in Requests, Find(p) \/ RefuseResolved(p) \/ FindOverdue(p)
    PROVE  SettledStays'
<1> USE ChatAssumption
<1>1. Types /\ TypeOK /\ Begins(p)
  BY BeginsIsAStep DEF IInv, Types
<1> SUFFICES ASSUME NEW r \in Requests, pc'[r] \in {"audit", "answered"}, Solo(r)'
             PROVE  Stays(r)'
  BY DEF SettledStays
<1>2. r # p /\ pc[r] = pc'[r]
  BY <1>1 DEF Begins, TypeOK
<1>3. Solo(r)
  BY <1>1, <1>2, SoloBefore
<1>4. Stays(r) /\ actions' = actions
  BY <1>1, <1>2, <1>3 DEF IInv, SettledStays, Begins
<1>5. ASSUME NEW q \in Requests, r \in before'[q]
      PROVE  /\ ActionOf[q] = ActionOf[r] => pc'[q] = "refused"
             /\ pc'[q] \in Working => copy'[q][ActionOf[r]] = Settled(r)
  <2>1. CASE q # p
    <3>1. r \in before[q] /\ pc'[q] = pc[q] /\ copy'[q] = copy[q]
      BY <1>1, <1>5, <2>1 DEF Begins, Find, RefuseResolved, FindOverdue, Move, Set, Read, TypeOK
    <3>2. QED
      BY <1>4, <3>1 DEF Stays
  <2>2. CASE q = p /\ ActionOf[p] = ActionOf[r]
    <3>1. actions[ActionOf[p]] # "pending"
      BY <1>4, <2>2 DEF Stays, Settled
    <3>2. RefuseResolved(p)
      BY <3>1 DEF Find, FindOverdue
    <3>3. pc'[p] = "refused"
      BY <1>1, <3>2 DEF RefuseResolved, Move, TypeOK
    <3>4. QED
      BY <2>2, <3>3 DEF Working
  <2>3. CASE q = p /\ ActionOf[p] # ActionOf[r]
    <3>1. CASE RefuseResolved(p)
      <4>1. pc'[p] = "refused"
        BY <1>1, <3>1 DEF RefuseResolved, Move, TypeOK
      <4>2. QED
        BY <2>3, <4>1 DEF Working
    <3>2. CASE Find(p) \/ FindOverdue(p)
      <4>1. copy'[p][ActionOf[r]] = actions[ActionOf[r]]
        BY <1>1, <2>3, <3>2 DEF Find, FindOverdue, Set, TypeOK
      <4>2. QED
        BY <1>4, <2>3, <4>1 DEF Stays
    <3>3. QED
      BY <3>1, <3>2
  <2>4. QED
    BY <2>1, <2>2, <2>3
<1>6. QED
  BY <1>4, <1>5 DEF Stays, Settled

LEMMA ProceedKeepsOwnWork ==
    ASSUME IInv, NEW p \in Requests, InsertOrder(p) \/ Persist(p) \/ Audit(p) \/ Fail(p)
    PROVE  Types' /\ \A r \in Requests : OwnWork(r)'
<1> USE ChatAssumption
<1>1. Types /\ TypeOK /\ Proceeds(p)
  BY ProceedsIsAStep DEF IInv, Types
<1>2. TypeOK'
  <2>1. CASE InsertOrder(p)
    BY <1>1, <2>1 DEF TypeOK, InsertOrder, Move, Statuses, Working, Ended
  <2>2. CASE Persist(p) \/ Audit(p) \/ Fail(p)
    BY <1>1, <2>2 DEF TypeOK, Persist, Audit, Fail, Move, Statuses, Working, Ended
  <2>3. QED
    BY <2>1, <2>2
<1>3. Types'
  BY <1>1, <1>2 DEF Proceeds, Types, TypeOK, Working, Ended
<1>4. ASSUME NEW r \in Requests PROVE OwnWork(r)'
  <2>1. OwnWork(r)
    BY DEF IInv
  <2>2. CASE r # p
    <3>1. /\ pc'[r] = pc[r] /\ copy'[r] = copy[r] /\ ordered'[r] = ordered[r]
          /\ audit \subseteq audit'
      BY <1>1, <2>2 DEF InsertOrder, Persist, Audit, Fail, Move, TypeOK
    <3>2. QED
      BY <2>1, <3>1 DEF OwnWork, Settled
  <2>3. CASE r = p /\ InsertOrder(p)
    <3>1. pc[p] = "insert" /\ pc'[p] = "persist" /\ ordered'[p] = TRUE
      BY <1>1, <2>3 DEF InsertOrder, Move, TypeOK
    <3>2. copy'[p][ActionOf[p]] = "confirmed"
      BY <1>1, <2>3 DEF InsertOrder, TypeOK
    <3>3. QED
      BY <2>1, <2>3, <3>1, <3>2 DEF OwnWork, Settled
  <2>4. CASE r = p /\ Persist(p)
    BY <1>1, <2>1, <2>4 DEF Persist, Move, TypeOK, OwnWork, Settled
  <2>5. CASE r = p /\ Audit(p)
    BY <1>1, <2>1, <2>5 DEF Audit, Move, TypeOK, OwnWork, Settled
  <2>6. CASE r = p /\ Fail(p)
    <3>1. pc'[p] \in {"torn", "failed"}
      BY <1>1, <2>6 DEF Fail, Move, TypeOK
    <3>2. QED
      BY <2>6, <3>1 DEF OwnWork
  <2>7. QED
    BY <2>2, <2>3, <2>4, <2>5, <2>6
<1>5. QED
  BY <1>3, <1>4

\* The list is written by the request itself, or by one that came later and whose
\* copy agrees.
LEMMA ProceedKeepsSettled ==
    ASSUME IInv, NEW p \in Requests, InsertOrder(p) \/ Persist(p) \/ Audit(p) \/ Fail(p)
    PROVE  SettledStays'
<1> USE ChatAssumption
<1>1. Types /\ TypeOK /\ Proceeds(p)
  BY ProceedsIsAStep DEF IInv, Types
<1> SUFFICES ASSUME NEW r \in Requests, pc'[r] \in {"audit", "answered"}, Solo(r)'
             PROVE  Stays(r)'
  BY DEF SettledStays
<1>2. before' = before /\ pc[p] \in Working
  BY <1>1 DEF Proceeds
<1>3. pc[r] # "idle"
  BY <1>1 DEF Proceeds, TypeOK, Working
<1>4. Solo(r)
  BY <1>1, <1>3, SoloBefore
<1>5. CASE r = p
  <2>1. \A q \in Requests : r \notin before[q]
    BY <1>1, <1>2, <1>5, AloneWhileWorking
  <2>2. actions'[ActionOf[r]] = Settled(r)
    <3>1. CASE Persist(p)
      <4>1. pc[p] = "persist" /\ actions' = copy[p]
        BY <1>1, <1>5, <3>1 DEF Persist, Move, TypeOK
      <4>2. QED
        BY <1>5, <4>1 DEF IInv, OwnWork
    <3>2. CASE Audit(p)
      BY <1>4, <1>5, <3>2 DEF Audit, Move, IInv, SettledStays, Stays
    <3>3. CASE InsertOrder(p) \/ Fail(p)
      BY <1>1, <1>5, <3>3 DEF InsertOrder, Fail, Move, TypeOK
    <3>4. QED
      BY <3>1, <3>2, <3>3
  <2>3. QED
    BY <1>2, <2>1, <2>2 DEF Stays, Settled
<1>6. CASE r # p
  <2>1. pc[r] = pc'[r]
    BY <1>1, <1>6 DEF Proceeds, TypeOK
  <2>2. Stays(r)
    BY <1>4, <2>1 DEF IInv, SettledStays
  <2>3. r \in before[p]
    BY <1>1, <1>2, <1>3, <1>4, <1>6, WorkersCameLater
  <2>4. ActionOf[p] # ActionOf[r] /\ copy[p][ActionOf[r]] = Settled(r)
    BY <1>2, <2>2, <2>3 DEF Stays, Working
  <2>5. copy'[p][ActionOf[r]] = Settled(r)
    <3>1. CASE InsertOrder(p)
      BY <1>1, <2>4, <3>1 DEF InsertOrder, TypeOK
    <3>2. CASE Persist(p) \/ Audit(p) \/ Fail(p)
      BY <2>4, <3>2 DEF Persist, Audit, Fail
    <3>3. QED
      BY <3>1, <3>2
  <2>6. actions'[ActionOf[r]] = Settled(r)
    BY <2>2, <2>4 DEF Stays, InsertOrder, Persist, Audit, Fail
  <2>7. \A q \in Requests \ {p} : pc'[q] = pc[q] /\ copy'[q] = copy[q]
    BY <1>1 DEF InsertOrder, Persist, Audit, Fail, Move, TypeOK
  <2>8. QED
    BY <1>2, <2>2, <2>4, <2>5, <2>6, <2>7 DEF Stays, Settled
<1>7. QED
  BY <1>5, <1>6

LEMMA OthersKeepIInv ==
    ASSUME IInv, (\E a \in Actions : Expire(a)) \/ UNCHANGED vars
    PROVE  IInv'
<1>1. UNCHANGED <<actions, pc, copy, ordered, audit, before>> /\ overdue' \subseteq Actions
  BY DEF Expire, vars, IInv, Types, TypeOK
<1>2. QED
  BY <1>1 DEF IInv, Types, TypeOK, OwnWork, SettledStays, Stays, Settled, Solo, Overlap

LEMMA NextKeepsIInv ==
    ASSUME IInv, [Next]_vars
    PROVE  IInv'
<1>1. CASE \E r \in Requests : Find(r) \/ RefuseResolved(r) \/ FindOverdue(r)
  BY <1>1, BeginKeepsOwnWork, BeginKeepsSettled DEF IInv
<1>2. CASE \E r \in Requests : InsertOrder(r) \/ Persist(r) \/ Audit(r) \/ Fail(r)
  BY <1>2, ProceedKeepsOwnWork, ProceedKeepsSettled DEF IInv
<1>3. CASE (\E a \in Actions : Expire(a)) \/ UNCHANGED vars
  BY <1>3, OthersKeepIInv
<1>4. QED
  BY <1>1, <1>2, <1>3 DEF Next

-----------------------------------------------------------------------------
(* The theorems.                                                           *)

THEOREM Invariance == Spec => []IInv
<1>1. Init => IInv
  BY InitIInv
<1>2. IInv /\ [Next]_vars => IInv'
  BY NextKeepsIInv
<1>3. QED
  BY <1>1, <1>2, PTL DEF Spec

\* The state is of its type: no list holds a status that _require_pending does not know.
THEOREM TypesHold == Spec => []TypeOK
<1>1. IInv => TypeOK
  BY DEF IInv, Types
<1>2. QED
  BY <1>1, Invariance, PTL

\* No request orders an action again that another one settled without interference.
THEOREM SettledIsFinal == Spec => []SettledIsNotOrdered
<1>1. IInv => SettledIsNotOrdered
  <2> SUFFICES ASSUME IInv, NEW r \in Requests, NEW q \in Requests,
                      Undisturbed(r), Follows(q, r)
               PROVE  ~ordered[q]
    BY DEF SettledIsNotOrdered
  <2>1. pc[q] = "refused"
    BY DEF IInv, SettledStays, Stays, Undisturbed, Follows, Solo
  <2>2. QED
    BY <2>1 DEF IInv, OwnWork
<1>2. QED
  BY <1>1, Invariance, PTL

\* The list keeps what a request that met no other was told, and so does the audit log.
THEOREM ListStaysTrue == Spec => []ListIsTrue
<1>1. IInv => ListIsTrue
  <2> SUFFICES ASSUME IInv, NEW r \in Requests, Undisturbed(r)
               PROVE  /\ actions[ActionOf[r]] = IF ordered[r] THEN "confirmed" ELSE "cancelled"
                      /\ r \in audit
    BY DEF ListIsTrue
  <2>1. pc[r] = "answered" /\ Solo(r) /\ OwnWork(r)
    BY DEF IInv, Undisturbed, Solo
  <2>2. actions[ActionOf[r]] = Settled(r) /\ ordered[r] = (OpOf[r] = "confirm")
    BY <2>1 DEF IInv, SettledStays, Stays, OwnWork
  <2>3. QED
    BY <2>1, <2>2 DEF OwnWork, Settled
<1>2. QED
  BY <1>1, Invariance, PTL
=============================================================================
