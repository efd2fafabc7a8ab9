--------------------------- MODULE OutcomesProofs ---------------------------
(***************************************************************************)
(* Theorems about Outcomes.tla, for any number of orders, days and         *)
(* aborted evaluations: the types, and how often the units of an order     *)
(* count, whichever way the evaluations interleave.                        *)
(***************************************************************************)
EXTENDS Outcomes, FiniteSetTheorems, SequenceTheorems, TLAPS

\* The evaluation is about to store an outcome of the order.
Holds(e, o) == held[e] # None /\ held[e].order = o

\* Evaluations only ever look at approved orders.
ApprovedOnly ==
    /\ \A e \in Evaluations : left[e] # None =>
          \A o \in left[e] : order[o].status = "approved"
    /\ \A e \in Evaluations : held[e] # None => order[held[e].order].status = "approved"

\* An outcome that is about to be stored is the only one, unless the other evaluation
\* has stored the other; then the two have raced.
HeldFits ==
    \A o \in Orders :
        /\ \A e \in Evaluations : Holds(e, o) => Len(outcomes[o]) <= 1
        /\ Holds(Job, o) /\ Holds(Request, o) => outcomes[o] = << >>
        /\ o \notin raced =>
              /\ Len(outcomes[o]) <= 1
              /\ \A e \in Evaluations : Holds(e, o) => outcomes[o] = << >>

IInv == TypeOK /\ ApprovedOnly /\ HeldFits

-----------------------------------------------------------------------------
LEMMA TwoEvaluations == Cardinality(Evaluations) = 2
<1>1. IsFiniteSet({Job}) /\ Cardinality({Job}) = 1
  BY FS_Singleton
<1>2. Evaluations = {Job} \cup {Request} /\ Request \notin {Job}
  BY OutcomesAssumption DEF Evaluations
<1>. QED
  BY <1>1, <1>2, FS_AddElement

LEMMA MaxOfTwo ==
    ASSUME NEW a \in Int, NEW b \in Int
    PROVE  Max({a, b}) = IF a >= b THEN a ELSE b
BY DEF Max

LEMMA InitIInv == Init => IInv
<1>. SUFFICES ASSUME Init PROVE IInv
  OBVIOUS
<1>1. TypeOK
  BY OutcomesAssumption, TwoEvaluations DEF Init, TypeOK
<1>2. ApprovedOnly /\ HeldFits
  BY DEF Init, ApprovedOnly, HeldFits, Holds, Evaluations
<1>. QED
  BY <1>1, <1>2 DEF IInv

-----------------------------------------------------------------------------
(* Every step keeps the invariant.                                         *)

LEMMA ShopKeeps ==
    ASSUME IInv, NextDay \/ \E s \in Skus : Sell(s)
    PROVE  IInv'
<1>1. UNCHANGED <<order, outcomes, left, held, aborts, raced>>
  BY DEF NextDay, Sell, evaluation
<1>2. today' \in 0..MaxDay /\ sold' \subseteq Skus \X (0..today') /\ today <= today'
  <2>1. CASE NextDay
    BY <2>1, OutcomesAssumption DEF IInv, TypeOK, NextDay
  <2>2. ASSUME NEW s \in Skus, Sell(s) PROVE UNCHANGED today /\ sold' = sold \cup {<<s, today>>}
    BY <2>2 DEF Sell
  <2>3. ASSUME NEW s \in Skus, Sell(s)
        PROVE  today' \in 0..MaxDay /\ sold' \subseteq Skus \X (0..today') /\ today <= today'
    BY <2>2, <2>3, OutcomesAssumption DEF IInv, TypeOK
  <2>. QED
    BY <2>1, <2>3
<1>3. \A o \in Orders : order[o] \in [status: {"pending", "approved", "rejected"},
                                      quantity: Approvable, approved: 0..today']
  BY <1>2, OutcomesAssumption DEF IInv, TypeOK
<1>4. TypeOK'
  BY <1>1, <1>2, <1>3 DEF IInv, TypeOK, Evaluations
<1>5. ApprovedOnly' /\ HeldFits'
  BY <1>1 DEF IInv, ApprovedOnly, HeldFits, Holds, Evaluations
<1>. QED
  BY <1>4, <1>5 DEF IInv

LEMMA DecisionKeeps ==
    ASSUME IInv, NEW o \in Orders, NEW q \in Approvable, Approve(o, q) \/ Reject(o)
    PROVE  IInv'
<1>1. UNCHANGED <<today, sold, outcomes, left, held, aborts, raced>>
  BY DEF Approve, Reject, shop, evaluation
<1>2. /\ order[o].status = "pending"
      /\ \A p \in Orders \ {o} : order'[p] = order[p]
      /\ order' \in [Orders -> [status: {"pending", "approved", "rejected"},
                                quantity: Approvable, approved: 0..today]]
  <2>1. CASE Approve(o, q)
    BY <2>1, OutcomesAssumption DEF IInv, TypeOK, Approve, Pending
  <2>2. CASE Reject(o)
    BY <2>2 DEF IInv, TypeOK, Reject, Pending
  <2>. QED
    BY <2>1, <2>2
<1>3. outcomes[o] = << >>
  BY <1>2 DEF IInv, TypeOK
<1>4. TypeOK'
  BY <1>1, <1>2, <1>3 DEF IInv, TypeOK, Evaluations
<1>5. \A p \in Orders : order[p].status = "approved" => order'[p].status = "approved"
  BY <1>2
<1>6. \A e \in Evaluations :
         /\ left[e] # None => left[e] \subseteq Orders
         /\ held[e] # None => held[e].order \in Orders
  BY DEF IInv, TypeOK
<1>7. ApprovedOnly'
  BY <1>1, <1>5, <1>6 DEF IInv, ApprovedOnly, Evaluations
<1>8. HeldFits'
  BY <1>1 DEF IInv, HeldFits, Holds, Evaluations
<1>. QED
  BY <1>4, <1>7, <1>8 DEF IInv

\* A step that stores nothing, and after which the evaluation either has no outcome in
\* hand or has that of an order without one.
LEMMA LookKeeps ==
    ASSUME IInv, NEW e \in Evaluations,
           UNCHANGED <<shop, order, outcomes, raced>>,
           aborts' \in 0..MaxAborts,
           NEW some \in SUBSET Orders,
           \A o \in some : order[o].status = "approved",
           left' = [left EXCEPT ![e] = some] \/ left' = [left EXCEPT ![e] = None],
           NEW one \in [order: Orders, avoided: BOOLEAN] \cup {None},
           held' = [held EXCEPT ![e] = one],
           one # None =>
              /\ left' = [left EXCEPT ![e] = some]
              /\ order[one.order].status = "approved"
              /\ outcomes[one.order] = << >>
    PROVE  IInv'
<1>1. UNCHANGED <<today, sold>>
  BY DEF shop
<1>2. /\ left' \in [Evaluations -> (SUBSET Orders) \cup {None}]
      /\ held' \in [Evaluations -> [order: Orders, avoided: BOOLEAN] \cup {None}]
      /\ held'[e] = one
      /\ left'[e] = some \/ left'[e] = None
      /\ \A f \in Evaluations \ {e} : held'[f] = held[f] /\ left'[f] = left[f]
  BY DEF IInv, TypeOK
<1>3. \A f \in Evaluations : left'[f] = None => held'[f] = None
  <2>. SUFFICES ASSUME NEW f \in Evaluations, left'[f] = None PROVE held'[f] = None
    OBVIOUS
  <2>1. CASE f = e
    <3>1. left' # [left EXCEPT ![e] = some]
      BY <2>1, OutcomesAssumption DEF IInv, TypeOK
    <3>. QED
      BY <2>1, <3>1, <1>2
  <2>2. CASE f # e
    BY <2>2, <1>2 DEF IInv, TypeOK
  <2>. QED
    BY <2>1, <2>2
<1>4. TypeOK'
  BY <1>1, <1>2, <1>3 DEF IInv, TypeOK, Evaluations
<1>5. ApprovedOnly'
  BY <1>2 DEF IInv, ApprovedOnly, Evaluations
<1>6. HeldFits'
  <2>. SUFFICES ASSUME NEW o \in Orders
                PROVE  /\ \A f \in Evaluations : Holds(f, o)' => Len(outcomes[o]) <= 1
                       /\ Holds(Job, o)' /\ Holds(Request, o)' => outcomes[o] = << >>
                       /\ o \notin raced =>
                             /\ Len(outcomes[o]) <= 1
                             /\ \A f \in Evaluations : Holds(f, o)' => outcomes[o] = << >>
    BY DEF HeldFits, Evaluations
  <2>1. \A f \in Evaluations \ {e} : Holds(f, o)' => Holds(f, o)
    BY <1>2 DEF Holds
  <2>2. Holds(e, o)' => outcomes[o] = << >>
    BY <1>2 DEF Holds
  <2>3. Job \in Evaluations /\ Request \in Evaluations /\ e \in {Job, Request}
    BY DEF Evaluations
  <2>. QED
    BY <2>1, <2>2, <2>3 DEF IInv, HeldFits
<1>. QED
  BY <1>4, <1>5, <1>6 DEF IInv

LEMMA BeginKeeps ==
    ASSUME IInv, NEW e \in Evaluations, Begin(e)
    PROVE  IInv'
<1>. DEFINE some == {o \in Orders : order[o].status = "approved" /\ order[o].approved < today}
<1>1. left' = [left EXCEPT ![e] = some] /\ held[e] = None /\ held' = held
  BY DEF Begin, IInv, TypeOK
<1>2. held' = [held EXCEPT ![e] = None]
  BY <1>1 DEF IInv, TypeOK
<1>3. UNCHANGED <<shop, order, outcomes, raced>> /\ aborts' \in 0..MaxAborts
  BY DEF Begin, IInv, TypeOK
<1>4. some \in SUBSET Orders /\ \A o \in some : order[o].status = "approved"
  OBVIOUS
<1>. HIDE DEF some
<1>. QED
  BY <1>1, <1>2, <1>3, <1>4, LookKeeps

\* The evaluation ends, in whatever way.
LEMMA OverKeeps ==
    ASSUME IInv, NEW e \in Evaluations,
           End(e) \/ Abort(e) \/ \E o \in Orders : Raise(e, o)
    PROVE  IInv'
<1>1. Over(e) /\ UNCHANGED <<shop, order, outcomes, raced>>
  BY DEF End, Abort, Raise
<1>2. aborts' \in 0..MaxAborts
  BY OutcomesAssumption DEF End, Abort, Raise, IInv, TypeOK
<1>3. left' = [left EXCEPT ![e] = None] /\ held' = [held EXCEPT ![e] = None]
  BY <1>1 DEF Over
<1>. DEFINE some == {}
<1>4. some \in SUBSET Orders /\ \A o \in some : order[o].status = "approved"
  OBVIOUS
<1>. HIDE DEF some
<1>. QED
  BY <1>1, <1>2, <1>3, <1>4, LookKeeps

LEMMA PassKeeps ==
    ASSUME IInv, NEW e \in Evaluations, NEW o \in Orders, Pass(e, o)
    PROVE  IInv'
<1>1. left' = [left EXCEPT ![e] = left[e] \ {o}] /\ held' = [held EXCEPT ![e] = None]
  BY DEF Pass, Take, IInv, TypeOK
<1>2. UNCHANGED <<shop, order, outcomes, raced>> /\ aborts' \in 0..MaxAborts
  BY DEF Pass, Take, IInv, TypeOK
<1>3. /\ left[e] \ {o} \in SUBSET Orders
      /\ \A p \in left[e] \ {o} : order[p].status = "approved"
  BY DEF Pass, Take, IInv, TypeOK, ApprovedOnly
<1>. QED
  BY <1>1, <1>2, <1>3, LookKeeps

LEMMA EvaluateKeeps ==
    ASSUME IInv, NEW e \in Evaluations, NEW o \in Orders, Evaluate(e, o)
    PROVE  IInv'
<1>1. PICK b \in Avoided(o) : held' = [held EXCEPT ![e] = [order |-> o, avoided |-> b]]
  BY DEF Evaluate
<1>2. b \in BOOLEAN
  BY DEF Avoided
<1>3. left' = [left EXCEPT ![e] = left[e] \ {o}] /\ o \in left[e] /\ left[e] # None
  BY DEF Evaluate, Take
<1>4. UNCHANGED <<shop, order, outcomes, raced>> /\ aborts' \in 0..MaxAborts
  BY DEF Evaluate, Take, IInv, TypeOK
<1>5. /\ left[e] \ {o} \in SUBSET Orders
      /\ \A p \in left[e] : order[p].status = "approved"
  BY <1>3 DEF IInv, TypeOK, ApprovedOnly
<1>6. outcomes[o] = << >>
  BY DEF Evaluate
<1>. DEFINE one == [order |-> o, avoided |-> b]
<1>7. one \in [order: Orders, avoided: BOOLEAN] \cup {None} /\ one.order = o
  BY <1>2
<1>. QED
  BY <1>1, <1>3, <1>4, <1>5, <1>6, <1>7, LookKeeps

LEMMA RecordKeeps ==
    ASSUME IInv, NEW e \in Evaluations, Record(e)
    PROVE  IInv'
<1>. DEFINE o == held[e].order
            raceNow == \E f \in Evaluations \ {e} : Holds(f, o)
<1>1. /\ held[e] \in [order: Orders, avoided: BOOLEAN] /\ o \in Orders
      /\ left[e] # None
  BY DEF Record, IInv, TypeOK
<1>2. /\ UNCHANGED <<today, sold, order, left, aborts>>
      /\ outcomes' = [outcomes EXCEPT ![o] = Append(outcomes[o], held[e].avoided)]
      /\ held' = [held EXCEPT ![e] = None]
      /\ raced \subseteq raced' /\ raced' \subseteq raced \cup {o}
      /\ raceNow => o \in raced'
  BY DEF Record, shop, Holds
<1>3. outcomes[o] \in Seq(BOOLEAN) /\ Len(outcomes[o]) <= 1 /\ Len(outcomes[o]) \in Nat
  BY <1>1 DEF IInv, TypeOK, HeldFits, Holds, Record
<1>4. /\ outcomes' \in [Orders -> Seq(BOOLEAN)]
      /\ Len(outcomes'[o]) = Len(outcomes[o]) + 1
      /\ outcomes'[o] # << >>
      /\ \A p \in Orders \ {o} : outcomes'[p] = outcomes[p]
  <2>1. outcomes \in [Orders -> Seq(BOOLEAN)] /\ held[e].avoided \in BOOLEAN
    BY <1>1 DEF IInv, TypeOK
  <2>2. /\ Append(outcomes[o], held[e].avoided) \in Seq(BOOLEAN)
        /\ Len(Append(outcomes[o], held[e].avoided)) = Len(outcomes[o]) + 1
    BY <2>1, <1>3
  <2>. QED
    BY <2>1, <2>2, <1>1, <1>2, <1>3
<1>5. order[o].status = "approved"
  BY <1>1 DEF IInv, ApprovedOnly, Record
<1>6. /\ held'[e] = None
      /\ \A f \in Evaluations \ {e} : held'[f] = held[f]
      /\ held' \in [Evaluations -> [order: Orders, avoided: BOOLEAN] \cup {None}]
  BY <1>2 DEF IInv, TypeOK
<1>7. TypeOK'
  <2>1. \A f \in Evaluations : left'[f] = None => held'[f] = None
    BY <1>2, <1>6 DEF IInv, TypeOK
  <2>2. \A p \in Orders :
           /\ Len(outcomes'[p]) <= 2
           /\ outcomes'[p] # << >> => order[p].status = "approved"
    BY <1>3, <1>4, <1>5, TwoEvaluations DEF IInv, TypeOK
  <2>3. raced' \subseteq Orders
    BY <1>1, <1>2 DEF IInv, TypeOK
  <2>4. Cardinality(Evaluations)' = 2
    BY TwoEvaluations DEF Evaluations
  <2>. QED
    BY <1>2, <1>4, <1>6, <2>1, <2>2, <2>3, <2>4 DEF IInv, TypeOK, Evaluations
<1>8. ApprovedOnly'
  BY <1>2, <1>6 DEF IInv, ApprovedOnly, Evaluations
<1>9. HeldFits'
  <2>. SUFFICES ASSUME NEW p \in Orders
                PROVE  /\ \A f \in Evaluations : Holds(f, p)' => Len(outcomes'[p]) <= 1
                       /\ ~ (Holds(Job, p)' /\ Holds(Request, p)')
                       /\ p \notin raced' =>
                             /\ Len(outcomes'[p]) <= 1
                             /\ \A f \in Evaluations : Holds(f, p)' => outcomes'[p] = << >>
    BY DEF HeldFits, Evaluations
  <2>1. ~ Holds(e, p)' /\ \A f \in Evaluations \ {e} : Holds(f, p)' = Holds(f, p)
    BY <1>6 DEF Holds
  <2>2. ~ (Holds(Job, p)' /\ Holds(Request, p)')
    BY <2>1 DEF Evaluations
  <2>3. CASE p # o
    BY <2>1, <2>2, <2>3, <1>2, <1>4 DEF IInv, HeldFits
  <2>4. CASE p = o
    <3>1. Holds(e, o)
      BY DEF Holds, Record
    <3>2. \A f \in Evaluations \ {e} : Holds(f, o) => outcomes[o] = << >>
      BY <3>1, <1>1 DEF IInv, HeldFits, Evaluations
    <3>3. \A f \in Evaluations : Holds(f, p)' => Len(outcomes'[p]) <= 1
      BY <3>2, <2>1, <2>4, <1>4
    <3>4. p \notin raced' => outcomes[o] = << >> /\ ~ raceNow
      BY <3>1, <2>4, <1>1, <1>2 DEF IInv, HeldFits
    <3>5. p \notin raced' => \A f \in Evaluations : ~ Holds(f, p)'
      BY <3>4, <2>1, <2>4
    <3>. QED
      BY <2>2, <2>4, <3>3, <3>4, <3>5, <1>4
  <2>. QED
    BY <2>3, <2>4
<1>. QED
  BY <1>7, <1>8, <1>9 DEF IInv

-----------------------------------------------------------------------------
\* The inductive invariant: what an evaluation has in hand, and what is stored, by
\* whether two evaluations have met at the order (evaluate_pending_outcomes).
THEOREM Invariance == Spec => []IInv
<1>1. ASSUME IInv, [Next]_vars PROVE IInv'
  <2>1. CASE NextDay \/ \E s \in Skus : Sell(s)
    BY <2>1, <1>1, ShopKeeps
  <2>2. ASSUME NEW o \in Orders, Reject(o) PROVE IInv'
    <3>1. Drafted \in Approvable
      BY OutcomesAssumption
    <3>. QED
      BY <2>2, <3>1, <1>1, DecisionKeeps
  <2>3. ASSUME NEW o \in Orders, NEW q \in Approvable, Approve(o, q) PROVE IInv'
    BY <2>3, <1>1, DecisionKeeps
  <2>4. ASSUME NEW e \in Evaluations, Work(e) \/ Abort(e) PROVE IInv'
    BY <2>4, <1>1, BeginKeeps, RecordKeeps, OverKeeps, PassKeeps, EvaluateKeeps DEF Work
  <2>5. CASE UNCHANGED vars
    <3>1. UNCHANGED <<today, sold, order, outcomes, left, held, aborts, raced>>
      BY <2>5 DEF vars, shop, evaluation
    <3>. QED
      BY <3>1, <1>1 DEF IInv, TypeOK, ApprovedOnly, HeldFits, Holds, Evaluations
  <2>. QED
    BY <1>1, <2>1, <2>2, <2>3, <2>4, <2>5 DEF Next
<1>. QED
  BY <1>1, InitIInv, PTL DEF Spec

\* The model is type-correct, and no order has more outcomes than evaluations.
THEOREM TypesHold == Spec => []TypeOK
<1>1. IInv => TypeOK
  BY DEF IInv
<1>. QED
  BY <1>1, Invariance, PTL

-----------------------------------------------------------------------------
\* What the outcomes of an order can be worth.
LEMMA AvoidedByOutcomes ==
    ASSUME TypeOK, NEW o \in Orders
    PROVE  \E n \in Nat :
              /\ n <= Len(outcomes[o])
              /\ UnitsAvoided(o) = order[o].quantity * n
<1>. DEFINE S == {i \in 1..Len(outcomes[o]) : outcomes[o][i]}
<1>1. Len(outcomes[o]) \in Nat
  <2>1. outcomes[o] \in Seq(BOOLEAN)
    BY DEF TypeOK
  <2>. QED
    BY <2>1, LenProperties
<1>2. IsFiniteSet(1..Len(outcomes[o])) /\ Cardinality(1..Len(outcomes[o])) = Len(outcomes[o])
  BY <1>1, FS_Interval, 1 \in Int
<1>3. S \subseteq 1..Len(outcomes[o])
  OBVIOUS
<1>4. IsFiniteSet(S) /\ Cardinality(S) <= Len(outcomes[o])
  BY <1>2, <1>3, FS_Subset
<1>5. Cardinality(S) \in Nat
  BY <1>4, FS_CardinalityType
<1>. QED
  BY <1>4, <1>5 DEF UnitsAvoided

LEMMA ValuedByInvariant == IInv => ValuedOnce
<1>. DEFINE q(o) == order[o].quantity
            twice(o) == IF o \in raced THEN q(o) ELSE 0
<1>. SUFFICES ASSUME IInv, NEW o \in Orders
              PROVE  UnitsAvoided(o) + Excess(o) <= Max({Drafted, q(o)}) + twice(o)
  BY DEF ValuedOnce
<1>1. q(o) \in Nat /\ Drafted \in Nat /\ order[o].status \in {"pending", "approved", "rejected"}
  BY OutcomesAssumption DEF IInv, TypeOK
<1>2. PICK n \in Nat : n <= Len(outcomes[o]) /\ UnitsAvoided(o) = q(o) * n
  BY AvoidedByOutcomes DEF IInv
<1>3. Len(outcomes[o]) \in Nat /\ Len(outcomes[o]) <= 2
  <2>1. outcomes[o] \in Seq(BOOLEAN) /\ Len(outcomes[o]) <= 2
    BY TwoEvaluations DEF IInv, TypeOK
  <2>. QED
    BY <2>1, LenProperties
<1>4. o \notin raced => Len(outcomes[o]) <= 1
  BY DEF IInv, HeldFits
<1>5. Max({Drafted, q(o)}) = (IF Drafted >= q(o) THEN Drafted ELSE q(o))
  BY <1>1, MaxOfTwo
<1>6. CASE order[o].status = "approved"
  <2>1. Excess(o) = (IF Drafted - q(o) >= 0 THEN Drafted - q(o) ELSE 0)
    <3>1. Drafted - q(o) \in Int
      BY <1>1
    <3>2. Max({Drafted - q(o), 0}) = (IF Drafted - q(o) >= 0 THEN Drafted - q(o) ELSE 0)
      BY <3>1, MaxOfTwo
    <3>. QED
      BY <3>2, <1>6 DEF Excess
  <2>2. UnitsAvoided(o) <= q(o) + twice(o) /\ UnitsAvoided(o) \in Nat
    <3>1. n \in {0, 1, 2} /\ (o \notin raced => n \in {0, 1})
      BY <1>2, <1>3, <1>4
    <3>2. q(o) * 0 = 0 /\ q(o) * 1 = q(o) /\ q(o) * 2 = q(o) + q(o)
      BY <1>1
    <3>. QED
      BY <3>1, <3>2, <1>1, <1>2
  <2>. HIDE DEF q
  <2>. QED
    BY <2>1, <2>2, <1>1, <1>5
<1>7. CASE order[o].status # "approved"
  <2>1. Excess(o) \in {0, q(o)}
    BY <1>7, <1>1 DEF Excess
  <2>2. outcomes[o] = << >>
    BY <1>7 DEF IInv, TypeOK
  <2>3. n = 0
    BY <2>2, <1>2
  <2>4. UnitsAvoided(o) = 0
    BY <2>3, <1>1, <1>2
  <2>. HIDE DEF q
  <2>. QED
    BY <2>1, <2>4, <1>1, <1>5
<1>. QED
  BY <1>6, <1>7

\* The units of an order count once, as sold or as not bought, for any orders and any
\* number of evaluations, and are sold twice at most where both evaluations measured
\* the order at the same time (calculate_stockouts_avoided, calculate_po_decisioning).
THEOREM UnitsAreValuedOnce == Spec => []ValuedOnce
BY Invariance, ValuedByInvariant, PTL
=============================================================================
