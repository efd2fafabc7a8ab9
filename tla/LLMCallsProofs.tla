--------------------------- MODULE LLMCallsProofs ---------------------------
(***************************************************************************)
(* Theorems about LLMCalls.tla, for any callers, threshold and budget: an  *)
(* overdrawn budget and an outage cost no more than what was under way.    *)
(***************************************************************************)
EXTENDS LLMCalls, FiniteSetTheorems, TLAPS

\* The attempts that callers of a client may still make without looking at the breaker.
AllOf(cl) == Users(cl) \X (1 .. MaxRetries)
LeftOf(cl) == {a \in AllOf(cl) : pc[a[1]] \in AtProvider /\ attempt[a[1]] < a[2]}

FailuresKept(cl) ==
    failures[cl] + Cardinality(LeftOf(cl)) <= Threshold - 1 + Cardinality(AllOf(cl))

\* The callers who may still book a reply without looking at the budget.
Owing == {c \in Callers : pc[c] \in AtProvider \cup {"cleared", "reply"}}

SpentKept ==
    \/ spent < Cap
    \/ spent + MaxCost * Cardinality(Owing) <= Cap - 1 + MaxCost * Cardinality(Callers)

IInv ==
    /\ TypeOK
    /\ CoolingIsFailing
    /\ \A cl \in Clients : FailuresKept(cl)
    /\ Cap > 0 => SpentKept

-----------------------------------------------------------------------------
(* Sets of callers and attempts are finite, and their sizes follow theirs. *)

LEMMA UsersFinite ==
    ASSUME NEW cl \in Clients
    PROVE  /\ IsFiniteSet(Users(cl)) /\ Cardinality(Users(cl)) \in Nat
           /\ IsFiniteSet(AllOf(cl)) /\ Cardinality(AllOf(cl)) \in Nat
           /\ Cardinality(AllOf(cl)) = MaxRetries * Cardinality(Users(cl))
<1>1. IsFiniteSet(Users(cl))
  <2>1. Users(cl) \subseteq Callers
    BY DEF Users
  <2>2. QED
    BY <2>1, LLMAssumption, FS_Subset
<1>2. IsFiniteSet(1 .. MaxRetries) /\ Cardinality(1 .. MaxRetries) = MaxRetries
  BY LLMAssumption, FS_Interval
<1>3. /\ IsFiniteSet(AllOf(cl))
      /\ Cardinality(AllOf(cl)) = Cardinality(Users(cl)) * Cardinality(1 .. MaxRetries)
  BY <1>1, <1>2, FS_Product DEF AllOf
<1>4. Cardinality(Users(cl)) \in Nat /\ Cardinality(AllOf(cl)) \in Nat
  BY <1>1, <1>3, FS_CardinalityType
<1>5. Cardinality(AllOf(cl)) = MaxRetries * Cardinality(Users(cl))
  BY <1>2, <1>3, <1>4, LLMAssumption
<1>6. QED
  BY <1>1, <1>3, <1>4, <1>5

LEMMA AllOfIsConstant == ASSUME NEW cl \in Clients PROVE AllOf(cl)' = AllOf(cl)
BY DEF AllOf, Users

LEMMA PartFinite ==
    ASSUME NEW cl \in Clients, NEW S \in SUBSET AllOf(cl)
    PROVE  /\ IsFiniteSet(S) /\ Cardinality(S) \in Nat
           /\ Cardinality(S) <= Cardinality(AllOf(cl))
BY UsersFinite, FS_Subset, FS_CardinalityType

LEMMA SomeCallersFinite ==
    ASSUME NEW S \in SUBSET Callers
    PROVE  /\ IsFiniteSet(S) /\ Cardinality(S) \in Nat
           /\ Cardinality(Callers) \in Nat /\ Cardinality(S) <= Cardinality(Callers)
BY LLMAssumption, FS_Subset, FS_CardinalityType

\* Products with the one factor that may not be known.
LEMMA ProductGrows ==
    ASSUME NEW m \in Nat, NEW i \in Nat, NEW n \in Nat, i <= n
    PROVE  m * i \in Nat /\ m * n \in Nat /\ m * i <= m * n
<1>1. m * (n - i) >= 0 /\ m * (n - i) = m * n - m * i
  OBVIOUS
<1>2. QED
  BY <1>1

LEMMA ClientOfCaller == ASSUME NEW c \in Callers PROVE ClientOf(c) \in Clients /\ c \in Users(ClientOf(c))
BY DEF ClientOf, Clients, Users

LEMMA InitIInv == Init => IInv
<1> SUFFICES ASSUME Init PROVE IInv
  OBVIOUS
<1>1. TypeOK /\ CoolingIsFailing
  BY LLMAssumption DEF Init, TypeOK, CoolingIsFailing, Places
<1>2. ASSUME NEW cl \in Clients PROVE FailuresKept(cl)
  <2>1. failures[cl] = 0
    BY DEF Init
  <2>2. QED
    BY <2>1, UsersFinite, PartFinite, LLMAssumption DEF FailuresKept, LeftOf
<1>3. Cap > 0 => SpentKept
  BY DEF Init, SpentKept
<1>4. QED
  BY <1>1, <1>2, <1>3 DEF IInv
-----------------------------------------------------------------------------
(* What a step may do to the failures and to the spending.                 *)

LEMMA FewerAttemptsLeft ==
    ASSUME NEW cl \in Clients, FailuresKept(cl), failures[cl] \in Nat,
           failures'[cl] = failures[cl], LeftOf(cl)' \subseteq LeftOf(cl)
    PROVE  FailuresKept(cl)'
<1>1. LeftOf(cl) \in SUBSET AllOf(cl)
  BY DEF LeftOf
<1>2. Cardinality(LeftOf(cl)') \in Nat /\ Cardinality(LeftOf(cl)) \in Nat
  BY <1>1, PartFinite
<1>3. Cardinality(LeftOf(cl)') <= Cardinality(LeftOf(cl))
  BY <1>1, PartFinite, FS_Subset
<1>4. QED
  BY <1>2, <1>3, UsersFinite, AllOfIsConstant, LLMAssumption DEF FailuresKept

LEMMA BelowThreshold ==
    ASSUME NEW cl \in Clients, failures'[cl] \in Nat, failures'[cl] < Threshold
    PROVE  FailuresKept(cl)'
<1>1. LeftOf(cl)' \in SUBSET AllOf(cl)
  BY DEF LeftOf, AllOf, Users
<1>2. QED
  BY <1>1, PartFinite, UsersFinite, AllOfIsConstant, LLMAssumption DEF FailuresKept

LEMMA OneAttemptUsed ==
    ASSUME NEW cl \in Clients, FailuresKept(cl), failures[cl] \in Nat,
           failures'[cl] = failures[cl] + 1,
           NEW a \in LeftOf(cl), LeftOf(cl)' \subseteq LeftOf(cl) \ {a}
    PROVE  FailuresKept(cl)'
<1>1. LeftOf(cl) \in SUBSET AllOf(cl) /\ LeftOf(cl) \ {a} \in SUBSET AllOf(cl)
  BY DEF LeftOf
<1>2. /\ Cardinality(LeftOf(cl)') \in Nat /\ Cardinality(LeftOf(cl)) \in Nat
      /\ IsFiniteSet(LeftOf(cl)) /\ IsFiniteSet(LeftOf(cl) \ {a})
  BY <1>1, PartFinite
<1>3. Cardinality(LeftOf(cl) \ {a}) = Cardinality(LeftOf(cl)) - 1
  BY <1>2, FS_RemoveElement
<1>4. Cardinality(LeftOf(cl)') <= Cardinality(LeftOf(cl)) - 1
  BY <1>2, <1>3, FS_Subset
<1>5. QED
  BY <1>2, <1>4, UsersFinite, AllOfIsConstant, LLMAssumption DEF FailuresKept

LEMMA FewerOwing ==
    ASSUME SpentKept, spent \in Nat, spent' = spent, Owing' \subseteq Owing
    PROVE  SpentKept'
<1>1. Owing \in SUBSET Callers /\ Owing' \in SUBSET Callers
  BY DEF Owing
<1>2. IsFiniteSet(Owing) /\ Cardinality(Owing) \in Nat /\ Cardinality(Owing') \in Nat
  BY <1>1, SomeCallersFinite
<1>3. Cardinality(Owing') <= Cardinality(Owing)
  BY <1>2, FS_Subset
<1>4. /\ MaxCost * Cardinality(Owing') \in Nat /\ MaxCost * Cardinality(Owing) \in Nat
      /\ MaxCost * Cardinality(Owing') <= MaxCost * Cardinality(Owing)
  BY <1>2, <1>3, ProductGrows, LLMAssumption
<1>5. Cardinality(Callers) \in Nat /\ MaxCost * Cardinality(Callers) \in Nat
  BY <1>1, SomeCallersFinite, ProductGrows, LLMAssumption
<1>6. QED
  BY <1>4, <1>5, LLMAssumption DEF SpentKept

LEMMA OneReplyBooked ==
    ASSUME SpentKept, spent \in Nat, NEW cost \in 1 .. MaxCost, spent' = spent + cost,
           NEW c \in Owing, Owing' \subseteq Owing \ {c}
    PROVE  SpentKept'
<1> DEFINE n == Cardinality(Owing)
           N == Cardinality(Callers)
<1>1. Owing \in SUBSET Callers /\ Owing' \in SUBSET Callers
  BY DEF Owing
<1>2. /\ IsFiniteSet(Owing) /\ n \in Nat /\ Cardinality(Owing') \in Nat
      /\ N \in Nat /\ n <= N
  BY <1>1, SomeCallersFinite
<1>3. IsFiniteSet(Owing \ {c}) /\ Cardinality(Owing \ {c}) = n - 1
  BY <1>2, FS_RemoveElement
<1>4. Cardinality(Owing') <= n - 1 /\ n - 1 \in Nat
  BY <1>2, <1>3, FS_Subset
<1>5. /\ MaxCost * Cardinality(Owing') \in Nat
      /\ MaxCost * Cardinality(Owing') <= MaxCost * (n - 1)
  BY <1>2, <1>4, ProductGrows, LLMAssumption
<1>6. MaxCost * n \in Nat /\ MaxCost * N \in Nat /\ MaxCost * n <= MaxCost * N
  BY <1>2, ProductGrows, LLMAssumption
<1>7. MaxCost * (n - 1) = MaxCost * n - MaxCost
  BY <1>2, LLMAssumption
<1>8. QED
  BY <1>5, <1>6, <1>7, LLMAssumption DEF SpentKept

-----------------------------------------------------------------------------
(* Each step keeps the invariant.                                          *)

\* A caller that leaves the provider, or goes on there, without a word to the breaker.
Quiet(c) ==
    \/ StopForBudget(c) \/ Emit(c) \/ StreamEnds(c) \/ StreamFails(c)
    \/ Abandon(c) \/ LeaveUnbooked(c)

LEMMA StepKeepsTypes ==
    ASSUME TypeOK, NEW c \in Callers, Begin(c) \/ Step(c) \/ Abandon(c)
    PROVE  TypeOK'
<1> USE LLMAssumption
<1>1. CASE Begin(c) \/ AskAgain(c)
  BY <1>1 DEF TypeOK, Begin, AskAgain, Cleared, Move, breaker, Places, AtProvider
<1>2. CASE StopForBudget(c) \/ Abandon(c)
  BY <1>2 DEF TypeOK, StopForBudget, Abandon, End, Move, breaker, Places, AtProvider
<1>3. CASE Admit(c)
  BY <1>3 DEF TypeOK, Admit, Move, breaker, Places, AtProvider
<1>4. CASE Refuse(c)
  BY <1>4 DEF TypeOK, Refuse, End, Move, Places, AtProvider, Clients, ClientOf
<1>5. CASE Emit(c) \/ StreamFails(c)
  BY <1>5 DEF TypeOK, Emit, StreamFails, Move, breaker, Places, AtProvider
<1>6. CASE StreamEnds(c)
  BY <1>6 DEF TypeOK, StreamEnds, Move, breaker, Places, AtProvider
<1>7. CASE Succeed(c)
  BY <1>7 DEF TypeOK, Succeed, Move, Places, AtProvider, Clients, ClientOf
<1>8. CASE FailAttempt(c)
  BY <1>8 DEF TypeOK, FailAttempt, End, Move, Places, AtProvider, Clients, ClientOf
<1>9. CASE Book(c)
  BY <1>9 DEF TypeOK, Book, GoOn, End, Move, breaker, Places, AtProvider
<1>10. CASE LeaveUnbooked(c)
  BY <1>10 DEF TypeOK, LeaveUnbooked, GoOn, End, Move, breaker, Places, AtProvider
<1>11. QED
  BY <1>1, <1>2, <1>3, <1>4, <1>5, <1>6, <1>7, <1>8, <1>9, <1>10 DEF Step

LEMMA StepKeepsCooling ==
    ASSUME TypeOK, CoolingIsFailing, NEW c \in Callers, Begin(c) \/ Step(c) \/ Abandon(c)
    PROVE  CoolingIsFailing'
<1>1. ClientOf(c) \in Clients
  BY ClientOfCaller
<1>2. CASE Refuse(c)
  BY <1>1, <1>2 DEF Refuse, IsOpen, CoolingIsFailing, TypeOK
<1>3. CASE Succeed(c)
  BY <1>1, <1>3 DEF Succeed, CoolingIsFailing, TypeOK
<1>4. CASE FailAttempt(c)
  BY <1>1, <1>4, LLMAssumption DEF FailAttempt, CoolingIsFailing, TypeOK
<1>5. CASE UNCHANGED breaker
  BY <1>5 DEF breaker, CoolingIsFailing
<1>6. QED
  BY <1>2, <1>3, <1>4, <1>5
     DEF Step, Begin, AskAgain, Cleared, StopForBudget, Admit, Emit, StreamEnds, StreamFails,
         Abandon, Book, LeaveUnbooked

LEMMA StepKeepsFailures ==
    ASSUME TypeOK, NEW c \in Callers, Begin(c) \/ Step(c) \/ Abandon(c),
           NEW cl \in Clients, FailuresKept(cl)
    PROVE  FailuresKept(cl)'
<1>1. failures[cl] \in Nat
  BY DEF TypeOK
<1>2. ASSUME failures'[cl] = failures[cl],
             pc'[c] \in AtProvider => pc[c] \in AtProvider /\ attempt'[c] >= attempt[c],
             \A q \in Callers \ {c} : pc'[q] = pc[q] /\ attempt'[q] = attempt[q],
             attempt'[c] \in Nat
      PROVE  FailuresKept(cl)'
  <2>1. LeftOf(cl)' \subseteq LeftOf(cl)
    BY <1>2 DEF LeftOf, AllOf, Users, TypeOK
  <2>2. QED
    BY <1>1, <1>2, <2>1, FewerAttemptsLeft
<1>3. CASE Admit(c) /\ cl = ClientOf(c)
  <2>1. failures' = failures /\ ~(failures[cl] >= Threshold)
    BY <1>3 DEF Admit, IsOpen, breaker
  <2>2. QED
    BY <1>1, <2>1, BelowThreshold, LLMAssumption
<1>4. CASE Succeed(c) /\ cl = ClientOf(c)
  <2>1. failures'[cl] = 0
    BY <1>4 DEF Succeed, TypeOK
  <2>2. QED
    BY <2>1, BelowThreshold, LLMAssumption
<1>5. CASE FailAttempt(c) /\ cl = ClientOf(c)
  <2> DEFINE a == <<c, attempt[c] + 1>>
  <2>1. failures'[cl] = failures[cl] + 1
    BY <1>5 DEF FailAttempt, TypeOK
  <2>2. a \in LeftOf(cl)
    BY <1>5, ClientOfCaller, LLMAssumption DEF FailAttempt, LeftOf, AllOf, TypeOK, AtProvider
  <2>3. \/ pc'[c] \notin AtProvider
        \/ attempt'[c] = attempt[c] + 1
    BY <1>5 DEF FailAttempt, End, Move, TypeOK, AtProvider
  <2>4. \A q \in Callers \ {c} : pc'[q] = pc[q] /\ attempt'[q] = attempt[q]
    BY <1>5 DEF FailAttempt, End, Move, TypeOK
  <2>5. LeftOf(cl)' \subseteq LeftOf(cl) \ {a}
    <3>1. SUFFICES ASSUME NEW b \in LeftOf(cl)' PROVE b \in LeftOf(cl) /\ b # a
      OBVIOUS
    <3>2. b \in AllOf(cl) /\ b[1] \in Callers /\ b[2] \in 1 .. MaxRetries
      BY AllOfIsConstant DEF LeftOf, AllOf, Users
    <3>3. pc'[b[1]] \in AtProvider /\ attempt'[b[1]] < b[2]
      BY DEF LeftOf
    <3>4. CASE b[1] = c
      BY <1>5, <2>3, <3>2, <3>3, <3>4, LLMAssumption DEF LeftOf, FailAttempt, AtProvider, TypeOK
    <3>5. CASE b[1] # c
      BY <2>4, <3>2, <3>3, <3>5 DEF LeftOf
    <3>6. QED
      BY <3>4, <3>5
  <2>6. QED
    BY <1>1, <2>1, <2>2, <2>5, OneAttemptUsed
<1>6. CASE (Admit(c) \/ Succeed(c) \/ FailAttempt(c)) /\ cl # ClientOf(c)
  <2>1. failures'[cl] = failures[cl]
    BY <1>6 DEF Admit, Succeed, FailAttempt, breaker, TypeOK
  <2>2. \A q \in Users(cl) : pc'[q] = pc[q] /\ attempt'[q] = attempt[q]
    BY <1>6 DEF Admit, Succeed, FailAttempt, End, Move, Users, TypeOK
  <2>3. LeftOf(cl)' \subseteq LeftOf(cl)
    BY <2>2 DEF LeftOf, AllOf, Users
  <2>4. QED
    BY <1>1, <2>1, <2>3, FewerAttemptsLeft
<1>7. CASE Begin(c) \/ AskAgain(c) \/ Refuse(c) \/ Book(c) \/ Quiet(c)
  <2>1. failures' = failures
    BY <1>7
       DEF Begin, AskAgain, Cleared, Refuse, Book, Quiet, StopForBudget, Emit, StreamEnds,
           StreamFails, Abandon, LeaveUnbooked, breaker
  <2>2. pc'[c] \in AtProvider => pc[c] \in AtProvider /\ attempt'[c] >= attempt[c]
    BY <1>7
       DEF Begin, AskAgain, Cleared, Refuse, Book, Quiet, StopForBudget, Emit, StreamEnds,
           StreamFails, Abandon, LeaveUnbooked, GoOn, End, Move, TypeOK, AtProvider
  <2>3. /\ \A q \in Callers \ {c} : pc'[q] = pc[q] /\ attempt'[q] = attempt[q]
        /\ attempt'[c] \in Nat
    BY <1>7
       DEF Begin, AskAgain, Cleared, Refuse, Book, Quiet, StopForBudget, Emit, StreamEnds,
           StreamFails, Abandon, LeaveUnbooked, GoOn, End, Move, TypeOK
  <2>4. QED
    BY <1>2, <2>1, <2>2, <2>3
<1>8. QED
  BY <1>3, <1>4, <1>5, <1>6, <1>7 DEF Step, Quiet

LEMMA StepKeepsSpending ==
    ASSUME TypeOK, NEW c \in Callers, Begin(c) \/ Step(c) \/ Abandon(c), Cap > 0, SpentKept
    PROVE  SpentKept'
<1>1. spent \in Nat
  BY DEF TypeOK
<1>2. CASE Begin(c) \/ AskAgain(c)
  BY <1>2, LLMAssumption DEF Begin, AskAgain, Cleared, Exhausted, SpentKept, TypeOK
<1>3. CASE Book(c)
  <2>1. PICK cost \in 1 .. MaxCost : spent' = spent + cost
    BY <1>3 DEF Book
  <2>2. c \in Owing
    BY <1>3 DEF Book, Owing
  <2>3. Owing' \subseteq Owing \ {c}
    BY <1>3 DEF Book, GoOn, End, Move, Owing, TypeOK, AtProvider
  <2>4. QED
    BY <1>1, <2>1, <2>2, <2>3, OneReplyBooked
<1>4. CASE Admit(c) \/ Refuse(c) \/ Succeed(c) \/ FailAttempt(c) \/ Quiet(c)
  <2>1. spent' = spent
    BY <1>4
       DEF Admit, Refuse, Succeed, FailAttempt, Quiet, StopForBudget, Emit, StreamEnds,
           StreamFails, Abandon, LeaveUnbooked
  <2>2. Owing' \subseteq Owing
    BY <1>4
       DEF Admit, Refuse, Succeed, FailAttempt, Quiet, StopForBudget, Emit, StreamEnds,
           StreamFails, Abandon, LeaveUnbooked, GoOn, End, Move, Owing, TypeOK, AtProvider
  <2>3. QED
    BY <1>1, <2>1, <2>2, FewerOwing
<1>5. QED
  BY <1>2, <1>3, <1>4 DEF Step, Quiet

LEMMA RestartKeepsIInv ==
    ASSUME IInv, Restart
    PROVE  IInv'
<1>1. TypeOK' /\ CoolingIsFailing'
  BY LLMAssumption DEF IInv, TypeOK, CoolingIsFailing, Restart, Places
<1>2. ASSUME NEW cl \in Clients PROVE FailuresKept(cl)'
  BY BelowThreshold, LLMAssumption DEF Restart
<1>3. Cap > 0 => SpentKept'
  <2>1. Owing' \subseteq Owing /\ spent' = spent
    BY DEF Restart, Owing, AtProvider
  <2>2. QED
    BY <2>1, FewerOwing DEF IInv, TypeOK
<1>4. QED
  BY <1>1, <1>2, <1>3 DEF IInv

LEMMA TimeKeepsIInv ==
    ASSUME IInv, (\E cl \in Clients : Cool(cl)) \/ Midnight \/ UNCHANGED vars
    PROVE  IInv'
<1>1. TypeOK' /\ CoolingIsFailing'
  <2>1. CASE \E cl \in Clients : Cool(cl)
    BY <2>1 DEF IInv, TypeOK, CoolingIsFailing, Cool
  <2>2. CASE Midnight
    BY <2>2 DEF IInv, TypeOK, CoolingIsFailing, Midnight, breaker
  <2>3. CASE UNCHANGED vars
    BY <2>3 DEF IInv, TypeOK, CoolingIsFailing, vars, breaker
  <2>4. QED
    BY <2>1, <2>2, <2>3
<1>2. UNCHANGED <<failures, pc, attempt>>
  BY DEF Cool, Midnight, vars, breaker
<1>3. ASSUME NEW cl \in Clients PROVE FailuresKept(cl)'
  <2>1. LeftOf(cl)' = LeftOf(cl)
    BY <1>2 DEF LeftOf, AllOf, Users
  <2>2. QED
    BY <1>2, <2>1, FewerAttemptsLeft DEF IInv, TypeOK
<1>4. Cap > 0 => SpentKept'
  <2>1. CASE spent' = 0
    BY <2>1 DEF SpentKept
  <2>2. CASE spent' = spent
    <3>1. Owing' = Owing
      BY <1>2 DEF Owing
    <3>2. QED
      BY <2>2, <3>1, FewerOwing DEF IInv, TypeOK
  <2>3. QED
    BY <2>1, <2>2 DEF Cool, Midnight, vars
<1>5. QED
  BY <1>1, <1>3, <1>4 DEF IInv

-----------------------------------------------------------------------------
(* The theorems.                                                           *)

THEOREM Invariance == Spec => []IInv
<1>1. IInv /\ [Next]_vars => IInv'
  <2> SUFFICES ASSUME IInv, [Next]_vars PROVE IInv'
    OBVIOUS
  <2>1. ASSUME NEW c \in Callers, Begin(c) \/ Step(c) \/ Abandon(c) PROVE IInv'
    <3>1. TypeOK' /\ CoolingIsFailing'
      BY <2>1, StepKeepsTypes, StepKeepsCooling DEF IInv
    <3>2. \A cl \in Clients : FailuresKept(cl)'
      BY <2>1, StepKeepsFailures DEF IInv
    <3>3. Cap > 0 => SpentKept'
      BY <2>1, StepKeepsSpending DEF IInv
    <3>4. QED
      BY <3>1, <3>2, <3>3 DEF IInv
  <2>2. QED
    BY <2>1, TimeKeepsIInv, RestartKeepsIInv DEF Next
<1>2. QED
  BY <1>1, InitIInv, PTL DEF Spec

\* The state is of its type: no call makes more attempts and no turn more steps than allowed.
THEOREM TypesHold == Spec => []TypeOK
<1>1. IInv => TypeOK
  BY DEF IInv
<1>2. QED
  BY <1>1, Invariance, PTL

\* However many callers share the budget, it is overdrawn by no more than a reply of each.
THEOREM OverspendIsBounded == Spec => []OverspendBounded
<1>1. IInv => OverspendBounded
  <2>1. SUFFICES ASSUME IInv, Cap > 0 PROVE spent <= Cap - 1 + MaxCost * Cardinality(Callers)
    BY DEF OverspendBounded
  <2>2. Owing \in SUBSET Callers /\ Callers \in SUBSET Callers
    BY DEF Owing
  <2>3. Cardinality(Owing) \in Nat /\ Cardinality(Callers) \in Nat
    BY <2>2, SomeCallersFinite
  <2>4. MaxCost * Cardinality(Owing) \in Nat /\ MaxCost * Cardinality(Callers) \in Nat
    BY <2>3, ProductGrows, LLMAssumption
  <2>5. QED
    BY <2>1, <2>4, LLMAssumption DEF IInv, SpentKept, TypeOK
<1>2. QED
  BY <1>1, Invariance, PTL

\* However many callers share a client, an outage costs it the threshold and their attempts.
THEOREM FailuresAreBounded == Spec => []FailuresBounded
<1>1. IInv => FailuresBounded
  <2>1. SUFFICES ASSUME IInv, NEW cl \in Clients
                 PROVE  failures[cl] <= Threshold - 1 + MaxRetries * Cardinality(Users(cl))
    BY DEF FailuresBounded
  <2>2. LeftOf(cl) \in SUBSET AllOf(cl)
    BY DEF LeftOf
  <2>3. Cardinality(LeftOf(cl)) \in Nat
    BY <2>2, PartFinite
  <2>4. QED
    BY <2>1, <2>3, UsersFinite, LLMAssumption DEF IInv, FailuresKept, TypeOK
<1>2. QED
  BY <1>1, Invariance, PTL

\* A breaker that is still cooling has the failures that opened it.
THEOREM CoolingHasFailed == Spec => []CoolingIsFailing
<1>1. IInv => CoolingIsFailing
  BY DEF IInv
<1>2. QED
  BY <1>1, Invariance, PTL
=============================================================================
