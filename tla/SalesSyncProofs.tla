-------------------------- MODULE SalesSyncProofs --------------------------
(***************************************************************************)
(* Theorems about SalesSync.tla, for any catalog, any size of its pages,   *)
(* any number of runs, orders and restarts, and whatever the queries leave *)
(* out: a run goes by stock as fresh as Shopify's when it began, for what  *)
(* is listed, and by sales that contain every order that was due; and      *)
(* about its task queue: no task ends without a result.                    *)
(***************************************************************************)
EXTENDS SalesSync, SequenceTheorems, TLAPS

-----------------------------------------------------------------------------
(* The inductive invariant.                                                *)

\* Every change of a stock is one of the things that happen.
VersionsCount == \A s \in Skus : version[s] \in 1..happened + 1

\* The row of s is there and is no older than run r, or overtook it.
Fresh(r, s) == stock[s] > 0 /\ (stock[s] >= began[r].version[s] \/ s \in crossed[r])

\* What run r has seen when it began stays true of Shopify.
BeganBefore(r) ==
    /\ \A s \in Skus : began[r].version[s] <= version[s]
    /\ began[r].orders \subseteq ToSet(placed)

\* The pages of products before this one are written, and the fetched one is fresh.
ProductsRead(r) ==
    /\ pc[r] \in {"fetch_products", "write_products"} =>
           /\ page[r] <= Len(Catalog)
           /\ \A i \in 1..page[r] - 1 : \A s \in Catalog[i] : Fresh(r, s)
    /\ pc[r] = "write_products" =>
           /\ held[r].more <=> page[r] < Len(Catalog)
           /\ \A s \in Catalog[page[r]] :
                 held[r].stock[s] > 0 /\ held[r].stock[s] >= began[r].version[s]
    /\ pc[r] \in {"fetch_orders", "write_orders", "list"} => \A s \in Listed : Fresh(r, s)

\* What the synchronisation counts of an order, if it comes to it.
Countable == {o \in Orders \ Cut : SkuOf[o] \in Listed}

\* The orders from the first within the days asked for up to this page are counted.  A
\* page that is followed by another is full; the last one holds what was due and is not
\* yet counted.
OrdersRead(r) ==
    /\ pc[r] \in {"fetch_orders", "write_orders"} =>
           /\ page[r] <= Len(placed) + 1
           /\ \A i \in aged + 1..page[r] - 1 : placed[i] \in Countable => counted[placed[i]] > 0
    /\ pc[r] = "write_orders" /\ held[r].more =>
           /\ page[r] + PageSize <= Len(placed)
           /\ \A i \in page[r]..page[r] + PageSize - 1 : placed[i] \in held[r].orders \cup Cut
    /\ pc[r] = "write_orders" /\ ~held[r].more =>
           \A o \in Due(r) : counted[o] > 0 \/ o \in held[r].orders
    /\ pc[r] \in {"list", "rest"} => \A o \in Due(r) : counted[o] > 0

\* What the run passes on is what it read, or overtook it.
ListedFresh(r) ==
    pc[r] = "rest" =>
        \A s \in Listed :
            (r \in Scoped => s \in Owned) =>
                listed[r][s] >= began[r].version[s] \/ s \in crossed[r]

RunInv(r) ==
    /\ pc[r] \notin Working => page[r] = 1
    /\ BeganBefore(r) /\ ProductsRead(r) /\ OrdersRead(r) /\ ListedFresh(r)

IInv == TypeOK /\ VersionsCount /\ \A r \in Runs : RunInv(r)

-----------------------------------------------------------------------------
(* Sequences, and the task queue.                                          *)

\* What is left of a sequence when one element is taken out.
LEMMA Removed ==
    ASSUME NEW S, NEW s \in Seq(S), NEW i \in 1..Len(s)
    PROVE  /\ RemoveAt(s, i) \in Seq(S)
           /\ Len(RemoveAt(s, i)) = Len(s) - 1
           /\ \A j \in 1..Len(s) - 1 :
                 RemoveAt(s, i)[j] = IF j < i THEN s[j] ELSE s[j + 1]
<1>. DEFINE left  == SubSeq(s, 1, i - 1)
            right == SubSeq(s, i + 1, Len(s))
<1>0. Len(s) \in Nat /\ \A j \in 1..Len(s) : s[j] \in S
  BY LenProperties, ElementOfSeq
<1>1. /\ left \in Seq(S) /\ Len(left) = i - 1
      /\ \A j \in 1..i - 1 : left[j] = s[j]
  <2>1. \A j \in 1..i - 1 : s[j] \in S
    BY <1>0
  <2>2. /\ SubSeq(s, 1, i - 1) \in Seq(S)
        /\ Len(SubSeq(s, 1, i - 1)) = IF 1 <= i - 1 THEN i - 1 - 1 + 1 ELSE 0
        /\ \A j \in 1..i - 1 - 1 + 1 : SubSeq(s, 1, i - 1)[j] = s[1 + j - 1]
    BY <2>1, SubSeqProperties
  <2>. QED BY <2>2
<1>2. /\ right \in Seq(S) /\ Len(right) = Len(s) - i
      /\ \A j \in 1..Len(s) - i : right[j] = s[i + j]
  <2>1. \A j \in i + 1..Len(s) : s[j] \in S
    BY <1>0
  <2>2. /\ SubSeq(s, i + 1, Len(s)) \in Seq(S)
        /\ Len(SubSeq(s, i + 1, Len(s)))
              = IF i + 1 <= Len(s) THEN Len(s) - (i + 1) + 1 ELSE 0
        /\ \A j \in 1..Len(s) - (i + 1) + 1 :
              SubSeq(s, i + 1, Len(s))[j] = s[i + 1 + j - 1]
    BY <1>0, <2>1, SubSeqProperties
  <2>. QED BY <1>0, <2>2
<1>3. /\ left \o right \in Seq(S)
      /\ Len(left \o right) = Len(left) + Len(right)
      /\ \A j \in 1..Len(left) + Len(right) :
            (left \o right)[j] = IF j <= Len(left) THEN left[j] ELSE right[j - Len(left)]
  BY <1>1, <1>2, ConcatProperties
<1>4. RemoveAt(s, i) = left \o right
  BY DEF RemoveAt
<1>. HIDE DEF left, right
<1>5. Len(left \o right) = Len(s) - 1
  BY <1>0, <1>1, <1>2, <1>3
<1>6. ASSUME NEW j \in 1..Len(s) - 1
      PROVE  (left \o right)[j] = IF j < i THEN s[j] ELSE s[j + 1]
  <2>1. CASE j < i
    BY <1>0, <1>1, <1>2, <1>3, <2>1
  <2>2. CASE ~(j < i)
    <3>1. j - Len(left) \in 1..Len(s) - i /\ i + (j - Len(left)) = j + 1
      BY <1>0, <1>1, <2>2
    <3>2. (left \o right)[j] = right[j - Len(left)]
      BY <1>0, <1>1, <1>2, <1>3, <2>2
    <3>. QED BY <1>2, <2>2, <3>1, <3>2
  <2>. QED BY <2>1, <2>2
<1>. QED BY <1>3, <1>4, <1>5, <1>6

\* What a sequence is when an element has been added.
LEMMA Appended ==
    ASSUME NEW S, NEW s \in Seq(S), NEW e \in S
    PROVE  /\ Append(s, e) \in Seq(S)
           /\ Len(Append(s, e)) = Len(s) + 1
           /\ ToSet(Append(s, e)) = ToSet(s) \cup {e}
<1>1. /\ Append(s, e) \in Seq(S)
      /\ Len(Append(s, e)) = Len(s) + 1
      /\ \A i \in 1..Len(s) : Append(s, e)[i] = s[i]
      /\ Append(s, e)[Len(s) + 1] = e
  BY AppendProperties
<1>2. DOMAIN s = 1..Len(s) /\ DOMAIN Append(s, e) = 1..Len(s) + 1 /\ Len(s) \in Nat
  BY <1>1, LenProperties
<1>. QED BY <1>1, <1>2 DEF ToSet

\* The results that are kept when one of them may have made room.
LEMMA TrimmedKeeps ==
    ASSUME NEW kept \in Seq(Tasks)
    PROVE  /\ Trimmed(kept) \in Seq(Tasks)
           /\ Len(kept) <= MaxResults => Trimmed(kept) = kept
           /\ Len(kept) > MaxResults =>
                 /\ Len(Trimmed(kept)) = Len(kept) - 1
                 /\ \A i \in 2..Len(kept) : kept[i] \in ToSet(Trimmed(kept))
<1>0. Len(kept) \in Nat /\ MaxResults \in Nat \ {0}
  BY LenProperties, TaskQueueAssumption
<1>1. CASE Len(kept) <= MaxResults
  BY <1>0, <1>1 DEF Trimmed
<1>2. CASE Len(kept) > MaxResults
  <2>1. kept # << >>
    BY <1>0, <1>2, EmptySeq
  <2>2. /\ Tail(kept) \in Seq(Tasks)
        /\ Len(Tail(kept)) = Len(kept) - 1
        /\ \A i \in 1..Len(Tail(kept)) : Tail(kept)[i] = kept[i + 1]
    BY <2>1, HeadTailProperties
  <2>3. DOMAIN Tail(kept) = 1..Len(Tail(kept))
    BY <2>2, LenProperties
  <2>4. ASSUME NEW i \in 2..Len(kept)
        PROVE  kept[i] \in ToSet(Tail(kept))
    <3>1. i - 1 \in 1..Len(Tail(kept)) /\ Tail(kept)[i - 1] = kept[i]
      BY <1>0, <2>2
    <3>. QED BY <2>3, <3>1 DEF ToSet
  <2>5. Trimmed(kept) = Tail(kept)
    BY <1>2 DEF Trimmed
  <2>6. \A i \in 2..Len(kept) : kept[i] \in ToSet(Trimmed(kept))
    BY <2>4, <2>5
  <2>7. Trimmed(kept) \in Seq(Tasks) /\ Len(Trimmed(kept)) = Len(kept) - 1
    BY <2>2, <2>5
  <2>. QED BY <1>0, <1>2, <2>6, <2>7
<1>. QED BY <1>0, <1>1, <1>2

LEMMA QueueTyped ==
    ASSUME QueueTypeOK, NEW t \in Tasks,
           Enqueue(t) \/ Begin \/ Succeed(t) \/ Break(t) \/ Poll(t) \/ Vanish
    PROVE  QueueTypeOK'
<1>. USE DEF QueueTypeOK
<1>1. CASE Enqueue(t)
  BY <1>1, Appended DEF Enqueue
<1>2. CASE Begin
  BY <1>2, HeadTailProperties DEF Begin
<1>3. CASE Succeed(t)
  BY <1>3, Appended, TrimmedKeeps DEF Succeed
<1>4. CASE Break(t)
  BY <1>4, Appended DEF Break
<1>5. CASE Poll(t)
  BY <1>5, Removed DEF Poll
<1>6. CASE Vanish
  BY <1>6, EmptySeq DEF Vanish
<1>. QED BY <1>1, <1>2, <1>3, <1>4, <1>5, <1>6

-----------------------------------------------------------------------------
(* Types.                                                                  *)

\* What the writes to the database do, whoever makes them.
LEMMA UpsertStep ==
    ASSUME TypeOK, NEW stocks \in Stocks, Upsert(stocks)
    PROVE  /\ stock' \in Stocks
           /\ \A s \in Skus : stock'[s] = IF stocks[s] > 0 THEN stocks[s] ELSE stock[s]
BY DEF Upsert, TypeOK, Stocks

LEMMA CrossStep ==
    ASSUME TypeOK, NEW stocks \in Stocks, Cross(stocks)
    PROVE  /\ crossed' \in [Runs -> SUBSET Skus]
           /\ \A r \in Runs : crossed[r] \subseteq crossed'[r]
           /\ \A r \in Runs, s \in Skus :
                 pc[r] \in Working /\ 0 < stocks[s] /\ stocks[s] < began[r].version[s]
                     => s \in crossed'[r]
BY DEF Cross, TypeOK

LEMMA CountStep ==
    ASSUME TypeOK, NEW os \in SUBSET Orders, Count(os)
    PROVE  /\ counted' \in [Orders -> 0..Often]
           /\ \A o \in Orders : counted[o] > 0 => counted'[o] > 0
           /\ \A o \in os : stock[SkuOf[o]] > 0 => counted'[o] > 0
<1>1. \A n \in 0..Often : Again(n) \in 0..Often /\ Again(n) > 0
  BY DEF Again, Often
<1>2. counted' = [o \in Orders |->
                     IF o \in os /\ stock[SkuOf[o]] > 0 THEN Again(counted[o]) ELSE counted[o]]
  BY DEF Count
<1>3. counted \in [Orders -> 0..Often]
  BY DEF TypeOK
<1>. QED BY <1>1, <1>2, <1>3

LEMMA StocksTyped ==
    /\ Nothing \in Stocks
    /\ NoPage \in [stock: Stocks, orders: SUBSET Orders, more: BOOLEAN]
    /\ NotBegun \in [version: Stocks, orders: SUBSET Orders]
    /\ \A s \in Skus : \A v \in 0..MaxEvents + 1 : Only(s, v) \in Stocks
BY SalesSyncAssumption DEF Nothing, NoPage, NotBegun, Only, Stocks

LEMMA InitTyped == Init => TypeOK /\ VersionsCount
<1>. SUFFICES ASSUME Init PROVE TypeOK /\ VersionsCount
  OBVIOUS
<1>1. QueueTypeOK
  BY EmptySeq DEF Init, QueueInit, QueueTypeOK
<1>2. version \in Stocks /\ stock \in Stocks /\ item \in Stocks
  BY StocksTyped, SalesSyncAssumption DEF Init, Stocks
<1>3. placed \in Seq(Orders) /\ aged \in 0..Len(placed)
  <2>1. Len(Earlier) \in Nat
    BY LenProperties, SalesSyncAssumption
  <2>. QED BY <2>1, SalesSyncAssumption DEF Init
<1>4. \A t \in Tasks : pc[t] \in Working <=> current = t
  BY TaskQueueAssumption, SalesSyncAssumption DEF Init, QueueInit, Working
<1>5. TypeOK
  BY <1>1, <1>2, <1>3, <1>4, StocksTyped, SalesSyncAssumption
     DEF Init, TypeOK, Often
<1>. QED BY <1>5 DEF Init, VersionsCount

\* Shopify and the webhooks.
LEMMA WorldTyped ==
    ASSUME TypeOK, VersionsCount,
           \/ \E s \in Skus : ChangeStock(s) \/ FetchVariant(s) \/ WriteVariant(s)
           \/ \E u \in updates : HandleProductUpdate(u[1], u[2])
           \/ \E o \in Orders : PlaceOrder(o) \/ HandleOrderCreate(o)
           \/ Age
    PROVE  TypeOK' /\ VersionsCount'
<1>. USE DEF taskQueue, shopify, deliveries, database, run
<1>0. MaxEvents \in Nat
  BY SalesSyncAssumption
<1>1. ASSUME NEW s \in Skus, ChangeStock(s) PROVE TypeOK' /\ VersionsCount'
  <2>1. version[s] \in 1..MaxEvents /\ happened' \in 0..MaxEvents
    BY <1>0, <1>1 DEF ChangeStock, Happen, VersionsCount, TypeOK
  <2>2. version' \in Stocks /\ updates' \subseteq Skus \X (1..MaxEvents + 1)
        /\ levels' \subseteq Skus
    <3>1. version[s] + 1 \in 1..MaxEvents + 1 /\ version[s] + 1 \in 0..MaxEvents + 1
      BY <1>0, <2>1
    <3>2. version' \in Stocks
      BY <1>1, <3>1 DEF ChangeStock, TypeOK, Stocks
    <3>. QED BY <1>1, <3>1, <3>2 DEF ChangeStock, TypeOK
  <2>3. TypeOK'
    BY <1>1, <2>1, <2>2 DEF ChangeStock, TypeOK, QueueTypeOK
  <2>4. VersionsCount'
    BY <1>1 DEF ChangeStock, Happen, VersionsCount, TypeOK, Stocks
  <2>. QED BY <2>3, <2>4
<1>2. ASSUME NEW s \in Skus, FetchVariant(s) PROVE TypeOK' /\ VersionsCount'
  <2>1. item' \in Stocks
    BY <1>2 DEF FetchVariant, TypeOK, Stocks
  <2>. QED BY <1>2, <2>1 DEF FetchVariant, TypeOK, QueueTypeOK, VersionsCount
<1>3. ASSUME NEW s \in Skus, WriteVariant(s) PROVE TypeOK' /\ VersionsCount'
  <2>1. Only(s, item[s]) \in Stocks
    BY StocksTyped DEF TypeOK, Stocks
  <2>2. stock' \in Stocks /\ crossed' \in [Runs -> SUBSET Skus]
    BY <1>3, <2>1, UpsertStep, CrossStep DEF WriteVariant
  <2>3. item' \in Stocks
    BY <1>0, <1>3 DEF WriteVariant, TypeOK, Stocks
  <2>. QED BY <1>3, <2>2, <2>3 DEF WriteVariant, TypeOK, QueueTypeOK, VersionsCount
<1>4. ASSUME NEW u \in updates, HandleProductUpdate(u[1], u[2])
      PROVE  TypeOK' /\ VersionsCount'
  <2>1. u[1] \in Skus /\ u[2] \in 0..MaxEvents + 1
    BY <1>0 DEF TypeOK
  <2>2. Only(u[1], u[2]) \in Stocks
    BY <2>1, StocksTyped
  <2>3. stock' \in Stocks /\ crossed' \in [Runs -> SUBSET Skus]
    BY <1>4, <2>2, UpsertStep, CrossStep DEF HandleProductUpdate
  <2>. QED BY <1>4, <2>3 DEF HandleProductUpdate, TypeOK, QueueTypeOK, VersionsCount
<1>5. ASSUME NEW o \in Orders, PlaceOrder(o) PROVE TypeOK' /\ VersionsCount'
  <2>1. placed' \in Seq(Orders) /\ aged' \in 0..Len(placed')
    <3>1. Len(placed) \in Nat /\ Append(placed, o) \in Seq(Orders)
          /\ Len(Append(placed, o)) = Len(placed) + 1
      BY LenProperties, Appended DEF TypeOK
    <3>. QED BY <1>5, <3>1 DEF PlaceOrder, TypeOK
  <2>2. happened' \in 0..MaxEvents /\ news' \subseteq Orders
    BY <1>0, <1>5 DEF PlaceOrder, Happen, TypeOK
  <2>3. TypeOK'
    BY <1>5, <2>1, <2>2 DEF PlaceOrder, TypeOK, QueueTypeOK
  <2>. QED BY <1>5, <2>3 DEF PlaceOrder, Happen, TypeOK, Stocks, VersionsCount
<1>6. ASSUME NEW o \in Orders, HandleOrderCreate(o) PROVE TypeOK' /\ VersionsCount'
  <2>1. counted' \in [Orders -> 0..Often]
    BY <1>6, CountStep DEF HandleOrderCreate
  <2>. QED BY <1>6, <2>1 DEF HandleOrderCreate, TypeOK, QueueTypeOK, VersionsCount
<1>7. ASSUME Age PROVE TypeOK' /\ VersionsCount'
  <2>1. Len(placed) \in Nat
    BY LenProperties DEF TypeOK
  <2>2. aged' \in 0..Len(placed) /\ happened' \in 0..MaxEvents
    BY <1>0, <1>7, <2>1 DEF Age, Happen, TypeOK
  <2>3. TypeOK'
    BY <1>7, <2>2 DEF Age, TypeOK, QueueTypeOK
  <2>. QED BY <1>7, <2>3 DEF Age, Happen, TypeOK, Stocks, VersionsCount
<1>. QED BY <1>1, <1>2, <1>3, <1>4, <1>5, <1>6, <1>7

\* A run that begins, directly or as a task of the queue.
LEMMA StartTyped ==
    ASSUME TypeOK, VersionsCount, (\E r \in Runs : StartDirect(r)) \/ StartQueued
    PROVE  TypeOK' /\ VersionsCount'
<1>1. PICK r \in Runs :
         /\ Started(r)
         /\ \/ r \notin Tasks /\ UNCHANGED taskQueue
            \/ r \in Tasks /\ Begin /\ current' = r
  <2>1. CASE StartQueued
    <3>1. Head(queue) \in Tasks /\ Tasks \subseteq Runs
      BY <2>1, HeadTailProperties, SalesSyncAssumption
         DEF StartQueued, Begin, TypeOK, QueueTypeOK
    <3>. QED BY <2>1, <3>1 DEF StartQueued, Begin
  <2>2. CASE \E r \in Runs : StartDirect(r)
    BY <2>2 DEF StartDirect
  <2>. QED BY <2>1, <2>2
<1>2. QueueTypeOK'
  BY <1>1, QueueTyped DEF TypeOK, taskQueue, QueueTypeOK
<1>3. ToSet(placed) \subseteq Orders
  BY ElementOfSeq, LenProperties DEF TypeOK, ToSet
<1>4. began' \in [Runs -> [version: Stocks, orders: SUBSET Orders]]
  BY <1>1, <1>3 DEF Started, TypeOK
<1>5. pc' \in [Runs -> {"idle", "over"} \cup Working]
  BY <1>1 DEF Started, TypeOK, Working
<1>6. \A t \in Tasks : pc'[t] \in Working <=> current' = t
  <2>1. pc[r] \notin Working /\ pc' = [pc EXCEPT ![r] = "fetch_products"]
        /\ "fetch_products" \in Working
    BY <1>1 DEF Started, Working
  <2>2. CASE r \notin Tasks /\ UNCHANGED taskQueue
    BY <2>1, <2>2 DEF TypeOK, taskQueue
  <2>3. CASE r \in Tasks /\ Begin /\ current' = r
    <3>1. \A t \in Tasks : pc[t] \notin Working
      BY <2>3, TaskQueueAssumption DEF Begin, TypeOK
    <3>. QED BY <2>1, <2>3, <3>1 DEF TypeOK
  <2>. QED BY <1>1, <2>2, <2>3
<1>. QED BY <1>1, <1>2, <1>4, <1>5, <1>6
         DEF Started, TypeOK, VersionsCount, shopify, deliveries, database

\* The task queue, apart from its worker.
LEMMA ClientTyped ==
    ASSUME TypeOK, VersionsCount, NEW t \in Tasks, Request(t) \/ Ask(t)
    PROVE  TypeOK' /\ VersionsCount'
<1>1. QueueTypeOK'
  BY QueueTyped DEF Request, Ask, TypeOK
<1>2. UNCHANGED <<current, shopify, deliveries, database, item, run, crossed, happened>>
  BY DEF Request, Ask, Enqueue, Poll
<1>. QED BY <1>1, <1>2 DEF TypeOK, VersionsCount, shopify, deliveries, database, run

\* The steps of a run that is at work and stays so.
LEMMA ProceedTyped ==
    ASSUME TypeOK, VersionsCount, NEW r \in Runs,
           \/ FetchProducts(r) \/ WriteProducts(r) \/ FetchOrders(r)
           \/ WriteOrders(r) \/ List(r)
    PROVE  TypeOK' /\ VersionsCount'
<1>. USE DEF taskQueue, shopify, deliveries, database
<1>0. MaxEvents \in Nat /\ PageSize \in Nat \ {0}
  BY SalesSyncAssumption
\* Its place is another one at work, so that it remains the worker's task if it is one.
<1>1. ASSUME NEW to \in Working, pc[r] \in Working, pc' = [pc EXCEPT ![r] = to],
             UNCHANGED taskQueue
      PROVE  /\ pc' \in [Runs -> {"idle", "over"} \cup Working]
             /\ \A t \in Tasks : pc'[t] \in Working <=> current' = t
             /\ QueueTypeOK'
  BY <1>1, SalesSyncAssumption DEF TypeOK, QueueTypeOK
<1>. DEFINE Held == [stock: Stocks, orders: SUBSET Orders, more: BOOLEAN]
<1>2. CASE FetchProducts(r)
  <2>1. [s \in Skus |-> IF s \in Catalog[page[r]] THEN version[s] ELSE 0] \in Stocks
    BY <1>0 DEF TypeOK, Stocks
  <2>2. held' \in [Runs -> Held]
    BY <1>2, <2>1 DEF FetchProducts, TypeOK
  <2>3. "write_products" \in Working /\ pc[r] \in Working
    BY <1>2 DEF FetchProducts, Working
  <2>. QED BY <1>1, <1>2, <2>2, <2>3 DEF FetchProducts, TypeOK, VersionsCount
<1>3. ASSUME NEW from \in Working, NEW again \in Working, NEW step \in Nat,
             NEW next \in Working, NEW first \in Nat \ {0},
             Turn(r, from, again, step, next, first), UNCHANGED taskQueue
      PROVE  /\ pc' \in [Runs -> {"idle", "over"} \cup Working]
             /\ \A t \in Tasks : pc'[t] \in Working <=> current' = t
             /\ QueueTypeOK'
             /\ page' \in [Runs -> Nat \ {0}]
             /\ held' \in [Runs -> Held]
  <2>1. page' \in [Runs -> Nat \ {0}]
    BY <1>3 DEF Turn, TypeOK
  <2>2. held' \in [Runs -> Held]
    BY <1>3, StocksTyped DEF Turn, TypeOK
  <2>. DEFINE to == IF held[r].more THEN again ELSE next
  <2>3. to \in Working /\ pc[r] \in Working /\ pc' = [pc EXCEPT ![r] = to]
    BY <1>3 DEF Turn
  <2>. HIDE DEF to
  <2>. QED BY <1>1, <1>3, <2>1, <2>2, <2>3
<1>4. CASE WriteProducts(r)
  <2>1. held[r].stock \in Stocks
    BY DEF TypeOK
  <2>2. stock' \in Stocks /\ crossed' \in [Runs -> SUBSET Skus]
    BY <1>4, <2>1, UpsertStep, CrossStep DEF WriteProducts
  <2>3. /\ pc' \in [Runs -> {"idle", "over"} \cup Working]
        /\ \A t \in Tasks : pc'[t] \in Working <=> current' = t
        /\ QueueTypeOK'
        /\ page' \in [Runs -> Nat \ {0}]
        /\ held' \in [Runs -> Held]
    <3>. DEFINE oldest == aged + 1
    <3>1. oldest \in Nat \ {0} /\ 1 \in Nat
      BY LenProperties DEF TypeOK
    <3>2. {"write_products", "fetch_products", "fetch_orders"} \subseteq Working
      BY DEF Working
    <3>3. /\ Turn(r, "write_products", "fetch_products", 1, "fetch_orders", oldest)
          /\ UNCHANGED taskQueue
      BY <1>4 DEF WriteProducts
    <3>. HIDE DEF oldest, Held
    <3>. QED BY <1>3, <3>1, <3>2, <3>3
  <2>. QED BY <1>4, <2>2, <2>3 DEF WriteProducts, TypeOK, VersionsCount
<1>5. CASE FetchOrders(r)
  <2>. DEFINE last == page[r] + PageSize - 1
              window == {placed[i] : i \in {j \in 1..Len(placed) : page[r] <= j /\ j <= last}}
                            \ Cut
  <2>1. window \subseteq Orders /\ More(last) \in BOOLEAN
    BY ElementOfSeq DEF TypeOK, More
  <2>2. held' = [held EXCEPT ![r] = [stock |-> Nothing, orders |-> window, more |-> More(last)]]
    BY <1>5 DEF FetchOrders
  <2>. HIDE DEF last, window
  <2>3. held' \in [Runs -> Held]
    BY <2>1, <2>2, StocksTyped DEF TypeOK
  <2>4. "write_orders" \in Working /\ pc[r] \in Working
    BY <1>5 DEF FetchOrders, Working
  <2>. QED BY <1>1, <1>5, <2>3, <2>4 DEF FetchOrders, TypeOK, VersionsCount
<1>6. CASE WriteOrders(r)
  <2>1. held[r].orders \in SUBSET Orders
    BY DEF TypeOK
  <2>2. counted' \in [Orders -> 0..Often]
    BY <1>6, <2>1, CountStep DEF WriteOrders
  <2>3. /\ pc' \in [Runs -> {"idle", "over"} \cup Working]
        /\ \A t \in Tasks : pc'[t] \in Working <=> current' = t
        /\ QueueTypeOK'
        /\ page' \in [Runs -> Nat \ {0}]
        /\ held' \in [Runs -> Held]
    <3>1. {"write_orders", "fetch_orders", "list"} \subseteq Working /\ 1 \in Nat \ {0}
      BY DEF Working
    <3>2. /\ Turn(r, "write_orders", "fetch_orders", PageSize, "list", 1)
          /\ UNCHANGED taskQueue
      BY <1>6 DEF WriteOrders
    <3>3. PageSize \in Nat
      BY <1>0
    <3>. HIDE DEF Held
    <3>. QED BY <1>3, <3>1, <3>2, <3>3
  <2>. QED BY <1>6, <2>2, <2>3 DEF WriteOrders, TypeOK, VersionsCount
<1>7. CASE List(r)
  <2>1. listed' \in [Runs -> Stocks]
    BY <1>0, <1>7 DEF List, TypeOK, Stocks
  <2>2. "rest" \in Working /\ pc[r] \in Working
    BY <1>7 DEF List, Working
  <2>. QED BY <1>1, <1>7, <2>1, <2>2 DEF List, TypeOK, VersionsCount
<1>. QED BY <1>2, <1>4, <1>5, <1>6, <1>7

\* A run that ends, and frees the worker if it was its task.
LEMMA EndTyped ==
    ASSUME TypeOK, VersionsCount, NEW r \in Runs, Finish(r) \/ FailRun(r)
    PROVE  TypeOK' /\ VersionsCount'
<1>1. Over(r) /\ pc[r] \in Working
  BY DEF Finish, FailRun, Working
<1>2. IF r \in Tasks THEN Succeed(r) \/ Break(r) ELSE UNCHANGED taskQueue
  BY DEF Finish, FailRun
<1>3. QueueTypeOK'
  BY <1>2, QueueTyped DEF TypeOK, taskQueue, QueueTypeOK
<1>4. \A t \in Tasks : pc'[t] \in Working <=> current' = t
  <2>1. "over" \notin Working /\ pc' = [pc EXCEPT ![r] = "over"]
    BY <1>1 DEF Over, Working
  <2>2. CASE r \in Tasks
    <3>1. current = r /\ current' = None
      BY <1>2, <2>2 DEF Succeed, Break
    <3>. QED BY <2>1, <2>2, <3>1, TaskQueueAssumption, SalesSyncAssumption DEF TypeOK
  <2>3. CASE r \notin Tasks
    BY <1>2, <2>1, <2>3, SalesSyncAssumption DEF TypeOK, taskQueue
  <2>. QED BY <2>2, <2>3
<1>. QED BY <1>1, <1>3, <1>4, StocksTyped
         DEF Over, TypeOK, VersionsCount, shopify, deliveries, database

LEMMA RestartTyped ==
    ASSUME TypeOK, VersionsCount, Restart
    PROVE  TypeOK' /\ VersionsCount'
<1>1. QueueTypeOK' /\ current' = None
  BY EmptySeq DEF Restart, Vanish, QueueTypeOK
<1>2. pc' \in [Runs -> {"idle", "over"} \cup Working]
  BY DEF Restart, TypeOK
<1>3. \A r \in Runs : pc'[r] \notin Working
  BY DEF Restart, Working
<1>4. \A t \in Tasks : pc'[t] \in Working <=> current' = t
  BY <1>1, <1>3, TaskQueueAssumption, SalesSyncAssumption
<1>5. happened < MaxEvents /\ happened' = happened + 1 /\ happened' \in 0..MaxEvents
  BY SalesSyncAssumption DEF Restart, Happen, TypeOK
<1>8. /\ item' \in Stocks
      /\ page' \in [Runs -> Nat \ {0}]
      /\ listed' \in [Runs -> Stocks]
      /\ crossed' \in [Runs -> SUBSET Skus]
  BY StocksTyped DEF Restart
<1>9. /\ held' \in [Runs -> [stock: Stocks, orders: SUBSET Orders, more: BOOLEAN]]
      /\ began' \in [Runs -> [version: Stocks, orders: SUBSET Orders]]
  BY StocksTyped DEF Restart
<1>6. TypeOK'
  BY <1>1, <1>2, <1>4, <1>5, <1>8, <1>9
     DEF Restart, TypeOK, shopify, deliveries, database
<1>7. VersionsCount'
  BY <1>5 DEF Restart, VersionsCount, TypeOK, shopify
<1>. QED BY <1>6, <1>7

-----------------------------------------------------------------------------
(* What a run knows.                                                       *)

\* Nothing takes back what a run relies on: stock changes only to newer versions,
\* orders are placed after those that were, and grow old, what is counted stays so ...
Grows ==
    /\ \A s \in Skus : version'[s] >= version[s]
    /\ Len(placed') >= Len(placed)
    /\ \A i \in 1..Len(placed) : placed'[i] = placed[i]
    /\ \A i \in Len(placed) + 1..Len(placed') : placed'[i] \notin ToSet(placed)
    /\ aged' >= aged
    /\ \A o \in Orders : counted[o] > 0 => counted'[o] > 0

\* ... and the rows stay as fresh as run r needs them, or overtook it.
StaysFresh(r) ==
    pc[r] \in Working =>
        /\ crossed[r] \subseteq crossed'[r]
        /\ \A s \in Skus : Fresh(r, s) => Fresh(r, s)'

\* Run r itself does nothing.
Rests(r) ==
    /\ pc'[r] = pc[r] /\ page'[r] = page[r] /\ held'[r] = held[r]
    /\ listed'[r] = listed[r] /\ began'[r] = began[r]

LEMMA Typed ==
    ASSUME TypeOK
    PROVE  /\ Len(placed) \in Nat /\ DOMAIN placed = 1..Len(placed)
           /\ \A i \in 1..Len(placed) : placed[i] \in Orders
           /\ aged \in Nat /\ aged <= Len(placed)
           /\ Len(Catalog) \in Nat \ {0} /\ DOMAIN Catalog = 1..Len(Catalog)
           /\ \A i \in 1..Len(Catalog) : Catalog[i] \subseteq Skus
           /\ Listed \subseteq Skus
           /\ \A s \in Listed : \E i \in 1..Len(Catalog) : s \in Catalog[i]
           /\ \A r \in Runs :
                 /\ page[r] \in Nat \ {0}
                 /\ held[r].stock \in Stocks /\ held[r].orders \subseteq Orders
                 /\ held[r].more \in BOOLEAN
                 /\ began[r].version \in Stocks /\ began[r].orders \subseteq Orders
           /\ \A st \in Stocks, s \in Skus : st[s] \in Nat
<1>1. /\ Len(placed) \in Nat /\ DOMAIN placed = 1..Len(placed)
      /\ \A i \in 1..Len(placed) : placed[i] \in Orders
  BY LenProperties, ElementOfSeq DEF TypeOK
<1>2. /\ Len(Catalog) \in Nat \ {0} /\ DOMAIN Catalog = 1..Len(Catalog)
      /\ \A i \in 1..Len(Catalog) : Catalog[i] \subseteq Skus
  BY EmptySeq, ElementOfSeq, LenProperties, SalesSyncAssumption
<1>5. /\ Listed \subseteq Skus
      /\ \A s \in Listed : \E i \in 1..Len(Catalog) : s \in Catalog[i]
  BY <1>2 DEF Listed, ToSet
<1>6. aged \in Nat /\ aged <= Len(placed)
  BY <1>1 DEF TypeOK
<1>3. \A r \in Runs :
         /\ page[r] \in Nat \ {0}
         /\ held[r].stock \in Stocks /\ held[r].orders \subseteq Orders
         /\ held[r].more \in BOOLEAN
         /\ began[r].version \in Stocks /\ began[r].orders \subseteq Orders
  BY DEF TypeOK
<1>4. \A st \in Stocks, s \in Skus : st[s] \in Nat
  BY SalesSyncAssumption DEF Stocks
<1>. QED BY <1>1, <1>2, <1>3, <1>4, <1>5, <1>6

\* No order becomes due: what is placed later is none of the run's, and the days asked
\* for only lose orders.
LEMMA DueShrinks ==
    ASSUME TypeOK, TypeOK', NEW r \in Runs, BeganBefore(r), Grows, began'[r] = began[r]
    PROVE  Due(r)' \subseteq Due(r)
<1>. SUFFICES ASSUME NEW o \in Due(r)' PROVE o \in Due(r)
  OBVIOUS
<1>1. /\ Len(placed) \in Nat /\ Len(placed') \in Nat
      /\ aged \in Nat /\ aged' \in Nat /\ aged' >= aged
  BY LenProperties DEF TypeOK, Grows
<1>2. o \in began[r].orders \ Cut /\ SkuOf[o] \in Listed /\ o \in ToSet(placed)
  BY DEF Due, BeganBefore
<1>3. PICK i \in aged' + 1..Len(placed') : placed'[i] = o
  BY DEF Due, Within
<1>4. i \notin Len(placed) + 1..Len(placed')
  BY <1>2, <1>3 DEF Grows
<1>5. i \in aged + 1..Len(placed) /\ i \in 1..Len(placed)
  <2>1. i \in Nat /\ aged' < i /\ i <= Len(placed')
    BY <1>1, <1>3
  <2>2. i <= Len(placed)
    BY <1>1, <1>4, <2>1
  <2>3. aged < i
    BY <1>1, <2>1
  <2>. QED BY <1>1, <2>1, <2>2, <2>3
<1>6. Within(o)
  BY <1>3, <1>5 DEF Within, Grows
<1>. QED BY <1>2, <1>6 DEF Due

LEMMA RestsInv ==
    ASSUME TypeOK, NEW r \in Runs, RunInv(r), Grows, StaysFresh(r), Rests(r), TypeOK'
    PROVE  RunInv(r)'
<1>. USE DEF RunInv, Rests
<1>0. /\ Len(placed) \in Nat /\ Len(placed') \in Nat
      /\ DOMAIN placed = 1..Len(placed) /\ DOMAIN placed' = 1..Len(placed')
      /\ \A i \in 1..Len(placed) : placed[i] \in Orders
      /\ page[r] \in Nat \ {0} /\ PageSize \in Nat \ {0}
      /\ Len(Catalog) \in Nat \ {0}
      /\ \A i \in 1..Len(Catalog) : Catalog[i] \subseteq Skus
      /\ Listed \subseteq Skus
      /\ aged \in Nat /\ aged' \in Nat
  BY Typed, SalesSyncAssumption, LenProperties DEF TypeOK
<1>1. BeganBefore(r)'
  <2>1. \A s \in Skus : began[r].version[s] \in Nat /\ version[s] \in Nat /\ version'[s] \in Nat
    BY Typed DEF TypeOK
  <2>2. ToSet(placed) \subseteq ToSet(placed')
    BY <1>0 DEF Grows, ToSet
  <2>3. \A s \in Skus : began[r].version[s] <= version'[s]
    BY <2>1 DEF BeganBefore, Grows
  <2>. QED BY <2>2, <2>3 DEF BeganBefore
<1>2. ProductsRead(r)'
  <2>1. pc[r] \in Working => \A s \in Skus : Fresh(r, s) => Fresh(r, s)'
    BY DEF StaysFresh
  <2>2. pc[r] \in {"fetch_products", "write_products"} =>
           \A i \in 1..page[r] - 1 : \A s \in Catalog[i] : Fresh(r, s)'
    BY <1>0, <2>1 DEF ProductsRead, Working
  <2>3. pc[r] \in {"fetch_orders", "write_orders", "list"} => \A s \in Listed : Fresh(r, s)'
    BY <1>0, <2>1 DEF ProductsRead, Working
  <2>. QED BY <2>2, <2>3 DEF ProductsRead
<1>3. OrdersRead(r)'
  <2>0. Due(r)' \subseteq Due(r) /\ Due(r) \subseteq Orders
    BY DueShrinks, Typed DEF Due
  <2>1. ASSUME pc[r] \in {"fetch_orders", "write_orders"}
        PROVE  /\ page[r] <= Len(placed') + 1
               /\ \A i \in aged' + 1..page[r] - 1 :
                     placed'[i] \in Countable => counted'[placed'[i]] > 0
    <3>1. /\ page[r] <= Len(placed) + 1
          /\ \A i \in aged + 1..page[r] - 1 :
                placed[i] \in Countable => counted[placed[i]] > 0
      BY <2>1 DEF OrdersRead
    <3>2. page[r] <= Len(placed') + 1
      BY <1>0, <3>1 DEF Grows
    <3>3. ASSUME NEW i \in aged' + 1..page[r] - 1, placed'[i] \in Countable
          PROVE  counted'[placed'[i]] > 0
      <4>1. i \in aged + 1..page[r] - 1 /\ i \in 1..Len(placed)
        BY <1>0, <3>1 DEF Grows
      <4>2. placed'[i] = placed[i] /\ placed[i] \in Orders
        BY <1>0, <4>1 DEF Grows
      <4>. QED BY <3>1, <3>3, <4>1, <4>2 DEF Grows
    <3>. QED BY <3>2, <3>3
  <2>2. ASSUME pc[r] = "write_orders", held[r].more
        PROVE  /\ page[r] + PageSize <= Len(placed')
               /\ \A i \in page[r]..page[r] + PageSize - 1 :
                     placed'[i] \in held[r].orders \cup Cut
    <3>1. /\ page[r] + PageSize <= Len(placed)
          /\ \A i \in page[r]..page[r] + PageSize - 1 : placed[i] \in held[r].orders \cup Cut
      BY <2>2 DEF OrdersRead
    <3>2. Len(placed) <= Len(placed') /\ \A i \in 1..Len(placed) : placed'[i] = placed[i]
      BY <1>0 DEF Grows
    <3>3. page[r] + PageSize <= Len(placed')
      BY <1>0, <3>1, <3>2
    <3>4. ASSUME NEW i \in page[r]..page[r] + PageSize - 1 PROVE i \in 1..Len(placed)
      BY <1>0, <3>1
    <3>. QED BY <3>1, <3>2, <3>3, <3>4
  <2>3. ASSUME pc[r] = "write_orders", ~held[r].more
        PROVE  \A o \in Due(r)' : counted'[o] > 0 \/ o \in held[r].orders
    BY <2>0, <2>3 DEF OrdersRead, Grows
  <2>4. ASSUME pc[r] \in {"list", "rest"}
        PROVE  \A o \in Due(r)' : counted'[o] > 0
    BY <2>0, <2>4 DEF OrdersRead, Grows
  <2>. QED BY <2>1, <2>2, <2>3, <2>4 DEF OrdersRead
<1>4. ListedFresh(r)'
  BY <1>0 DEF ListedFresh, StaysFresh, Working
<1>. QED BY <1>1, <1>2, <1>3, <1>4

\* A write of rows leaves them as fresh as any run needs them: what is older than the
\* run overtakes it (sync_products_and_inventory, handle_product_update).
LEMMA WriteStaysFresh ==
    ASSUME TypeOK, NEW stocks \in Stocks, Upsert(stocks), Cross(stocks),
           NEW r \in Runs, began'[r] = began[r]
    PROVE  StaysFresh(r)
<1>. SUFFICES ASSUME pc[r] \in Working
              PROVE  /\ crossed[r] \subseteq crossed'[r]
                     /\ \A s \in Skus : Fresh(r, s) => Fresh(r, s)'
  BY DEF StaysFresh
<1>1. crossed[r] \subseteq crossed'[r]
  BY CrossStep
<1>2. ASSUME NEW s \in Skus, Fresh(r, s) PROVE Fresh(r, s)'
  <2>0. stocks[s] \in Nat /\ stock[s] \in Nat /\ began[r].version[s] \in Nat
    BY Typed DEF TypeOK
  <2>1. CASE stocks[s] > 0 /\ stocks[s] < began[r].version[s]
    <3>1. s \in crossed'[r] /\ stock'[s] = stocks[s]
      BY <2>1, UpsertStep, CrossStep
    <3>. QED BY <2>1, <3>1 DEF Fresh
  <2>2. CASE stocks[s] > 0 /\ stocks[s] >= began[r].version[s]
    <3>1. stock'[s] = stocks[s]
      BY <2>2, UpsertStep
    <3>. QED BY <2>2, <3>1 DEF Fresh
  <2>3. CASE ~(stocks[s] > 0)
    <3>1. stock'[s] = stock[s]
      BY <2>3, UpsertStep
    <3>. QED BY <1>1, <1>2, <3>1 DEF Fresh
  <2>. QED BY <2>0, <2>1, <2>2, <2>3
<1>. QED BY <1>1, <1>2

LEMMA SameStaysFresh ==
    ASSUME UNCHANGED stock, NEW r \in Runs, crossed'[r] = crossed[r], began'[r] = began[r]
    PROVE  StaysFresh(r)
BY DEF StaysFresh, Fresh

\* Shopify and the webhooks leave every run what it relies on.
LEMMA WorldInv ==
    ASSUME IInv, TypeOK',
           \/ \E s \in Skus : ChangeStock(s) \/ FetchVariant(s) \/ WriteVariant(s)
           \/ \E u \in updates : HandleProductUpdate(u[1], u[2])
           \/ \E o \in Orders : PlaceOrder(o) \/ HandleOrderCreate(o)
           \/ Age
    PROVE  \A r \in Runs : RunInv(r)'
<1>. USE DEF IInv, taskQueue, shopify, deliveries, database, run
<1>. SUFFICES Grows /\ UNCHANGED run /\ \A r \in Runs : StaysFresh(r)
  BY RestsInv DEF Rests
<1>0. Len(placed) \in Nat /\ aged \in Nat /\ MaxEvents \in Nat
  BY Typed, SalesSyncAssumption
<1>1. ASSUME NEW s \in Skus, ChangeStock(s)
      PROVE  Grows /\ UNCHANGED run /\ \A r \in Runs : StaysFresh(r)
  <2>1. Grows
    BY <1>0, <1>1 DEF ChangeStock, Grows, TypeOK, Stocks
  <2>. QED BY <1>1, <2>1, SameStaysFresh DEF ChangeStock
<1>2. ASSUME NEW s \in Skus, FetchVariant(s)
      PROVE  Grows /\ UNCHANGED run /\ \A r \in Runs : StaysFresh(r)
  <2>1. Grows
    BY <1>0, <1>2 DEF FetchVariant, Grows, TypeOK, Stocks
  <2>. QED BY <1>2, <2>1, SameStaysFresh DEF FetchVariant
<1>3. ASSUME NEW s \in Skus, WriteVariant(s)
      PROVE  Grows /\ UNCHANGED run /\ \A r \in Runs : StaysFresh(r)
  <2>1. Grows
    BY <1>0, <1>3 DEF WriteVariant, Grows, TypeOK, Stocks
  <2>2. Only(s, item[s]) \in Stocks
    BY StocksTyped DEF TypeOK, Stocks
  <2>. QED BY <1>3, <2>1, <2>2, WriteStaysFresh DEF WriteVariant
<1>4. ASSUME NEW u \in updates, HandleProductUpdate(u[1], u[2])
      PROVE  Grows /\ UNCHANGED run /\ \A r \in Runs : StaysFresh(r)
  <2>1. Grows
    BY <1>0, <1>4 DEF HandleProductUpdate, Grows, TypeOK, Stocks
  <2>2. Only(u[1], u[2]) \in Stocks
    <3>1. u[1] \in Skus /\ u[2] \in 0..MaxEvents + 1
      BY <1>0 DEF TypeOK
    <3>. QED BY <3>1, StocksTyped
  <2>. QED BY <1>4, <2>1, <2>2, WriteStaysFresh DEF HandleProductUpdate
<1>5. ASSUME NEW o \in Orders, PlaceOrder(o)
      PROVE  Grows /\ UNCHANGED run /\ \A r \in Runs : StaysFresh(r)
  <2>1. /\ Len(Append(placed, o)) = Len(placed) + 1
        /\ \A i \in 1..Len(placed) : Append(placed, o)[i] = placed[i]
        /\ Append(placed, o)[Len(placed) + 1] = o
    BY AppendProperties DEF TypeOK
  <2>3. \A i \in Len(placed) + 1..Len(placed') : placed'[i] \notin ToSet(placed)
    BY <1>0, <1>5, <2>1 DEF PlaceOrder
  <2>2. Grows
    BY <1>0, <1>5, <2>1, <2>3 DEF PlaceOrder, Grows, TypeOK, Stocks
  <2>. QED BY <1>5, <2>2, SameStaysFresh DEF PlaceOrder
<1>6. ASSUME NEW o \in Orders, HandleOrderCreate(o)
      PROVE  Grows /\ UNCHANGED run /\ \A r \in Runs : StaysFresh(r)
  <2>1. \A x \in Orders : counted[x] > 0 => counted'[x] > 0
    BY <1>6, CountStep DEF HandleOrderCreate
  <2>2. Grows
    BY <1>0, <1>6, <2>1 DEF HandleOrderCreate, Grows, TypeOK, Stocks
  <2>. QED BY <1>6, <2>2, SameStaysFresh DEF HandleOrderCreate
<1>7. ASSUME Age
      PROVE  Grows /\ UNCHANGED run /\ \A r \in Runs : StaysFresh(r)
  <2>1. aged' >= aged
    BY <1>0, <1>7 DEF Age
  <2>2. Grows
    BY <1>0, <1>7, <2>1 DEF Age, Grows, TypeOK, Stocks
  <2>. QED BY <1>7, <2>2, SameStaysFresh DEF Age
<1>. QED BY <1>1, <1>2, <1>3, <1>4, <1>5, <1>6, <1>7

\* A step of run r does nothing to another run but write for it.
LEMMA OthersInv ==
    ASSUME IInv, TypeOK', NEW r \in Runs, NEW q \in Runs, q # r,
           Started(r) \/ Step(r)
    PROVE  RunInv(q)'
<1>. USE DEF IInv, taskQueue, shopify, deliveries, database
<1>0. Len(placed) \in Nat /\ aged \in Nat
  BY Typed
<1>1. Rests(q)
  BY DEF Started, Step, FetchProducts, WriteProducts, FetchOrders, WriteOrders, Turn,
         List, Finish, FailRun, Over, Rests, TypeOK
<1>2. UNCHANGED shopify
  BY DEF Started, Step, FetchProducts, WriteProducts, FetchOrders, WriteOrders,
         List, Finish, FailRun, Over
<1>3. \A o \in Orders : counted[o] > 0 => counted'[o] > 0
  <2>1. CASE WriteOrders(r)
    <3>1. held[r].orders \in SUBSET Orders
      BY Typed
    <3>. QED BY <2>1, <3>1, CountStep DEF WriteOrders
  <2>2. CASE ~WriteOrders(r)
    BY <2>2 DEF Started, Step, FetchProducts, WriteProducts, FetchOrders, List, Finish,
                FailRun, Over
  <2>. QED BY <2>1, <2>2
<1>4. Grows
  BY <1>0, <1>2, <1>3 DEF Grows, TypeOK, Stocks
<1>5. StaysFresh(q)
  <2>1. CASE WriteProducts(r)
    <3>1. held[r].stock \in Stocks
      BY Typed
    <3>. QED BY <1>1, <2>1, <3>1, WriteStaysFresh DEF WriteProducts, Rests
  <2>2. CASE ~WriteProducts(r)
    <3>1. UNCHANGED stock /\ crossed'[q] = crossed[q]
      BY <2>2 DEF Started, Step, FetchProducts, FetchOrders, WriteOrders, List, Finish,
                  FailRun, Over, TypeOK
    <3>. QED BY <1>1, <3>1, SameStaysFresh DEF Rests
  <2>. QED BY <2>1, <2>2
<1>. QED BY <1>1, <1>4, <1>5, RestsInv

-----------------------------------------------------------------------------
(* The steps of a run, one by one.                                         *)

\* A run begins with the first page of the products.
LEMMA StartedInv ==
    ASSUME IInv, NEW r \in Runs, Started(r)
    PROVE  RunInv(r)'
<1>. USE DEF IInv, shopify, deliveries, database
<1>1. /\ pc'[r] = "fetch_products" /\ page'[r] = 1
      /\ began'[r] = [version |-> version, orders |-> ToSet(placed)]
      /\ UNCHANGED <<version, placed>>
  BY DEF Started, TypeOK, RunInv, Working
<1>2. BeganBefore(r)'
  BY <1>1, Typed DEF BeganBefore, TypeOK
<1>3. ProductsRead(r)'
  BY <1>1, Typed DEF ProductsRead
<1>. QED BY <1>1, <1>2, <1>3 DEF RunInv, OrdersRead, ListedFresh, Working

LEMMA FetchProductsInv ==
    ASSUME IInv, NEW r \in Runs, FetchProducts(r)
    PROVE  RunInv(r)'
<1>. USE DEF IInv, shopify, deliveries, database
<1>0. pc[r] = "fetch_products" /\ page[r] \in 1..Len(Catalog) /\ BeganBefore(r)
  BY Typed DEF FetchProducts, RunInv, ProductsRead
<1>1. /\ pc'[r] = "write_products" /\ page'[r] = page[r] /\ began'[r] = began[r]
      /\ held'[r].stock = [s \in Skus |-> IF s \in Catalog[page[r]] THEN version[s] ELSE 0]
      /\ held'[r].more <=> page[r] < Len(Catalog)
      /\ UNCHANGED <<version, placed, stock, crossed>>
  BY DEF FetchProducts, TypeOK
<1>2. \A s \in Catalog[page[r]] :
         held'[r].stock[s] > 0 /\ held'[r].stock[s] >= began'[r].version[s]
  <2>. SUFFICES ASSUME NEW s \in Catalog[page[r]]
                PROVE  held'[r].stock[s] > 0 /\ held'[r].stock[s] >= began'[r].version[s]
    OBVIOUS
  <2>1. s \in Skus
    BY <1>0, Typed
  <2>2. version[s] > 0 /\ began[r].version[s] <= version[s]
    BY <1>0, <2>1 DEF VersionsCount, BeganBefore, TypeOK
  <2>3. version[s] \in Nat /\ began[r].version[s] \in Nat
    BY <2>1, Typed DEF TypeOK
  <2>. QED BY <1>1, <2>1, <2>2, <2>3
<1>3. BeganBefore(r)'
  BY <1>0, <1>1 DEF BeganBefore
<1>4. \A i \in 1..page[r] - 1 : \A s \in Catalog[i] : Fresh(r, s)'
  BY <1>0, <1>1 DEF RunInv, ProductsRead, Fresh
<1>5. ProductsRead(r)'
  <2>1. /\ page'[r] <= Len(Catalog)
        /\ \A i \in 1..page'[r] - 1 : \A s \in Catalog[i] : Fresh(r, s)'
        /\ held'[r].more <=> page'[r] < Len(Catalog)
    BY <1>0, <1>1, <1>4
  <2>2. \A s \in Catalog[page'[r]] :
           held'[r].stock[s] > 0 /\ held'[r].stock[s] >= began'[r].version[s]
    BY <1>1, <1>2
  <2>. QED BY <1>1, <2>1, <2>2 DEF ProductsRead
<1>. QED BY <1>1, <1>3, <1>5 DEF RunInv, OrdersRead, ListedFresh, Working

LEMMA WriteProductsInv ==
    ASSUME IInv, NEW r \in Runs, WriteProducts(r)
    PROVE  RunInv(r)'
<1>. USE DEF IInv, shopify, deliveries, database
<1>0. /\ pc[r] = "write_products" /\ page[r] \in 1..Len(Catalog) /\ BeganBefore(r)
      /\ Len(Catalog) \in Nat
      /\ \A i \in 1..Len(Catalog) : Catalog[i] \subseteq Skus
      /\ held[r].more <=> page[r] < Len(Catalog)
      /\ held[r].stock \in Stocks
      /\ Len(placed) \in Nat /\ aged \in Nat /\ aged <= Len(placed)
      /\ Listed \subseteq Skus
      /\ \A s \in Listed : \E i \in 1..Len(Catalog) : s \in Catalog[i]
  BY Typed DEF WriteProducts, Turn, RunInv, ProductsRead
<1>1. /\ pc'[r] = IF held[r].more THEN "fetch_products" ELSE "fetch_orders"
      /\ page'[r] = IF held[r].more THEN page[r] + 1 ELSE aged + 1
      /\ began'[r] = began[r]
      /\ UNCHANGED <<version, placed, aged>>
  BY DEF WriteProducts, Turn, TypeOK
<1>2. StaysFresh(r) /\ pc[r] \in Working
  BY <1>0, <1>1, WriteStaysFresh DEF WriteProducts, Working
\* This page is now as fresh as the ones before it ...
<1>3. ASSUME NEW s \in Catalog[page[r]] PROVE Fresh(r, s)'
  <2>1. s \in Skus
    BY <1>0
  <2>2. held[r].stock[s] > 0 /\ held[r].stock[s] >= began[r].version[s]
    BY <1>0 DEF RunInv, ProductsRead
  <2>3. stock'[s] = held[r].stock[s]
    BY <1>0, <2>1, <2>2, UpsertStep DEF WriteProducts
  <2>. QED BY <1>1, <2>2, <2>3 DEF Fresh
<1>4. ASSUME NEW i \in 1..page[r] PROVE \A s \in Catalog[i] : Fresh(r, s)'
  <2>1. CASE i = page[r]
    BY <1>3, <2>1
  <2>2. CASE i # page[r]
    <3>1. i \in 1..page[r] - 1 /\ Catalog[i] \subseteq Skus
      BY <1>0, <2>2
    <3>. QED BY <1>0, <1>2, <3>1 DEF RunInv, ProductsRead, StaysFresh
  <2>. QED BY <2>1, <2>2
\* ... and the last page completes the catalog.
<1>5. ~held[r].more => \A s \in Listed : Fresh(r, s)'
  <2>1. ~held[r].more => page[r] = Len(Catalog)
    BY <1>0
  <2>. QED BY <1>0, <1>4, <2>1
<1>6. ProductsRead(r)'
  <2>1. CASE held[r].more
    <3>1. page'[r] <= Len(Catalog) /\ page'[r] - 1 = page[r]
      BY <1>0, <1>1, <2>1
    <3>. QED BY <1>1, <1>4, <2>1, <3>1 DEF ProductsRead
  <2>2. CASE ~held[r].more
    BY <1>1, <1>5, <2>2 DEF ProductsRead
  <2>. QED BY <2>1, <2>2
<1>7. BeganBefore(r)'
  BY <1>0, <1>1 DEF BeganBefore
<1>8. OrdersRead(r)'
  <2>1. ~held[r].more => page'[r] <= Len(placed) + 1 /\ aged + 1..page'[r] - 1 = {}
    BY <1>0, <1>1
  <2>. QED BY <1>0, <1>1, <2>1 DEF OrdersRead
<1>. QED BY <1>1, <1>6, <1>7, <1>8 DEF RunInv, ListedFresh, Working

LEMMA FetchOrdersInv ==
    ASSUME IInv, NEW r \in Runs, FetchOrders(r)
    PROVE  RunInv(r)'
<1>. USE DEF IInv, shopify, deliveries, database
<1>. DEFINE last == page[r] + PageSize - 1
            window == {placed[i] : i \in {j \in 1..Len(placed) : page[r] <= j /\ j <= last}}
<1>0. /\ pc[r] = "fetch_orders" /\ page[r] <= Len(placed) + 1
      /\ \A i \in aged + 1..page[r] - 1 : placed[i] \in Countable => counted[placed[i]] > 0
      /\ BeganBefore(r) /\ \A s \in Listed : Fresh(r, s)
      /\ Len(placed) \in Nat /\ page[r] \in Nat \ {0} /\ PageSize \in Nat \ {0}
      /\ aged \in Nat /\ began[r].orders \subseteq Orders
  BY Typed, SalesSyncAssumption DEF FetchOrders, RunInv, ProductsRead, OrdersRead
<1>1. /\ pc'[r] = "write_orders" /\ page'[r] = page[r] /\ began'[r] = began[r]
      /\ held'[r].orders = window \ Cut
      /\ held'[r].more <=> Len(placed) > last
      /\ UNCHANGED <<version, placed, aged, stock, crossed, counted>>
  BY DEF FetchOrders, TypeOK, More
<1>. HIDE DEF window
<1>2. ASSUME held'[r].more
      PROVE  /\ page[r] + PageSize <= Len(placed)
             /\ \A i \in page[r]..page[r] + PageSize - 1 :
                   placed[i] \in held'[r].orders \cup Cut
  <2>1. page[r] + PageSize <= Len(placed)
    BY <1>0, <1>1, <1>2
  <2>2. \A i \in page[r]..page[r] + PageSize - 1 :
           i \in {j \in 1..Len(placed) : page[r] <= j /\ j <= last}
    BY <1>0, <2>1
  <2>. QED BY <1>1, <2>1, <2>2 DEF window
<1>3. ASSUME ~held'[r].more, NEW o \in Due(r)
      PROVE  counted[o] > 0 \/ o \in held'[r].orders
  <2>1. PICK i \in aged + 1..Len(placed) : placed[i] = o
    BY DEF Due, Within
  <2>2. o \in Countable /\ o \notin Cut
    BY <1>0 DEF Due, Countable
  <2>3. CASE i < page[r]
    <3>1. i \in aged + 1..page[r] - 1
      BY <1>0, <2>3
    <3>. QED BY <1>0, <2>1, <2>2, <3>1
  <2>4. CASE ~(i < page[r])
    <3>1. i \in {j \in 1..Len(placed) : page[r] <= j /\ j <= last}
      BY <1>0, <1>1, <1>3, <2>4
    <3>. QED BY <1>1, <2>1, <2>2, <3>1 DEF window
  <2>. QED BY <2>3, <2>4
<1>. HIDE DEF last
<1>4. OrdersRead(r)'
  <2>1. Due(r)' = Due(r)
    BY <1>1 DEF Due, Within
  <2>. QED BY <1>0, <1>1, <1>2, <1>3, <2>1 DEF OrdersRead
<1>5. ProductsRead(r)' /\ BeganBefore(r)'
  BY <1>0, <1>1 DEF ProductsRead, BeganBefore, Fresh
<1>. QED BY <1>1, <1>4, <1>5 DEF RunInv, ListedFresh, Working

LEMMA WriteOrdersInv ==
    ASSUME IInv, NEW r \in Runs, WriteOrders(r)
    PROVE  RunInv(r)'
<1>. USE DEF IInv, shopify, deliveries, database
<1>0. /\ pc[r] = "write_orders" /\ page[r] <= Len(placed) + 1
      /\ \A i \in aged + 1..page[r] - 1 : placed[i] \in Countable => counted[placed[i]] > 0
      /\ BeganBefore(r) /\ \A s \in Listed : Fresh(r, s)
      /\ Len(placed) \in Nat /\ page[r] \in Nat \ {0} /\ PageSize \in Nat \ {0}
      /\ aged \in Nat
      /\ \A i \in 1..Len(placed) : placed[i] \in Orders
      /\ held[r].orders \subseteq Orders /\ began[r].orders \subseteq Orders
  BY Typed, SalesSyncAssumption DEF WriteOrders, Turn, RunInv, ProductsRead, OrdersRead
<1>1. /\ pc'[r] = IF held[r].more THEN "fetch_orders" ELSE "list"
      /\ page'[r] = IF held[r].more THEN page[r] + PageSize ELSE 1
      /\ began'[r] = began[r]
      /\ UNCHANGED <<version, placed, aged, stock, crossed>>
  BY DEF WriteOrders, Turn, TypeOK
\* The listed SKUs are known by now, so that none of their orders is passed over.
<1>2. /\ \A o \in Orders : counted[o] > 0 => counted'[o] > 0
      /\ \A o \in held[r].orders \cap Countable : counted'[o] > 0
  <2>1. \A o \in Countable : stock[SkuOf[o]] > 0
    BY <1>0 DEF Fresh, Countable
  <2>. QED BY <1>0, <2>1, CountStep DEF WriteOrders
<1>3. Due(r)' = Due(r) /\ Due(r) \subseteq Countable
  BY <1>0, <1>1 DEF Due, Within, Countable
<1>4. CASE held[r].more
  <2>1. /\ page[r] + PageSize <= Len(placed)
        /\ \A i \in page[r]..page[r] + PageSize - 1 : placed[i] \in held[r].orders \cup Cut
    BY <1>0, <1>4 DEF RunInv, OrdersRead
  <2>2. ASSUME NEW i \in aged + 1..page[r] + PageSize - 1, placed[i] \in Countable
        PROVE  counted'[placed[i]] > 0
    <3>1. CASE i < page[r]
      <4>1. i \in aged + 1..page[r] - 1 /\ i \in 1..Len(placed)
        BY <1>0, <3>1
      <4>. QED BY <1>0, <1>2, <2>2, <4>1
    <3>2. CASE ~(i < page[r])
      <4>1. i \in page[r]..page[r] + PageSize - 1
        BY <1>0, <3>2
      <4>2. placed[i] \notin Cut
        BY <2>2 DEF Countable
      <4>. QED BY <1>2, <2>1, <2>2, <4>1, <4>2
    <3>. QED BY <3>1, <3>2
  <2>3. OrdersRead(r)'
    BY <1>0, <1>1, <1>4, <2>1, <2>2 DEF OrdersRead
  <2>. QED BY <1>0, <1>1, <1>4, <2>3
           DEF RunInv, ProductsRead, BeganBefore, ListedFresh, Fresh, Working
<1>5. CASE ~held[r].more
  <2>1. \A o \in Due(r) : counted'[o] > 0
    <3>1. \A o \in Due(r) : counted[o] > 0 \/ o \in held[r].orders
      BY <1>0, <1>5 DEF RunInv, OrdersRead
    <3>. QED BY <1>2, <1>3, <3>1 DEF Countable
  <2>2. OrdersRead(r)'
    BY <1>1, <1>3, <1>5, <2>1 DEF OrdersRead
  <2>. QED BY <1>0, <1>1, <1>5, <2>2
           DEF RunInv, ProductsRead, BeganBefore, ListedFresh, Fresh, Working
<1>. QED BY <1>4, <1>5

LEMMA ListInv ==
    ASSUME IInv, NEW r \in Runs, List(r)
    PROVE  RunInv(r)'
<1>. USE DEF IInv, shopify, deliveries, database
<1>0. /\ pc[r] = "list" /\ BeganBefore(r)
      /\ \A s \in Listed : Fresh(r, s)
      /\ \A o \in Due(r) : counted[o] > 0
      /\ Listed \subseteq Skus
  BY Typed DEF List, RunInv, ProductsRead, OrdersRead
<1>1. /\ pc'[r] = "rest" /\ page'[r] = page[r] /\ began'[r] = began[r]
      /\ UNCHANGED <<version, placed, aged, stock, counted, crossed>>
      /\ \A s \in Skus : (r \in Scoped => s \in Owned) => listed'[r][s] = stock[s]
  BY DEF List, TypeOK
<1>2. Due(r)' = Due(r)
  BY <1>1 DEF Due, Within
<1>. QED BY <1>0, <1>1, <1>2
         DEF RunInv, ProductsRead, OrdersRead, BeganBefore, ListedFresh, Fresh, Working

\* A run that is over knows nothing.
LEMMA OverInv ==
    ASSUME IInv, NEW r \in Runs,
           pc'[r] \notin Working, page'[r] = 1, began'[r] = NotBegun, UNCHANGED version
    PROVE  RunInv(r)'
<1>1. BeganBefore(r)'
  BY Typed DEF IInv, TypeOK, BeganBefore, NotBegun, Nothing
<1>. QED BY <1>1 DEF RunInv, ProductsRead, OrdersRead, ListedFresh, Working

-----------------------------------------------------------------------------
(* The theorems.                                                           *)

LEMMA InitIInv == Init => IInv
<1>. SUFFICES ASSUME Init PROVE IInv
  OBVIOUS
<1>1. TypeOK /\ VersionsCount
  BY InitTyped
<1>2. ASSUME NEW r \in Runs PROVE RunInv(r)
  <2>1. pc[r] = "idle" /\ page[r] = 1 /\ began[r] = NotBegun
    BY <1>2 DEF Init
  <2>2. BeganBefore(r)
    BY <1>1, <2>1, Typed DEF TypeOK, BeganBefore, NotBegun, Nothing
  <2>. QED BY <2>1, <2>2 DEF RunInv, ProductsRead, OrdersRead, ListedFresh, Working
<1>. QED BY <1>1, <1>2 DEF IInv

LEMMA NextIInv == ASSUME IInv, [Next]_vars PROVE IInv'
<1>. SUFFICES TypeOK' /\ VersionsCount' /\ \A r \in Runs : RunInv(r)'
  BY DEF IInv
<1>1. CASE \/ \E s \in Skus : ChangeStock(s) \/ FetchVariant(s) \/ WriteVariant(s)
           \/ \E u \in updates : HandleProductUpdate(u[1], u[2])
           \/ \E o \in Orders : PlaceOrder(o) \/ HandleOrderCreate(o)
           \/ Age
  BY <1>1, WorldTyped, WorldInv DEF IInv
\* Steps that are none of any run.
<1>2. ASSUME UNCHANGED <<shopify, database, run, crossed>>, TypeOK', VersionsCount'
      PROVE  \A r \in Runs : RunInv(r)'
  <2>1. Grows
    <3>1. Len(placed) \in Nat /\ aged \in Nat
      BY Typed DEF IInv
    <3>. QED BY <1>2, <3>1 DEF Grows, shopify, database, IInv, TypeOK, Stocks
  <2>2. ASSUME NEW r \in Runs PROVE Rests(r) /\ StaysFresh(r)
    BY <1>2, SameStaysFresh DEF Rests, run, database
  <2>. QED BY <1>2, <2>1, <2>2, RestsInv DEF IInv
<1>3. ASSUME NEW t \in Tasks, Request(t) \/ Ask(t)
      PROVE  TypeOK' /\ VersionsCount' /\ \A r \in Runs : RunInv(r)'
  <2>1. UNCHANGED <<shopify, database, run, crossed>>
    BY <1>3 DEF Request, Ask
  <2>. QED BY <1>2, <1>3, <2>1, ClientTyped DEF IInv
<1>4. ASSUME (\E r \in Runs : StartDirect(r)) \/ StartQueued
      PROVE  TypeOK' /\ VersionsCount' /\ \A r \in Runs : RunInv(r)'
  <2>1. TypeOK' /\ VersionsCount'
    BY <1>4, StartTyped DEF IInv
  <2>2. PICK r \in Runs : Started(r)
    <3>1. StartQueued => Head(queue) \in Tasks /\ Tasks \subseteq Runs
      BY HeadTailProperties, SalesSyncAssumption
         DEF StartQueued, Begin, IInv, TypeOK, QueueTypeOK
    <3>. QED BY <1>4, <3>1 DEF StartQueued, StartDirect
  <2>3. \A q \in Runs : RunInv(q)'
    BY <2>1, <2>2, StartedInv, OthersInv
  <2>. QED BY <2>1, <2>3
<1>5. ASSUME NEW r \in Runs, Step(r)
      PROVE  TypeOK' /\ VersionsCount' /\ \A q \in Runs : RunInv(q)'
  <2>1. TypeOK' /\ VersionsCount'
    BY <1>5, ProceedTyped, EndTyped DEF IInv, Step
  <2>2. RunInv(r)'
    <3>1. CASE Finish(r) \/ FailRun(r)
      <4>1. Over(r)
        BY <3>1 DEF Finish, FailRun
      <4>2. /\ pc'[r] \notin Working /\ page'[r] = 1 /\ began'[r] = NotBegun
            /\ UNCHANGED version
        BY <4>1 DEF Over, Working, IInv, TypeOK, shopify
      <4>. QED BY <4>2, OverInv
    <3>. QED BY <1>5, <3>1, FetchProductsInv, WriteProductsInv, FetchOrdersInv,
                WriteOrdersInv, ListInv DEF Step
  <2>. QED BY <1>5, <2>1, <2>2, OthersInv
<1>6. CASE Restart
  <2>1. TypeOK' /\ VersionsCount'
    BY <1>6, RestartTyped DEF IInv
  <2>2. ASSUME NEW r \in Runs PROVE RunInv(r)'
    <3>1. /\ pc'[r] \notin Working /\ page'[r] = 1 /\ began'[r] = NotBegun
          /\ UNCHANGED version
      BY <1>6 DEF Restart, Working, shopify
    <3>. QED BY <3>1, OverInv
  <2>. QED BY <2>1, <2>2
<1>7. CASE UNCHANGED vars
  <2>1. TypeOK' /\ VersionsCount'
    BY <1>7 DEF IInv, TypeOK, QueueTypeOK, VersionsCount, vars, taskQueue, shopify,
                deliveries, database, run
  <2>. QED BY <1>2, <1>7, <2>1 DEF vars
<1>. QED BY <1>1, <1>3, <1>4, <1>5, <1>6, <1>7 DEF Next

THEOREM Invariance == Spec => []IInv
BY InitIInv, NextIInv, PTL DEF Spec

\* The state is of its type in every behaviour; above all, the task the worker runs is
\* the one queued run that is at work, however runs fail, end or are lost.
THEOREM TypeCorrect == Spec => []TypeOK
<1>1. IInv => TypeOK
  BY DEF IInv
<1>. QED BY Invariance, <1>1, PTL

\* For any catalog and any number of runs and webhooks: a run goes by stock no older
\* than when it began, or overtaken since, for every SKU that some page lists
\* (sync_products_and_inventory).
THEOREM RunsSeeFreshStock == Spec => []RunSeesFreshStock
<1>1. IInv => RunSeesFreshStock
  BY DEF IInv, RunInv, ListedFresh, RunSeesFreshStock
<1>. QED BY Invariance, <1>1, PTL

\* For any size of the pages and however many orders are placed or grow old meanwhile: a
\* run goes by sales that contain every order of before it began that is still within the
\* days asked for, among the lines asked for and of a listed SKU (sync_sales_history).
THEOREM RunsCountOrders == Spec => []RunCountsOrders
<1>1. IInv => RunCountsOrders
  BY DEF IInv, RunInv, OrdersRead, RunCountsOrders
<1>. QED BY Invariance, <1>1, PTL

-----------------------------------------------------------------------------
(* The results of the tasks.                                               *)

\* What the task queue does to the results.
LEMMA QueueKeeps ==
    ASSUME QueueTypeOK, NEW t \in Tasks,
           Enqueue(t) \/ Begin \/ Succeed(t) \/ Break(t) \/ Poll(t) \/ Vanish
    PROVE  KeepsResults
<1>0. /\ results \in Seq(Tasks) /\ Len(results) \in Nat
      /\ DOMAIN results = 1..Len(results)
      /\ MaxResults \in Nat \ {0}
      /\ \A i \in 1..Len(results) : results[i] \in Kept
  BY LenProperties, TaskQueueAssumption DEF QueueTypeOK, Kept, ToSet
<1>1. CASE Enqueue(t) \/ Begin
  BY <1>0, <1>1 DEF Enqueue, Begin, KeepsResults, Kept
\* The result of the task is added, and at most the oldest makes room for it.
<1>. DEFINE kept == Append(results, t)
<1>2. /\ kept \in Seq(Tasks) /\ Len(kept) = Len(results) + 1
      /\ ToSet(kept) = Kept \cup {t}
      /\ \A i \in 1..Len(results) : kept[i] = results[i]
      /\ kept[Len(results) + 1] = t
  BY <1>0, Appended, AppendProperties DEF Kept
<1>. HIDE DEF kept
<1>3. CASE Break(t)
  BY <1>0, <1>2, <1>3 DEF Break, KeepsResults, Kept, kept
<1>4. CASE Succeed(t)
  <2>1. results' = Trimmed(kept) /\ current = t
    BY <1>4 DEF Succeed, kept
  <2>2. CASE Len(kept) <= MaxResults
    <3>1. Kept' = Kept \cup {t}
      BY <1>2, <2>1, <2>2, TrimmedKeeps DEF Kept
    <3>. QED BY <1>0, <2>1, <3>1 DEF KeepsResults
  <2>3. CASE Len(kept) > MaxResults
    <3>0. /\ Len(Trimmed(kept)) = Len(kept) - 1
          /\ \A i \in 2..Len(kept) : kept[i] \in ToSet(Trimmed(kept))
      BY <1>2, <2>3, TrimmedKeeps
    <3>1. /\ Len(results') = Len(results)
          /\ \A i \in 2..Len(kept) : kept[i] \in Kept'
      BY <1>0, <1>2, <2>1, <3>0 DEF Kept
    <3>2. current \in Kept'
      <4>1. Len(results) + 1 \in 2..Len(kept)
        BY <1>0, <1>2, <2>3
      <4>. QED BY <1>2, <2>1, <3>1, <4>1
    <3>3. ASSUME NEW i \in 1..Len(results)
          PROVE  \/ results[i] \in Kept'
                 \/ /\ Len(results') >= MaxResults
                    /\ \A j \in 1..i : results[j] \notin Kept'
      <4>1. CASE i = 1
        <5>1. Len(results') >= MaxResults
          BY <1>0, <1>2, <2>3, <3>1
        <5>. QED BY <4>1, <5>1
      <4>2. CASE i # 1
        <5>1. i \in 2..Len(kept)
          BY <1>0, <1>2, <4>2
        <5>. QED BY <1>2, <3>1, <5>1
      <4>. QED BY <4>1, <4>2
    <3>. QED BY <3>2, <3>3 DEF KeepsResults
  <2>. QED BY <1>0, <1>2, <2>2, <2>3
<1>5. CASE Poll(t)
  <2>1. PICK k \in 1..Len(results) : results[k] = t /\ results' = RemoveAt(results, k)
    BY <1>5 DEF Poll
  <2>2. /\ results' \in Seq(Tasks)
        /\ Len(results') = Len(results) - 1
        /\ \A j \in 1..Len(results) - 1 :
              results'[j] = IF j < k THEN results[j] ELSE results[j + 1]
    BY <1>0, <2>1, Removed
  <2>3. DOMAIN results' = 1..Len(results) - 1
    BY <2>2, LenProperties
  <2>4. ASSUME NEW i \in 1..Len(results), i # k PROVE results[i] \in Kept'
    <3>1. CASE i < k
      <4>1. i \in 1..Len(results) - 1 /\ results'[i] = results[i]
        BY <1>0, <2>1, <2>2, <3>1
      <4>. QED BY <2>3, <4>1 DEF Kept, ToSet
    <3>2. CASE ~(i < k)
      <4>1. i - 1 \in 1..Len(results) - 1 /\ ~(i - 1 < k) /\ (i - 1) + 1 = i
        BY <1>0, <2>1, <2>4, <3>2
      <4>2. results'[i - 1] = results[i]
        BY <2>2, <4>1
      <4>. QED BY <2>3, <4>1, <4>2 DEF Kept, ToSet
    <3>. QED BY <3>1, <3>2
  <2>5. current' = current
    BY <1>5 DEF Poll
  <2>. QED BY <1>5, <2>1, <2>4, <2>5 DEF KeepsResults
<1>6. CASE Vanish
  BY <1>6 DEF KeepsResults
<1>. QED BY <1>1, <1>3, <1>4, <1>5, <1>6

\* For any number of tasks and any limit of the store: no task ends without a result,
\* and a result goes only when it is read, by a restart, or as the oldest of a full
\* store (BackgroundTaskQueue).
THEOREM ResultsAreKept == Spec => ResultKept
<1>1. ASSUME TypeOK, [Next]_vars PROVE [KeepsResults]_taskQueue
  <2>. SUFFICES ASSUME ~UNCHANGED taskQueue PROVE KeepsResults
    OBVIOUS
  <2>1. QueueTypeOK
    BY <1>1 DEF TypeOK
  <2>2. CASE Vanish
    BY <2>2 DEF KeepsResults
  <2>3. CASE ~Vanish
    <3>1. \E t \in Tasks : Enqueue(t) \/ Begin \/ Succeed(t) \/ Break(t) \/ Poll(t)
      <4>1. StartQueued => \E t \in Tasks : Begin
        BY <2>1, HeadTailProperties DEF StartQueued, Begin, QueueTypeOK
      <4>2. ASSUME NEW r \in Runs, Step(r)
            PROVE  \E t \in Tasks : Succeed(t) \/ Break(t)
        BY <4>2 DEF Step, FetchProducts, WriteProducts, FetchOrders, WriteOrders, List,
                    Finish, FailRun
      <4>. QED BY <1>1, <2>3, <4>1, <4>2
               DEF Next, vars, ChangeStock, FetchVariant, WriteVariant,
                   HandleProductUpdate, PlaceOrder, HandleOrderCreate, Age, Request, Ask,
                   StartDirect, Restart
    <3>. QED BY <2>1, <3>1, QueueKeeps
  <2>. QED BY <2>2, <2>3
<1>. QED BY TypeCorrect, <1>1, PTL DEF Spec, ResultKept
=============================================================================
