--------------------------- MODULE WebhooksProofs ---------------------------
(***************************************************************************)
(* Theorems about Webhooks.tla, for any number of events and deliveries,   *)
(* any cache and any number of restarts: what is taken for processed has   *)
(* been handled, no failed delivery is forgotten before its event was, and *)
(* no event is handled for a delivery that comes after another one was     *)
(* answered with "ok".                                                     *)
(***************************************************************************)
EXTENDS Webhooks, SequenceTheorems, TLAPS

\* The job is at a row, and only then does it have one; the rows it has read exist
\* and have retries left until it comes to them, as nothing else changes them.
HasRetries(d) == failed[d] # None /\ failed[d] < MaxRetries

JobAtRow ==
    /\ phase # "next" => row \in Deliveries /\ HasRetries(row) /\ row \notin todo
    /\ \A d \in todo : HasRetries(d)

\* A row is deleted only after its event has been handled.
DeleteIsSafe == phase = "delete" => applied[EventOf[row]] > 0

\* What was answered with "ok" is in the database, also for who comes late.
OkIsRecorded == \A d \in Deliveries : pc[d] = "ok" => EventOf[d] \in events
LateIsRecorded == \A d \in late : EventOf[d] \in events

\* An event is remembered and recorded by handlers that have handled it.
HandledFirst ==
    \A d \in Deliveries : pc[d] \in {"remember", "record"} => applied[EventOf[d]] > 0

IInv ==
    /\ TypeOK /\ JobAtRow /\ DeleteIsSafe /\ FailureIsKept
    /\ HandledFirst /\ ProcessedIsApplied
    /\ OkIsRecorded /\ LateIsRecorded /\ OkIsRemembered

-----------------------------------------------------------------------------
(* The cache of event ids.                                                 *)

\* What is left of a sequence when one element is taken out.
LEMMA Removed ==
    ASSUME NEW S, NEW s \in Seq(S), NEW i \in 1..Len(s)
    PROVE  /\ RemoveAt(s, i) \in Seq(S)
           /\ Len(RemoveAt(s, i)) = Len(s) - 1
           /\ \A j \in 1..Len(s) - 1 :
                 RemoveAt(s, i)[j] = IF j < i THEN s[j] ELSE s[j + 1]
<1>. DEFINE left  == SubSeq(s, 1, i - 1)
            right == SubSeq(s, i + 1, Len(s))
<1>0. Len(s) \in Nat /\ \A j \in 1..Len(s) : s[j] \in S
  BY LenProperties, ElementOfSeq
<1>1. /\ left \in Seq(S) /\ Len(left) = i - 1
      /\ \A j \in 1..i - 1 : left[j] = s[j]
  <2>1. \A j \in 1..i - 1 : s[j] \in S
    BY <1>0
  <2>2. /\ SubSeq(s, 1, i - 1) \in Seq(S)
        /\ Len(SubSeq(s, 1, i - 1)) = IF 1 <= i - 1 THEN i - 1 - 1 + 1 ELSE 0
        /\ \A j \in 1..i - 1 - 1 + 1 : SubSeq(s, 1, i - 1)[j] = s[1 + j - 1]
    BY <2>1, SubSeqProperties
  <2>. QED BY <2>2
<1>2. /\ right \in Seq(S) /\ Len(right) = Len(s) - i
      /\ \A j \in 1..Len(s) - i : right[j] = s[i + j]
  <2>1. \A j \in i + 1..Len(s) : s[j] \in S
    BY <1>0
  <2>2. /\ SubSeq(s, i + 1, Len(s)) \in Seq(S)
        /\ Len(SubSeq(s, i + 1, Len(s)))
              = IF i + 1 <= Len(s) THEN Len(s) - (i + 1) + 1 ELSE 0
        /\ \A j \in 1..Len(s) - (i + 1) + 1 :
              SubSeq(s, i + 1, Len(s))[j] = s[i + 1 + j - 1]
    BY <1>0, <2>1, SubSeqProperties
  <2>. QED BY <1>0, <2>2
<1>3. /\ left \o right \in Seq(S)
      /\ Len(left \o right) = Len(left) + Len(right)
      /\ \A j \in 1..Len(left) + Len(right) :
            (left \o right)[j] = IF j <= Len(left) THEN left[j] ELSE right[j - Len(left)]
  BY <1>1, <1>2, ConcatProperties
<1>4. RemoveAt(s, i) = left \o right
  BY DEF RemoveAt
<1>. HIDE DEF left, right
<1>5. Len(left \o right) = Len(s) - 1
  BY <1>0, <1>1, <1>2, <1>3
<1>6. ASSUME NEW j \in 1..Len(s) - 1
      PROVE  (left \o right)[j] = IF j < i THEN s[j] ELSE s[j + 1]
  <2>1. CASE j < i
    BY <1>0, <1>1, <1>2, <1>3, <2>1
  <2>2. CASE ~(j < i)
    <3>1. j - Len(left) \in 1..Len(s) - i /\ i + (j - Len(left)) = j + 1
      BY <1>0, <1>1, <2>2
    <3>2. (left \o right)[j] = right[j - Len(left)]
      BY <1>0, <1>1, <1>2, <1>3, <2>2
    <3>. QED BY <1>2, <2>2, <3>1, <3>2
  <2>. QED BY <2>1, <2>2
<1>. QED BY <1>3, <1>4, <1>5, <1>6

\* What a sequence is when an element has been added.
LEMMA Appended ==
    ASSUME NEW S, NEW s \in Seq(S), NEW e \in S
    PROVE  /\ Append(s, e) \in Seq(S)
           /\ Len(Append(s, e)) = Len(s) + 1
           /\ ToSet(Append(s, e)) = ToSet(s) \cup {e}
<1>1. /\ Append(s, e) \in Seq(S)
      /\ Len(Append(s, e)) = Len(s) + 1
      /\ \A i \in 1..Len(s) : Append(s, e)[i] = s[i]
      /\ Append(s, e)[Len(s) + 1] = e
  BY AppendProperties
<1>2. DOMAIN s = 1..Len(s) /\ DOMAIN Append(s, e) = 1..Len(s) + 1 /\ Len(s) \in Nat
  BY <1>1, LenProperties
<1>. QED BY <1>1, <1>2 DEF ToSet

LEMMA Remembered ==
    ASSUME recent \in Seq(Events), Len(recent) <= CacheSize, NEW e \in Events
    PROVE  /\ Remembering(e) \in Seq(Events)
           /\ Len(Remembering(e)) <= CacheSize
           /\ ToSet(Remembering(e)) \subseteq Cached \cup {e}
<1>0. /\ Len(recent) \in Nat
      /\ DOMAIN recent = 1..Len(recent)
      /\ CacheSize \in Nat \ {0}
  BY LenProperties, WebhooksAssumption
\* The rest of the cache, with room for the event.
<1>1. PICK room : /\ Remembering(e) = Append(room, e)
                  /\ room \in Seq(Events)
                  /\ Len(room) < CacheSize
                  /\ ToSet(room) \subseteq Cached
  <2>1. CASE e \in Cached
    <3>0. PositionOf(e) \in 1..Len(recent)
      <4>1. \E i \in 1..Len(recent) : recent[i] = e
        BY <1>0, <2>1 DEF Cached, ToSet
      <4>. QED BY <4>1 DEF PositionOf
    <3>. DEFINE room == RemoveAt(recent, PositionOf(e))
    <3>1. /\ room \in Seq(Events)
          /\ Len(room) = Len(recent) - 1
          /\ \A j \in 1..Len(recent) - 1 :
                room[j] = IF j < PositionOf(e) THEN recent[j] ELSE recent[j + 1]
      BY <3>0, Removed
    <3>2. DOMAIN room = 1..Len(room)
      BY <3>1, LenProperties
    <3>3. Remembering(e) = Append(room, e)
      BY <2>1 DEF Remembering
    <3>. HIDE DEF room
    <3>4. ASSUME NEW j \in 1..Len(room)
          PROVE  \E k \in 1..Len(recent) : room[j] = recent[k]
      BY <1>0, <3>0, <3>1
    <3>5. ToSet(room) \subseteq Cached
      BY <1>0, <3>2, <3>4 DEF ToSet, Cached
    <3>. QED BY <1>0, <3>1, <3>3, <3>5
  <2>2. CASE e \notin Cached /\ Len(recent) < CacheSize
    BY <2>2 DEF Remembering, Cached
  <2>3. CASE e \notin Cached /\ ~(Len(recent) < CacheSize)
    <3>1. recent # << >>
      BY <1>0, <2>3, EmptySeq
    <3>2. /\ Tail(recent) \in Seq(Events)
          /\ Len(Tail(recent)) = Len(recent) - 1
          /\ \A i \in 1..Len(Tail(recent)) : Tail(recent)[i] = recent[i + 1]
      BY <3>1, HeadTailProperties
    <3>3. DOMAIN Tail(recent) = 1..Len(Tail(recent))
      BY <3>2, LenProperties
    <3>4. ToSet(Tail(recent)) \subseteq Cached
      BY <1>0, <3>2, <3>3 DEF ToSet, Cached
    <3>5. Remembering(e) = Append(Tail(recent), e)
      BY <2>3 DEF Remembering
    <3>6. Len(Tail(recent)) < CacheSize
      BY <1>0, <3>2
    <3>. QED BY <3>2, <3>4, <3>5, <3>6
  <2>. QED BY <2>1, <2>2, <2>3
<1>. QED BY <1>0, <1>1, Appended
-----------------------------------------------------------------------------
(* The steps.                                                              *)

LEMMA InitIInv == Init => IInv
<1>. SUFFICES ASSUME Init PROVE IInv
  OBVIOUS
<1>1. recent \in Seq(Events) /\ Len(recent) = 0 /\ Cached = {}
  <2>1. recent = << >> /\ << >> \in Seq(Events) /\ Len(<< >>) = 0
    BY EmptySeq DEF Init
  <2>2. DOMAIN recent = 1..Len(recent)
    BY <2>1, LenProperties
  <2>. QED BY <2>1, <2>2 DEF Cached, ToSet
<1>2. TypeOK
  BY <1>1, WebhooksAssumption DEF Init, TypeOK, Answered, Working
<1>3. HandledFirst /\ ProcessedIsApplied
  BY <1>1 DEF Init, HandledFirst, ProcessedIsApplied
<1>. QED BY <1>2, <1>3
         DEF Init, IInv, JobAtRow, DeleteIsSafe, FailureIsKept, OkIsRecorded,
             LateIsRecorded, OkIsRemembered

\* The steps of a delivery other than its arrival.
Proceeds(d) ==
    \/ Duplicate(d) \/ Fresh(d) \/ Handle(d) \/ HandleFails(d)
    \/ Enqueue(d) \/ Remember(d) \/ Record(d) \/ Fail(d)

\* Such a step moves a handler that is at work, and leaves the job alone.
LEMMA ProceedsMoves ==
    ASSUME TypeOK, NEW d \in Deliveries, Proceeds(d)
    PROVE  /\ pc[d] \in Working
           /\ \E to \in Working \cup Answered : pc' = [pc EXCEPT ![d] = to]
           /\ UNCHANGED <<due, todo, row, phase, late, outages>>
BY DEF Proceeds, Duplicate, Fresh, Handle, HandleFails, Enqueue, Remember, Record,
       Fail, Move, TypeOK, Working, Answered, job

\* What is applied, recorded or kept for a retry is never taken back by it.
LEMMA ProceedsKeeps ==
    ASSUME TypeOK, NEW d \in Deliveries, Proceeds(d)
    PROVE  /\ applied' \in [Events -> Nat]
           /\ \A e \in Events : applied'[e] >= applied[e]
           /\ events \subseteq events' /\ events' \subseteq Events
           /\ failed' \in [Deliveries -> 0..MaxRetries \cup {None}]
           /\ \A q \in Deliveries : failed[q] # None => failed'[q] # None
           /\ \A q \in Deliveries : HasRetries(q) => HasRetries(q)'
           /\ recent' \in Seq(Events) /\ Len(recent') <= CacheSize
<1>. USE DEF HasRetries
<1>1. EventOf[d] \in Events
  BY WebhooksAssumption
<1>2. CASE Handle(d)
  BY <1>1, <1>2 DEF Handle, Apply, TypeOK
<1>3. CASE Enqueue(d)
  BY <1>3, WebhooksAssumption DEF Enqueue, TypeOK
<1>4. CASE Record(d)
  BY <1>1, <1>4 DEF Record, TypeOK
<1>5. CASE Remember(d)
  <2>1. UNCHANGED database /\ recent' = Remembering(EventOf[d])
    BY <1>5 DEF Remember
  <2>. QED BY <1>1, <2>1, Remembered DEF database, TypeOK
<1>6. CASE Duplicate(d) \/ Fresh(d) \/ HandleFails(d) \/ Fail(d)
  BY <1>6 DEF Duplicate, Fresh, HandleFails, Fail, database, TypeOK
<1>. QED BY <1>2, <1>3, <1>4, <1>5, <1>6 DEF Proceeds

LEMMA ProceedsIInv ==
    ASSUME IInv, NEW d \in Deliveries, Proceeds(d)
    PROVE  IInv'
<1>. USE DEF IInv
<1>1. PICK to \in Working \cup Answered : pc' = [pc EXCEPT ![d] = to]
  BY ProceedsMoves
<1>2. pc[d] \in Working /\ pc[d] \notin Answered
  BY ProceedsMoves DEF Working, Answered
<1>3. UNCHANGED <<due, todo, row, phase, late, outages>>
  BY ProceedsMoves
<1>4. /\ applied' \in [Events -> Nat]
      /\ \A e \in Events : applied'[e] >= applied[e]
      /\ events \subseteq events' /\ events' \subseteq Events
      /\ failed' \in [Deliveries -> 0..MaxRetries \cup {None}]
      /\ \A q \in Deliveries : failed[q] # None => failed'[q] # None
      /\ \A q \in Deliveries : HasRetries(q) => HasRetries(q)'
      /\ recent' \in Seq(Events) /\ Len(recent') <= CacheSize
  BY ProceedsKeeps
<1>5. pc' \in [Deliveries -> {"idle"} \cup Working \cup Answered]
  BY <1>1 DEF TypeOK
<1>6. TypeOK'
  BY <1>3, <1>4, <1>5 DEF TypeOK
<1>7. JobAtRow'
  BY <1>3, <1>4 DEF JobAtRow, TypeOK
<1>8. DeleteIsSafe'
  <2>1. ASSUME phase' = "delete" PROVE row \in Deliveries /\ EventOf[row] \in Events
    BY <1>3, <2>1, WebhooksAssumption DEF JobAtRow
  <2>. QED BY <1>3, <1>4, <2>1 DEF DeleteIsSafe, TypeOK
<1>9. FailureIsKept'
  <2>. SUFFICES ASSUME NEW q \in Deliveries, pc'[q] = "queued"
                PROVE  failed'[q] # None \/ applied'[EventOf[q]] > 0
    BY DEF FailureIsKept
  <2>0. EventOf[q] \in Events
    BY WebhooksAssumption
  <2>1. CASE pc[q] = "queued"
    BY <1>4, <2>0, <2>1 DEF FailureIsKept, TypeOK
  <2>2. CASE pc[q] # "queued"
    <3>1. q = d /\ to = "queued"
      BY <1>1, <2>2 DEF TypeOK
    <3>2. Enqueue(d)
      BY <3>1 DEF Proceeds, Duplicate, Fresh, Handle, HandleFails, Enqueue, Remember,
                  Record, Fail, Move, TypeOK
    <3>. QED BY <3>1, <3>2, WebhooksAssumption DEF Enqueue, TypeOK
  <2>. QED BY <2>1, <2>2
<1>10. OkIsRecorded'
  <2>. SUFFICES ASSUME NEW q \in Deliveries, pc'[q] = "ok"
                PROVE  EventOf[q] \in events'
    BY DEF OkIsRecorded
  <2>1. CASE pc[q] = "ok"
    BY <1>4, <2>1 DEF OkIsRecorded
  <2>2. CASE pc[q] # "ok"
    <3>1. q = d /\ to = "ok"
      BY <1>1, <2>2 DEF TypeOK
    <3>2. Record(d)
      BY <3>1 DEF Proceeds, Duplicate, Fresh, Handle, HandleFails, Enqueue, Remember,
                  Record, Fail, Move, TypeOK
    <3>. QED BY <3>1, <3>2 DEF Record
  <2>. QED BY <2>1, <2>2
<1>11. LateIsRecorded'
  BY <1>3, <1>4 DEF LateIsRecorded
<1>12. OkIsRemembered'
  <2>. SUFFICES ASSUME NEW c \in late
                PROVE  pc'[c] \notin {"handle", "remember", "record", "enqueue",
                                      "queued", "ok"}
    BY <1>3 DEF OkIsRemembered
  <2>1. /\ pc[c] \notin {"handle", "remember", "record", "enqueue", "queued", "ok"}
        /\ EventOf[c] \in events
    BY DEF OkIsRemembered, LateIsRecorded
  <2>2. CASE c # d
    BY <1>1, <2>1, <2>2 DEF TypeOK
  <2>3. CASE c = d
    <3>1. Duplicate(d) \/ Fail(d)
      BY <2>1, <2>3 DEF Proceeds, Duplicate, Fresh, Handle, HandleFails, Enqueue,
                        Remember, Record, Fail, Move
    <3>. QED BY <2>3, <3>1 DEF Duplicate, Fail, Move, TypeOK
  <2>. QED BY <2>2, <2>3
\* Who is told apart below took this very step.
<1>13. ASSUME NEW to2 \in {"remember", "record", "ok", "ignored"}, pc'[d] = to2
       PROVE  \/ to2 = "remember" /\ Handle(d)
              \/ to2 = "record" /\ Remember(d)
              \/ to2 = "ok" /\ Record(d)
              \/ to2 = "ignored" /\ Duplicate(d)
  BY <1>13 DEF Proceeds, Duplicate, Fresh, Handle, HandleFails, Enqueue, Remember,
               Record, Fail, Move, TypeOK
<1>14. EventOf[d] \in Events
  BY WebhooksAssumption
<1>15. HandledFirst'
  <2>. SUFFICES ASSUME NEW q \in Deliveries, pc'[q] \in {"remember", "record"}
                PROVE  applied'[EventOf[q]] > 0
    BY DEF HandledFirst
  <2>0. EventOf[q] \in Events
    BY WebhooksAssumption
  <2>1. CASE q # d
    BY <1>1, <1>4, <2>0, <2>1 DEF HandledFirst, TypeOK
  <2>2. CASE q = d
    <3>1. Handle(d) \/ Remember(d)
      BY <1>13, <2>2
    <3>2. CASE Handle(d)
      BY <1>14, <2>2, <3>2 DEF Handle, Apply, TypeOK
    <3>3. CASE Remember(d)
      BY <1>4, <1>14, <2>2, <3>3 DEF Remember, Move, HandledFirst, TypeOK
    <3>. QED BY <3>1, <3>2, <3>3
  <2>. QED BY <2>1, <2>2
<1>16. ASSUME NEW q \in Deliveries, pc'[q] \in {"ok", "ignored"}
       PROVE  applied'[EventOf[q]] > 0
  <2>0. EventOf[q] \in Events
    BY WebhooksAssumption
  <2>1. CASE q # d
    BY <1>1, <1>4, <1>16, <2>0, <2>1 DEF ProcessedIsApplied, TypeOK
  <2>2. CASE q = d
    <3>1. Record(d) \/ Duplicate(d)
      BY <1>13, <1>16, <2>2
    <3>2. applied[EventOf[d]] > 0
      BY <3>1 DEF Record, Duplicate, Move, HandledFirst, ProcessedIsApplied
    <3>. QED BY <1>4, <1>14, <2>2, <3>2 DEF TypeOK
  <2>. QED BY <2>1, <2>2
<1>17. ASSUME NEW e \in events' \cup Cached'
       PROVE  applied'[e] > 0
  <2>1. CASE e \in events \cup Cached
    <3>1. e \in Events /\ applied[e] > 0
      BY <2>1, ElementOfSeq, LenProperties DEF ProcessedIsApplied, TypeOK, Cached, ToSet
    <3>. QED BY <1>4, <3>1 DEF TypeOK
  <2>2. CASE e \notin events \cup Cached
    <3>1. \/ Record(d) /\ e = EventOf[d]
          \/ Remember(d) /\ e = EventOf[d]
      <4>1. CASE Remember(d)
        BY <1>14, <1>17, <2>2, <4>1, Remembered DEF Remember, database, TypeOK, Cached
      <4>2. CASE ~Remember(d)
        <5>1. recent' = recent /\ (events' = events \/ Record(d))
          BY <4>2 DEF Proceeds, Duplicate, Fresh, Handle, HandleFails, Enqueue, Record,
                      Fail, database
        <5>. QED BY <1>17, <2>2, <5>1 DEF Record, Cached
      <4>. QED BY <4>1, <4>2
    <3>2. applied[EventOf[d]] > 0
      BY <3>1 DEF Record, Remember, Move, HandledFirst
    <3>. QED BY <1>4, <1>14, <3>1, <3>2 DEF TypeOK
  <2>. QED BY <2>1, <2>2
<1>18. ProcessedIsApplied'
  BY <1>16, <1>17 DEF ProcessedIsApplied
<1>. QED BY <1>6, <1>7, <1>8, <1>9, <1>10, <1>11, <1>12, <1>15, <1>18

\* A delivery arrives: whether its event was answered with "ok" is kept in late.
LEMMA ArriveIInv ==
    ASSUME IInv, NEW d \in Deliveries, Arrive(d)
    PROVE  IInv'
<1>. USE DEF IInv
<1>1. PICK to \in {"ignored", "lookup"} : pc[d] = "idle" /\ pc' = [pc EXCEPT ![d] = to]
  BY DEF Arrive, Move
<1>2. late' = late \cup
         {c \in {d} : \E q \in Deliveries : EventOf[q] = EventOf[c] /\ pc[q] = "ok"}
  BY DEF Arrive
<1>3. UNCHANGED <<database, recent, due, job, outages>>
  BY DEF Arrive
<1>4. TypeOK'
  BY <1>1, <1>2, <1>3 DEF TypeOK, database, job, Working, Answered
<1>5. JobAtRow' /\ DeleteIsSafe'
  BY <1>3 DEF JobAtRow, HasRetries, DeleteIsSafe, database, job
<1>6. FailureIsKept' /\ OkIsRecorded'
  BY <1>1, <1>3 DEF FailureIsKept, OkIsRecorded, database, TypeOK
<1>8. LateIsRecorded'
  BY <1>2, <1>3 DEF LateIsRecorded, OkIsRecorded, database
<1>9. OkIsRemembered'
  BY <1>1, <1>2 DEF OkIsRemembered, TypeOK
<1>10. HandledFirst'
  BY <1>1, <1>3 DEF HandledFirst, database, TypeOK
<1>11. ProcessedIsApplied'
  <2>1. to = "ignored" => applied[EventOf[d]] > 0
    <3>1. to = "ignored" => EventOf[d] \in Cached
      BY <1>1 DEF Arrive, Move, TypeOK
    <3>. QED BY <3>1 DEF ProcessedIsApplied
  <2>. QED BY <1>1, <1>3, <2>1 DEF ProcessedIsApplied, database, Cached, TypeOK
<1>. QED BY <1>4, <1>5, <1>6, <1>8, <1>9, <1>10, <1>11

\* A step that leaves deliveries alone and takes back nothing that was applied keeps
\* what was said of their answers.
DeliveriesIdle ==
    /\ UNCHANGED <<events, recent, pc, late>>
    /\ applied' \in [Events -> Nat]
    /\ \A e \in Events : applied'[e] >= applied[e]

LEMMA AnswersStay ==
    ASSUME IInv, DeliveriesIdle
    PROVE  /\ OkIsRecorded' /\ LateIsRecorded' /\ OkIsRemembered'
           /\ HandledFirst' /\ ProcessedIsApplied'
<1>. USE DEF IInv, DeliveriesIdle
<1>1. OkIsRecorded' /\ LateIsRecorded' /\ OkIsRemembered'
  BY DEF OkIsRecorded, LateIsRecorded, OkIsRemembered
<1>2. \A d \in Deliveries : EventOf[d] \in Events
  BY WebhooksAssumption
<1>3. \A e \in events \cup Cached : e \in Events
  BY ElementOfSeq, LenProperties DEF TypeOK, Cached, ToSet
<1>4. \A e \in Events : applied[e] > 0 => applied'[e] > 0
  BY DEF TypeOK
<1>5. HandledFirst'
  BY <1>2, <1>4 DEF HandledFirst
<1>6. ProcessedIsApplied'
  BY <1>2, <1>3, <1>4 DEF ProcessedIsApplied, Cached
<1>. QED BY <1>1, <1>5, <1>6

LEMMA FallDueIInv ==
    ASSUME IInv, NEW d \in Deliveries, FallDue(d)
    PROVE  IInv'
<1>1. /\ DeliveriesIdle /\ UNCHANGED <<applied, failed, todo, row, phase, outages>>
      /\ due' = due \cup {d}
  BY DEF FallDue, DeliveriesIdle, database, job, IInv, TypeOK
<1>2. /\ OkIsRecorded' /\ LateIsRecorded' /\ OkIsRemembered'
      /\ HandledFirst' /\ ProcessedIsApplied'
  BY <1>1, AnswersStay
<1>3. TypeOK' /\ JobAtRow' /\ DeleteIsSafe' /\ FailureIsKept'
  BY <1>1 DEF IInv, DeliveriesIdle, TypeOK, JobAtRow, HasRetries, DeleteIsSafe,
              FailureIsKept
<1>. QED BY <1>2, <1>3 DEF IInv

LEMMA SelectDueIInv ==
    ASSUME IInv, SelectDue
    PROVE  IInv'
<1>1. DeliveriesIdle /\ UNCHANGED <<applied, failed, due, row, phase, outages>>
  BY DEF SelectDue, DeliveriesIdle, database, IInv, TypeOK
<1>2. /\ OkIsRecorded' /\ LateIsRecorded' /\ OkIsRemembered'
      /\ HandledFirst' /\ ProcessedIsApplied'
  BY <1>1, AnswersStay
<1>3. row = None /\ None \notin Deliveries
  BY WebhooksAssumption DEF SelectDue
<1>4. phase = "next"
  BY <1>3 DEF IInv, JobAtRow
<1>5. todo' \subseteq Retryable
  BY DEF SelectDue
<1>6. \A d \in todo' : HasRetries(d)
  BY <1>5 DEF Retryable, HasRetries
<1>7. todo' \subseteq Deliveries
  <2>1. \A d \in todo' : d \in due
    BY <1>5 DEF Retryable
  <2>. QED BY <2>1 DEF IInv, TypeOK
<1>8. TypeOK'
  BY <1>1, <1>7 DEF IInv, TypeOK, DeliveriesIdle
<1>9. JobAtRow' /\ DeleteIsSafe' /\ FailureIsKept'
  BY <1>1, <1>4, <1>6
     DEF IInv, JobAtRow, HasRetries, DeleteIsSafe, FailureIsKept, DeliveriesIdle
<1>. QED BY <1>2, <1>8, <1>9 DEF IInv

\* The job handles the event of a row again, or fails to.
LEMMA TakeIInv ==
    ASSUME IInv, NEW d \in Deliveries, Retry(d) \/ RetryFails(d)
    PROVE  IInv'
<1>. USE DEF IInv
<1>0. EventOf[d] \in Events
  BY WebhooksAssumption
<1>1. UNCHANGED <<events, recent, pc, late, failed, due, outages>>
  BY DEF Retry, RetryFails, database
<1>3. d \in todo /\ todo' = todo \ {d} /\ row' = d
  BY DEF Retry, RetryFails, Take
<1>4. /\ applied' \in [Events -> Nat]
      /\ \A e \in Events : applied'[e] >= applied[e]
      /\ phase' = "delete" => applied'[EventOf[d]] > 0
      /\ phase' \in {"delete", "postpone"}
  <2>1. CASE Retry(d)
    BY <1>0, <2>1 DEF Retry, Apply, TypeOK
  <2>2. CASE RetryFails(d)
    BY <2>2 DEF RetryFails, database, TypeOK
  <2>. QED BY <2>1, <2>2
<1>2. /\ OkIsRecorded' /\ LateIsRecorded' /\ OkIsRemembered'
      /\ HandledFirst' /\ ProcessedIsApplied'
  BY <1>1, <1>4, AnswersStay DEF DeliveriesIdle
<1>6. TypeOK'
  BY <1>1, <1>3, <1>4 DEF TypeOK
<1>7. JobAtRow'
  BY <1>1, <1>3 DEF JobAtRow, HasRetries
<1>8. DeleteIsSafe'
  BY <1>3, <1>4 DEF DeleteIsSafe
<1>9. FailureIsKept'
  <2>. SUFFICES ASSUME NEW q \in Deliveries, pc[q] = "queued", failed[q] = None
                PROVE  applied'[EventOf[q]] > 0
    BY <1>1 DEF FailureIsKept
  <2>1. EventOf[q] \in Events /\ applied[EventOf[q]] > 0
    BY WebhooksAssumption DEF FailureIsKept
  <2>. QED BY <1>4, <2>1 DEF TypeOK
<1>. QED BY <1>2, <1>6, <1>7, <1>8, <1>9

\* The only step that removes a row.
LEMMA DeleteIInv ==
    ASSUME IInv, Delete
    PROVE  IInv'
<1>. USE DEF IInv
<1>1. DeliveriesIdle /\ UNCHANGED <<applied, todo, outages>>
  BY DEF Delete, DeliveriesIdle, TypeOK
<1>2. /\ OkIsRecorded' /\ LateIsRecorded' /\ OkIsRemembered'
      /\ HandledFirst' /\ ProcessedIsApplied'
  BY <1>1, AnswersStay
<1>3. phase = "delete" /\ phase' = "next" /\ row' = None
      /\ failed' = [failed EXCEPT ![row] = None] /\ due' = due \ {row}
  BY DEF Delete
<1>4. row \in Deliveries /\ row \notin todo /\ applied[EventOf[row]] > 0
  BY <1>3 DEF JobAtRow, DeleteIsSafe
<1>5. TypeOK'
  BY <1>1, <1>3 DEF TypeOK, DeliveriesIdle
<1>6. JobAtRow' /\ DeleteIsSafe'
  BY <1>1, <1>3, <1>4 DEF JobAtRow, HasRetries, DeleteIsSafe, TypeOK
<1>7. FailureIsKept'
  BY <1>1, <1>3, <1>4 DEF FailureIsKept, DeliveriesIdle, TypeOK
<1>. QED BY <1>2, <1>5, <1>6, <1>7

LEMMA PostponeIInv ==
    ASSUME IInv, Postpone
    PROVE  IInv'
<1>. USE DEF IInv
<1>1. DeliveriesIdle /\ UNCHANGED <<applied, todo, outages>>
  BY DEF Postpone, DeliveriesIdle, TypeOK
<1>2. /\ OkIsRecorded' /\ LateIsRecorded' /\ OkIsRemembered'
      /\ HandledFirst' /\ ProcessedIsApplied'
  BY <1>1, AnswersStay
<1>3. phase = "postpone" /\ phase' = "next" /\ row' = None
      /\ failed' = [failed EXCEPT ![row] = @ + 1] /\ due' = due \ {row}
  BY DEF Postpone
<1>4. /\ row \in Deliveries /\ row \notin todo
      /\ failed[row] \in Nat /\ failed[row] < MaxRetries /\ None \notin Nat
  BY <1>3, WebhooksAssumption DEF JobAtRow, HasRetries, TypeOK
<1>5. TypeOK'
  <2>1. failed[row] + 1 \in 0..MaxRetries
    BY <1>4, WebhooksAssumption
  <2>2. failed' \in [Deliveries -> 0..MaxRetries \cup {None}]
    BY <1>3, <2>1 DEF TypeOK
  <2>. QED BY <1>1, <1>3, <2>2 DEF TypeOK, DeliveriesIdle
<1>6. \A d \in Deliveries : failed[d] # None => failed'[d] # None
  BY <1>3, <1>4 DEF TypeOK
<1>7. JobAtRow' /\ DeleteIsSafe'
  BY <1>1, <1>3, <1>4 DEF JobAtRow, HasRetries, DeleteIsSafe, TypeOK
<1>8. FailureIsKept'
  BY <1>1, <1>6 DEF FailureIsKept, DeliveriesIdle
<1>. QED BY <1>2, <1>5, <1>7, <1>8

LEMMA DeleteFailsIInv ==
    ASSUME IInv, DeleteFails
    PROVE  IInv'
<1>1. /\ DeliveriesIdle /\ UNCHANGED <<applied, failed, due, todo, row, outages>>
      /\ phase = "delete" /\ phase' = "postpone"
  BY DEF DeleteFails, DeliveriesIdle, database, IInv, TypeOK
<1>2. /\ OkIsRecorded' /\ LateIsRecorded' /\ OkIsRemembered'
      /\ HandledFirst' /\ ProcessedIsApplied'
  BY <1>1, AnswersStay
<1>3. TypeOK' /\ JobAtRow' /\ DeleteIsSafe' /\ FailureIsKept'
  BY <1>1, WebhooksAssumption
     DEF IInv, DeliveriesIdle, TypeOK, JobAtRow, HasRetries, DeleteIsSafe, FailureIsKept
<1>. QED BY <1>2, <1>3 DEF IInv

LEMMA JobFailsIInv ==
    ASSUME IInv, JobFails
    PROVE  IInv'
<1>1. /\ DeliveriesIdle /\ UNCHANGED <<applied, failed, due>>
      /\ todo' = {} /\ row' = None /\ phase' = "next"
      /\ outages < MaxOutages /\ outages' = outages + 1
  BY DEF JobFails, DeliveriesIdle, database, IInv, TypeOK
<1>2. /\ OkIsRecorded' /\ LateIsRecorded' /\ OkIsRemembered'
      /\ HandledFirst' /\ ProcessedIsApplied'
  BY <1>1, AnswersStay
<1>3. TypeOK' /\ JobAtRow' /\ DeleteIsSafe' /\ FailureIsKept'
  BY <1>1, WebhooksAssumption
     DEF IInv, DeliveriesIdle, TypeOK, JobAtRow, HasRetries, DeleteIsSafe, FailureIsKept
<1>. QED BY <1>2, <1>3 DEF IInv

\* A restart loses the handlers and the cache, none of what the claims rest on.
LEMMA RestartIInv ==
    ASSUME IInv, Restart
    PROVE  IInv'
<1>. USE DEF IInv
<1>1. UNCHANGED <<applied, events, failed, due, late>>
      /\ todo' = {} /\ row' = None /\ phase' = "next"
      /\ outages < MaxOutages /\ outages' = outages + 1 /\ recent' = << >>
  BY DEF Restart, database
<1>2. pc' = [d \in Deliveries |-> IF pc[d] \in Working THEN "lost" ELSE pc[d]]
  BY DEF Restart
<1>3. TypeOK'
  <2>1. recent' \in Seq(Events) /\ Len(recent') <= CacheSize
    BY <1>1, EmptySeq, WebhooksAssumption
  <2>. QED BY <1>1, <1>2, <2>1, WebhooksAssumption DEF TypeOK, Answered
<1>4. JobAtRow' /\ DeleteIsSafe'
  BY <1>1 DEF JobAtRow, DeleteIsSafe
<1>5. \A d \in Deliveries : pc'[d] = pc[d] \/ pc'[d] = "lost"
  BY <1>2
<1>6. FailureIsKept' /\ OkIsRecorded' /\ LateIsRecorded'
  BY <1>1, <1>5 DEF FailureIsKept, OkIsRecorded, LateIsRecorded
<1>7. OkIsRemembered'
  BY <1>1, <1>5 DEF OkIsRemembered, TypeOK
<1>8. Cached' = {}
  BY <1>1, EmptySeq, LenProperties DEF Cached, ToSet
<1>9. HandledFirst' /\ ProcessedIsApplied'
  BY <1>1, <1>5, <1>8 DEF HandledFirst, ProcessedIsApplied
<1>. QED BY <1>3, <1>4, <1>6, <1>7, <1>9

THEOREM Invariance == Spec => []IInv
<1>1. ASSUME IInv, [Next]_vars PROVE IInv'
  <2>1. CASE UNCHANGED vars
    BY <1>1, <2>1 DEF vars, database, job, IInv, TypeOK, JobAtRow, HasRetries,
       DeleteIsSafe, FailureIsKept, HandledFirst, ProcessedIsApplied, Cached,
       OkIsRecorded, LateIsRecorded, OkIsRemembered
  <2>2. CASE Next
    <3>1. ASSUME NEW d \in Deliveries, Arrive(d) PROVE IInv'
      BY <1>1, <3>1, ArriveIInv
    <3>2. ASSUME NEW d \in Deliveries, Proceeds(d) PROVE IInv'
      BY <1>1, <3>2, ProceedsIInv
    <3>3. ASSUME NEW d \in Deliveries, FallDue(d) PROVE IInv'
      BY <1>1, <3>3, FallDueIInv
    <3>4. CASE SelectDue
      BY <1>1, <3>4, SelectDueIInv
    <3>5. ASSUME NEW d \in Deliveries, Retry(d) \/ RetryFails(d) PROVE IInv'
      BY <1>1, <3>5, TakeIInv
    <3>6. CASE Delete
      BY <1>1, <3>6, DeleteIInv
    <3>7. CASE DeleteFails
      BY <1>1, <3>7, DeleteFailsIInv
    <3>8. CASE Postpone
      BY <1>1, <3>8, PostponeIInv
    <3>9. CASE JobFails
      BY <1>1, <3>9, JobFailsIInv
    <3>10. CASE Restart
      BY <1>1, <3>10, RestartIInv
    <3>. QED BY <2>2, <3>1, <3>2, <3>3, <3>4, <3>5, <3>6, <3>7, <3>8, <3>9, <3>10
             DEF Next, Job, Proceeds
  <2>. QED BY <1>1, <2>1, <2>2
<1>. QED BY InitIInv, <1>1, PTL DEF Spec

\* A failed delivery keeps its row in failed_webhooks until its event was handled, for
\* any number of deliveries, retries and restarts (retry_failed_webhooks).
THEOREM FailuresAreKept == Spec => []FailureIsKept
<1>1. IInv => FailureIsKept
  BY DEF IInv
<1>. QED BY Invariance, <1>1, PTL

\* No delivery that comes after an "ok" for its event is handled, whatever the size of
\* the cache and however often the process restarts (_webhook_already_processed).
THEOREM OksAreRemembered == Spec => []OkIsRemembered
<1>1. IInv => OkIsRemembered
  BY DEF IInv
<1>. QED BY Invariance, <1>1, PTL

\* The state is of its type in every behaviour: the cache never outgrows its limit, and
\* no row is tried more often than max_retries (retry_failed_webhooks).
THEOREM TypeCorrect == Spec => []TypeOK
<1>1. IInv => TypeOK
  BY DEF IInv
<1>. QED BY Invariance, <1>1, PTL

\* Whatever fails or is lost, no event is taken for processed that was not handled to
\* the end, by the cache, by the database or in an answer (_mark_webhook_processed).
THEOREM ProcessedAreApplied == Spec => []ProcessedIsApplied
<1>1. IInv => ProcessedIsApplied
  BY DEF IInv
<1>. QED BY Invariance, <1>1, PTL
=============================================================================
