-------------------------- MODULE TelegramInbound_proofs --------------------------
(***************************************************************************)
(* For any updates, any number of resends, errors and restarts, and any    *)
(* way to run the turns: an update has one turn, a text that Telegram will *)
(* not send again is carried to it, and a photo is in one batch.           *)
(***************************************************************************)
EXTENDS TelegramInbound, FiniteSetTheorems, FunctionTheorems, TLAPS

InSeq(q, u) == \E i \in DOMAIN q : q[i] = u
Once(q, u) == \A i, j \in DOMAIN q : q[i] = u /\ q[j] = u => i = j
Queued(u) == InSeq(queue, u)

\* The runs that may still give their update a turn.
Pending(h) == pc[h] \in {"push", "dispatch"} \cup InAlbum

\* The types that every proof needs.
Types ==
    /\ pc \in [Handler -> PC]
    /\ acked \in SUBSET Update /\ seen \in SUBSET Update
    /\ batch \in [Handler -> SUBSET Update]
    /\ queue \in Seq(Update)
    /\ consumer \in Update \cup {Nobody}
    /\ turns \in [Update -> Nat]
    /\ ignored \in SUBSET Update
    /\ lost \in SUBSET Update

\* An update that Redis was asked about is in one place at most of the way to its
\* turn, and in none when it has had it.
OnePlace(u) ==
    /\ u \notin seen =>
          ~Queued(u) /\ consumer # u /\ turns[u] = 0
          /\ \A h \in Handler : Of(h) = u => ~Pending(h)
    /\ \A h \in Handler : Of(h) = u /\ Pending(h) =>
          ~Queued(u) /\ consumer # u /\ turns[u] = 0
          /\ \A g \in Handler : Of(g) = u /\ Pending(g) => g = h
    /\ Once(queue, u)
    /\ Queued(u) => consumer # u /\ turns[u] = 0
    /\ consumer = u => turns[u] = 0
    /\ turns[u] <= 1
OnePlaceEach == \A u \in Update \ ignored : OnePlace(u)

\* What TextIsCarried says of the updates that were answered holds of those that
\* were seen: the next copy is answered for them.
Carried(u) ==
    \/ turns[u] > 0
    \/ \E h \in Handler : Of(h) = u /\ pc[h] \in Working \ {"dedupe"}
    \/ consumer = u \/ Queued(u)
SeenIsCarried == \A u \in (seen \cup acked) \ (Photo \cup lost) : Carried(u)

\* Photos only are in an album, and a run that has a turn has begun it.
PlacesOK ==
    \A h \in Handler :
        /\ pc[h] \in {"push"} \cup InAlbum => Of(h) \in Photo
        /\ pc[h] \in {"inline", "task"} => turns[Of(h)] > 0

\* The types of the album.
AlbumTypes ==
    /\ album \in Seq(Update)
    /\ albumLock \in Handler \cup {Nobody}
    /\ batches \in [Update -> Nat]

\* Who leads an album has a batch in hand only until it unlocks.
LeaderOK == \A h \in Handler : batch[h] # {} => pc[h] \in {"delete", "unlock"}

\* A photo that was not pushed yet is nowhere; one in a row of the album, or in the
\* hands of a leader, was in no batch; only one leader has it in hand; and its row
\* stays meanwhile only as long as the leader has the lock and did not delete it.
Untaken(u) == ~InSeq(album, u) /\ batches[u] = 0 /\ \A g \in Handler : u \notin batch[g]
OneLeader(u) ==
    /\ u \notin seen => Untaken(u)
    /\ \A h \in Handler : Of(h) = u /\ pc[h] = "push" => Untaken(u)
    /\ \A g \in Handler : u \in batch[g] =>
          batches[u] = 0 /\ \A k \in Handler : u \in batch[k] => k = g
    /\ InSeq(album, u) =>
          batches[u] = 0 /\ \A g \in Handler : u \in batch[g] => pc[g] = "delete" /\ albumLock = g
    /\ batches[u] <= 1
OneLeaderEach == \A u \in Update \ (ignored \cup exposed) : OneLeader(u)

\* The types that are left, and those that only the photos of the album have.
OtherTypes ==
    /\ mode \in Modes
    /\ faults \in 0 .. MaxFaults
    /\ album \in Seq(Photo)
    /\ batch \in [Handler -> SUBSET Photo]
    /\ exposed \in SUBSET Photo

\* The places of an update in the queue, and its runs that are past their turn.
Places(q, u) == {i \in DOMAIN q : q[i] = u}
Passed(u) == {h \in Handler : Of(h) = u /\ pc[h] \in {"inline", "task", "over"}}

\* An update is queued, consumed or has its turn once for each of its runs that is
\* past its turn: the runs are as many as the update was sent.
Count(u) == Cardinality(Places(queue, u)) + turns[u] + (IF consumer = u THEN 1 ELSE 0)
CountOK == \A u \in Update : Count(u) <= Cardinality(Passed(u))

-----------------------------------------------------------------------------
(* The queue: LPUSH and BRPOP *)

\* LPUSH adds one element to the queue.
LEMMA PushFacts ==
    ASSUME NEW q \in Seq(Update), NEW u \in Update
    PROVE  /\ <<u>> \o q \in Seq(Update)
           /\ \A x : InSeq(<<u>> \o q, x) <=> x = u \/ InSeq(q, x)
           /\ \A x : x # u /\ Once(q, x) => Once(<<u>> \o q, x)
           /\ ~InSeq(q, u) => Once(<<u>> \o q, u)
<1> DEFINE r == <<u>> \o q
<1>1. r \in Seq(Update) /\ DOMAIN r = 1..(Len(q) + 1) /\ DOMAIN q = 1..Len(q)
  OBVIOUS
<1>2. r[1] = u /\ \A i \in 2..(Len(q) + 1) : r[i] = q[i - 1]
  OBVIOUS
<1>3. \A i \in DOMAIN r : i = 1 \/ (i - 1 \in DOMAIN q /\ r[i] = q[i - 1])
  BY <1>1, <1>2
<1>4. \A i \in DOMAIN q : i + 1 \in DOMAIN r /\ r[i + 1] = q[i]
  BY <1>1, <1>2
<1>5. ASSUME NEW x PROVE InSeq(r, x) <=> x = u \/ InSeq(q, x)
  <2>1. 1 \in DOMAIN r
    BY <1>1
  <2>2. x = u => InSeq(r, x)
    BY <2>1, <1>2 DEF InSeq
  <2>3. InSeq(q, x) => InSeq(r, x)
    BY <1>4 DEF InSeq
  <2>4. InSeq(r, x) => x = u \/ InSeq(q, x)
    BY <1>2, <1>3 DEF InSeq
  <2> QED
    BY <2>2, <2>3, <2>4
<1>6. ASSUME NEW x, x # u, Once(q, x) PROVE Once(r, x)
  <2> SUFFICES ASSUME NEW i \in DOMAIN r, NEW j \in DOMAIN r, r[i] = x, r[j] = x
               PROVE  i = j
    BY DEF Once
  <2>1. i - 1 \in DOMAIN q /\ j - 1 \in DOMAIN q /\ q[i - 1] = x /\ q[j - 1] = x
    BY <1>2, <1>3, <1>6
  <2>2. i - 1 = j - 1
    BY <2>1, <1>6 DEF Once
  <2> QED
    BY <2>2, <1>1
<1>7. ASSUME ~InSeq(q, u) PROVE Once(r, u)
  BY <1>3, <1>7 DEF InSeq, Once
<1> HIDE DEF r
<1> QED
  BY <1>1, <1>5, <1>6, <1>7 DEF r

\* RPOP removes the last element and leaves the others.
LEMMA PopFacts ==
    ASSUME NEW q \in Seq(Update), q # <<>>
    PROVE  /\ Front(q) \in Seq(Update) /\ Last(q) \in Update
           /\ InSeq(q, Last(q))
           /\ \A x : InSeq(Front(q), x) => InSeq(q, x)
           /\ \A x : InSeq(q, x) => x = Last(q) \/ InSeq(Front(q), x)
           /\ \A x : Once(q, x) => Once(Front(q), x)
           /\ Once(q, Last(q)) => ~InSeq(Front(q), Last(q))
<1> DEFINE r == Front(q)
<1>1. /\ r \in Seq(Update)
      /\ Len(q) \in DOMAIN q /\ Last(q) = q[Len(q)] /\ Last(q) \in Update
      /\ DOMAIN q = 1..Len(q) /\ DOMAIN r = 1..(Len(q) - 1)
      /\ \A i \in DOMAIN r : r[i] = q[i]
  BY DEF Front, Last
<1>2. \A i \in DOMAIN q : i = Len(q) \/ i \in DOMAIN r
  BY <1>1
<1>3. \A i \in DOMAIN r : i \in DOMAIN q /\ i # Len(q)
  BY <1>1
<1> HIDE DEF r
<1>4. InSeq(q, Last(q))
  BY <1>1 DEF InSeq
<1>5. \A x : InSeq(r, x) => InSeq(q, x)
  BY <1>1, <1>3 DEF InSeq
<1>6. \A x : InSeq(q, x) => x = Last(q) \/ InSeq(r, x)
  BY <1>1, <1>2 DEF InSeq
<1>7. \A x : Once(q, x) => Once(r, x)
  BY <1>1, <1>3 DEF Once
<1>8. Once(q, Last(q)) => ~InSeq(r, Last(q))
  BY <1>1, <1>3 DEF Once, InSeq
<1> QED
  BY <1>1, <1>4, <1>5, <1>6, <1>7, <1>8 DEF r

\* DELETE leaves the empty list.
LEMMA EmptyFacts == <<>> \in Seq(Update) /\ \A x : ~InSeq(<<>>, x)
  BY DEF InSeq

\* RPUSH adds one element to the album.
LEMMA AppendFacts ==
    ASSUME NEW q \in Seq(Update), NEW u \in Update
    PROVE  /\ Append(q, u) \in Seq(Update)
           /\ \A x : InSeq(Append(q, u), x) <=> x = u \/ InSeq(q, x)
<1> DEFINE r == Append(q, u)
<1>1. /\ r \in Seq(Update) /\ DOMAIN r = 1..(Len(q) + 1) /\ DOMAIN q = 1..Len(q)
      /\ r[Len(q) + 1] = u /\ Len(q) + 1 \in DOMAIN r
      /\ \A i \in DOMAIN q : i \in DOMAIN r /\ r[i] = q[i]
  OBVIOUS
<1>2. \A i \in DOMAIN r : i = Len(q) + 1 \/ i \in DOMAIN q
  BY <1>1
<1> HIDE DEF r
<1>3. \A x : InSeq(r, x) <=> x = u \/ InSeq(q, x)
  BY <1>1, <1>2 DEF InSeq
<1> QED
  BY <1>1, <1>3 DEF r

-----------------------------------------------------------------------------
(* Every step keeps the types *)

\* A run of the webhook is of an update.
LEMMA HandlerFacts ==
    /\ \A h \in Handler : Of(h) \in Update
    /\ \A u \in Update, k \in 1..MaxTries : <<u, k>> \in Handler /\ Of(<<u, k>>) = u
  BY DEF Handler, Of

\* One case per action: the types hold.
LEMMA TypesStep == Types /\ [Next]_vars => Types'
<1> SUFFICES ASSUME Types, [Next]_vars PROVE Types'
  OBVIOUS
<1> USE TelegramAssumption, NobodyAssumption, HandlerFacts DEF Types, PC, Working,
     InAlbum, Goto, albumVars, queueVars
<1>1. ASSUME NEW u \in Update, NEW k \in 1..MaxTries, Deliver(u, k)
      PROVE  Types'
  BY <1>1 DEF Deliver
<1>2. ASSUME NEW h \in Handler, Dedupe(h)
      PROVE  Types'
  <2>1. CASE Seen(Of(h))
    BY <1>2, <2>1 DEF Dedupe, Answer, Acknowledge
  <2>2. CASE ~Seen(Of(h))
    <3>1. seen' \in SUBSET Update /\ pc' \in [Handler -> PC]
      BY <1>2, <2>2 DEF Dedupe, AfterDedupe
    <3> QED
      BY <1>2, <2>2, <3>1 DEF Dedupe
  <2> QED
    BY <2>1, <2>2
<1>3. ASSUME NEW h \in Handler, DedupeFails(h)
      PROVE  Types'
  BY <1>3 DEF DedupeFails, Fault, AfterDedupe
<1>4. ASSUME NEW h \in Handler, AlbumPush(h)
      PROVE  Types'
  BY <1>4 DEF AlbumPush
<1>5. ASSUME NEW h \in Handler, AlbumTryLock(h)
      PROVE  Types'
  BY <1>5 DEF AlbumTryLock, Answer, Acknowledge
<1>6. ASSUME NEW h \in Handler, AlbumRead(h)
      PROVE  Types'
  <2>1. PICK taken \in SUBSET Update : batch' = [batch EXCEPT ![h] = taken]
    BY <1>6 DEF AlbumRead
  <2> QED
    BY <1>6, <2>1 DEF AlbumRead
<1>7. ASSUME NEW h \in Handler, AlbumDelete(h)
      PROVE  Types'
  BY <1>7 DEF AlbumDelete, DeleteRows, Fault
<1>8. ASSUME NEW h \in Handler, AlbumUnlock(h)
      PROVE  Types'
  BY <1>8 DEF AlbumUnlock, LoseLock, Fault, Answer, Acknowledge
<1>9. ASSUME NEW h \in Handler, AlbumFails(h)
      PROVE  Types'
  BY <1>9 DEF AlbumFails, LoseLock, Fault
<1>10. ASSUME NEW h \in Handler, Inline(h)
      PROVE  Types'
  BY <1>10 DEF Inline, BeginTurn
<1>11. ASSUME NEW h \in Handler, Parallel(h)
      PROVE  Types'
  BY <1>11 DEF Parallel, BeginTurn, Acknowledge
<1>12. ASSUME NEW h \in Handler, TurnEnds(h)
      PROVE  Types'
  BY <1>12 DEF TurnEnds, Answer, Acknowledge
<1>13. ASSUME NEW h \in Handler, Enqueue(h)
      PROVE  Types'
  BY <1>13, PushFacts DEF Enqueue, Answer, Acknowledge, Queued
<1>14. ASSUME NEW h \in Handler, EnqueueFails(h)
      PROVE  Types'
  BY <1>14 DEF EnqueueFails, Fault, Answer, Acknowledge
<1>15. CASE Dequeue
  BY <1>15, PopFacts DEF Dequeue, Pop, Queued
<1>16. CASE Consume
  BY <1>16 DEF Consume, BeginTurn
<1>17. CASE Restart
  BY <1>17 DEF Restart, Fault
<1>18. CASE AlbumLockExpires
  BY <1>18 DEF AlbumLockExpires
<1>21. CASE AlbumLockRunsOut
  BY <1>21 DEF AlbumLockRunsOut, LoseLock, Fault
<1>19. CASE AlbumExpires
  BY <1>19 DEF AlbumExpires
<1>20. CASE UNCHANGED vars
  BY <1>20 DEF vars
<1> QED
  BY <1>1, <1>2, <1>3, <1>4, <1>5, <1>6, <1>7, <1>8, <1>9, <1>10, <1>11, <1>12, <1>13,
     <1>14, <1>15, <1>16, <1>17, <1>18, <1>19, <1>20, <1>21 DEF Next, WebhookStep,
     WebhookFault, ConsumerStep, RedisStep
-----------------------------------------------------------------------------
(* Every step keeps an update in one place *)

\* One case per action: an update stays in one place at most.
LEMMA OnePlaceStep == Types /\ OnePlaceEach /\ [Next]_vars => OnePlaceEach'
<1> SUFFICES ASSUME Types, OnePlaceEach, [Next]_vars PROVE OnePlaceEach'
  OBVIOUS
<1> USE TelegramAssumption, NobodyAssumption, HandlerFacts DEF Types, OnePlaceEach,
     OnePlace, Queued, Pending, PC, Working, InAlbum, Goto, albumVars, queueVars
<1>1. ASSUME NEW u \in Update, NEW k \in 1..MaxTries, Deliver(u, k)
      PROVE  OnePlaceEach'
  BY <1>1 DEF Deliver
<1>2. ASSUME NEW h \in Handler, Dedupe(h)
      PROVE  OnePlaceEach'
  BY <1>2 DEF Dedupe, Answer, Acknowledge, AfterDedupe, Seen
<1>3. ASSUME NEW h \in Handler, DedupeFails(h)
      PROVE  OnePlaceEach'
  BY <1>3 DEF DedupeFails, Fault, AfterDedupe
<1>4. ASSUME NEW h \in Handler, AlbumPush(h)
      PROVE  OnePlaceEach'
  BY <1>4 DEF AlbumPush
<1>5. ASSUME NEW h \in Handler, AlbumTryLock(h)
      PROVE  OnePlaceEach'
  BY <1>5 DEF AlbumTryLock, Answer, Acknowledge
<1>6. ASSUME NEW h \in Handler, AlbumRead(h)
      PROVE  OnePlaceEach'
  BY <1>6 DEF AlbumRead
<1>7. ASSUME NEW h \in Handler, AlbumDelete(h)
      PROVE  OnePlaceEach'
  BY <1>7 DEF AlbumDelete, DeleteRows, Fault
<1>8. ASSUME NEW h \in Handler, AlbumUnlock(h)
      PROVE  OnePlaceEach'
  BY <1>8 DEF AlbumUnlock, LoseLock, Fault, Answer, Acknowledge
<1>9. ASSUME NEW h \in Handler, AlbumFails(h)
      PROVE  OnePlaceEach'
  BY <1>9 DEF AlbumFails, LoseLock, Fault
<1>10. ASSUME NEW h \in Handler, Inline(h)
      PROVE  OnePlaceEach'
  BY <1>10 DEF Inline, BeginTurn
<1>11. ASSUME NEW h \in Handler, Parallel(h)
      PROVE  OnePlaceEach'
  BY <1>11 DEF Parallel, BeginTurn, Acknowledge
<1>12. ASSUME NEW h \in Handler, TurnEnds(h)
      PROVE  OnePlaceEach'
  BY <1>12 DEF TurnEnds, Answer, Acknowledge
<1>13. ASSUME NEW h \in Handler, Enqueue(h)
      PROVE  OnePlaceEach'
  BY <1>13, PushFacts DEF Enqueue, Answer, Acknowledge
<1>14. ASSUME NEW h \in Handler, EnqueueFails(h)
      PROVE  OnePlaceEach'
  BY <1>14 DEF EnqueueFails, Fault, Answer, Acknowledge
<1>15. CASE Dequeue
  BY <1>15, PopFacts DEF Dequeue, Pop
<1>16. CASE Consume
  BY <1>16 DEF Consume, BeginTurn
<1>17. CASE Restart
  BY <1>17 DEF Restart, Fault
<1>18. CASE AlbumLockExpires
  BY <1>18 DEF AlbumLockExpires
<1>21. CASE AlbumLockRunsOut
  BY <1>21 DEF AlbumLockRunsOut, LoseLock, Fault
<1>19. CASE AlbumExpires
  BY <1>19 DEF AlbumExpires
<1>20. CASE UNCHANGED vars
  BY <1>20 DEF vars
<1> QED
  BY <1>1, <1>2, <1>3, <1>4, <1>5, <1>6, <1>7, <1>8, <1>9, <1>10, <1>11, <1>12, <1>13,
     <1>14, <1>15, <1>16, <1>17, <1>18, <1>19, <1>20, <1>21 DEF Next, WebhookStep,
     WebhookFault, ConsumerStep, RedisStep
-----------------------------------------------------------------------------
(* Every step carries the updates on *)

\* One case per action: albums hold photos, and a run with a turn has begun it.
LEMMA PlacesStep == Types /\ PlacesOK /\ [Next]_vars => PlacesOK'
<1> SUFFICES ASSUME Types, PlacesOK, [Next]_vars PROVE PlacesOK'
  OBVIOUS
<1> USE TelegramAssumption, NobodyAssumption, HandlerFacts DEF Types, PlacesOK, PC,
     Working, InAlbum, Goto, albumVars, queueVars
<1>1. ASSUME NEW u \in Update, NEW k \in 1..MaxTries, Deliver(u, k)
      PROVE  PlacesOK'
  BY <1>1 DEF Deliver
<1>2. ASSUME NEW h \in Handler, Dedupe(h)
      PROVE  PlacesOK'
  BY <1>2 DEF Dedupe, Answer, Acknowledge, AfterDedupe, Seen
<1>3. ASSUME NEW h \in Handler, DedupeFails(h)
      PROVE  PlacesOK'
  BY <1>3 DEF DedupeFails, Fault, AfterDedupe
<1>4. ASSUME NEW h \in Handler, AlbumPush(h)
      PROVE  PlacesOK'
  BY <1>4 DEF AlbumPush
<1>5. ASSUME NEW h \in Handler, AlbumTryLock(h)
      PROVE  PlacesOK'
  BY <1>5 DEF AlbumTryLock, Answer, Acknowledge
<1>6. ASSUME NEW h \in Handler, AlbumRead(h)
      PROVE  PlacesOK'
  BY <1>6 DEF AlbumRead
<1>7. ASSUME NEW h \in Handler, AlbumDelete(h)
      PROVE  PlacesOK'
  BY <1>7 DEF AlbumDelete, DeleteRows, Fault
<1>8. ASSUME NEW h \in Handler, AlbumUnlock(h)
      PROVE  PlacesOK'
  BY <1>8 DEF AlbumUnlock, LoseLock, Fault, Answer, Acknowledge
<1>9. ASSUME NEW h \in Handler, AlbumFails(h)
      PROVE  PlacesOK'
  BY <1>9 DEF AlbumFails, LoseLock, Fault
<1>10. ASSUME NEW h \in Handler, Inline(h)
      PROVE  PlacesOK'
  BY <1>10 DEF Inline, BeginTurn
<1>11. ASSUME NEW h \in Handler, Parallel(h)
      PROVE  PlacesOK'
  BY <1>11 DEF Parallel, BeginTurn, Acknowledge
<1>12. ASSUME NEW h \in Handler, TurnEnds(h)
      PROVE  PlacesOK'
  BY <1>12 DEF TurnEnds, Answer, Acknowledge
<1>13. ASSUME NEW h \in Handler, Enqueue(h)
      PROVE  PlacesOK'
  BY <1>13 DEF Enqueue, Answer, Acknowledge
<1>14. ASSUME NEW h \in Handler, EnqueueFails(h)
      PROVE  PlacesOK'
  BY <1>14 DEF EnqueueFails, Fault, Answer, Acknowledge
<1>15. CASE Dequeue
  BY <1>15 DEF Dequeue, Pop
<1>16. CASE Consume
  BY <1>16 DEF Consume, BeginTurn
<1>17. CASE Restart
  BY <1>17 DEF Restart, Fault
<1>18. CASE AlbumLockExpires
  BY <1>18 DEF AlbumLockExpires
<1>21. CASE AlbumLockRunsOut
  BY <1>21 DEF AlbumLockRunsOut, LoseLock, Fault
<1>19. CASE AlbumExpires
  BY <1>19 DEF AlbumExpires
<1>20. CASE UNCHANGED vars
  BY <1>20 DEF vars
<1> QED
  BY <1>1, <1>2, <1>3, <1>4, <1>5, <1>6, <1>7, <1>8, <1>9, <1>10, <1>11, <1>12, <1>13,
     <1>14, <1>15, <1>16, <1>17, <1>18, <1>19, <1>20, <1>21 DEF Next, WebhookStep,
     WebhookFault, ConsumerStep, RedisStep

\* One case per action: an update that was seen stays on its way.
LEMMA CarriedStep ==
    Types /\ PlacesOK /\ SeenIsCarried /\ [Next]_vars => SeenIsCarried'
<1> SUFFICES ASSUME Types, PlacesOK, SeenIsCarried, [Next]_vars PROVE SeenIsCarried'
  OBVIOUS
<1> USE TelegramAssumption, NobodyAssumption, HandlerFacts DEF Types, PlacesOK,
     SeenIsCarried, Carried, Queued, PC, Working, InAlbum, Goto, albumVars, queueVars
<1>1. ASSUME NEW u \in Update, NEW k \in 1..MaxTries, Deliver(u, k)
      PROVE  SeenIsCarried'
  BY <1>1 DEF Deliver
<1>2. ASSUME NEW h \in Handler, Dedupe(h)
      PROVE  SeenIsCarried'
  <2> SUFFICES ASSUME NEW u \in (seen' \cup acked') \ (Photo \cup lost')
               PROVE  Carried(u)'
    OBVIOUS
  <2>1. CASE u = Of(h)
    BY <1>2, <2>1 DEF Dedupe, Answer, Acknowledge, AfterDedupe, Seen, Carried
  <2>2. CASE u # Of(h)
    <3>1. u \in (seen \cup acked) \ (Photo \cup lost) /\ UNCHANGED turns
      BY <1>2, <2>2 DEF Dedupe, Answer, Acknowledge, AfterDedupe, Seen
    <3>2. \A g \in Handler : Of(g) = u => pc'[g] = pc[g]
      BY <1>2, <2>2 DEF Dedupe, Answer, Acknowledge, AfterDedupe, Seen
    <3> QED
      BY <1>2, <3>1, <3>2 DEF Dedupe, Answer, Acknowledge, AfterDedupe, Seen, Carried
  <2> QED
    BY <2>1, <2>2
<1>3. ASSUME NEW h \in Handler, DedupeFails(h)
      PROVE  SeenIsCarried'
  BY <1>3 DEF DedupeFails, Fault, AfterDedupe
<1>4. ASSUME NEW h \in Handler, AlbumPush(h)
      PROVE  SeenIsCarried'
  BY <1>4 DEF AlbumPush
<1>5. ASSUME NEW h \in Handler, AlbumTryLock(h)
      PROVE  SeenIsCarried'
  <2> SUFFICES ASSUME NEW u \in (seen' \cup acked') \ (Photo \cup lost')
               PROVE  Carried(u)'
    OBVIOUS
  <2>1. CASE u = Of(h)
    BY <1>5, <2>1 DEF AlbumTryLock, Answer, Acknowledge, Carried
  <2>2. CASE u # Of(h)
    <3>1. u \in (seen \cup acked) \ (Photo \cup lost) /\ UNCHANGED turns
      BY <1>5, <2>2 DEF AlbumTryLock, Answer, Acknowledge
    <3>2. \A g \in Handler : Of(g) = u => pc'[g] = pc[g]
      BY <1>5, <2>2 DEF AlbumTryLock, Answer, Acknowledge
    <3> QED
      BY <1>5, <3>1, <3>2 DEF AlbumTryLock, Answer, Acknowledge, Carried
  <2> QED
    BY <2>1, <2>2
<1>6. ASSUME NEW h \in Handler, AlbumRead(h)
      PROVE  SeenIsCarried'
  BY <1>6 DEF AlbumRead
<1>7. ASSUME NEW h \in Handler, AlbumDelete(h)
      PROVE  SeenIsCarried'
  BY <1>7 DEF AlbumDelete, DeleteRows, Fault
<1>8. ASSUME NEW h \in Handler, AlbumUnlock(h)
      PROVE  SeenIsCarried'
  <2> SUFFICES ASSUME NEW u \in (seen' \cup acked') \ (Photo \cup lost')
               PROVE  Carried(u)'
    OBVIOUS
  <2>1. CASE u = Of(h)
    BY <1>8, <2>1 DEF AlbumUnlock, LoseLock, Fault, Answer, Acknowledge, Carried
  <2>2. CASE u # Of(h)
    <3>1. u \in (seen \cup acked) \ (Photo \cup lost) /\ UNCHANGED turns
      BY <1>8, <2>2 DEF AlbumUnlock, LoseLock, Fault, Answer, Acknowledge
    <3>2. \A g \in Handler : Of(g) = u => pc'[g] = pc[g]
      BY <1>8, <2>2 DEF AlbumUnlock, LoseLock, Fault, Answer, Acknowledge
    <3> QED
      BY <1>8, <3>1, <3>2 DEF AlbumUnlock, LoseLock, Fault, Answer, Acknowledge, Carried
  <2> QED
    BY <2>1, <2>2
<1>9. ASSUME NEW h \in Handler, AlbumFails(h)
      PROVE  SeenIsCarried'
  BY <1>9 DEF AlbumFails, LoseLock, Fault
<1>10. ASSUME NEW h \in Handler, Inline(h)
      PROVE  SeenIsCarried'
  BY <1>10 DEF Inline, BeginTurn
<1>11. ASSUME NEW h \in Handler, Parallel(h)
      PROVE  SeenIsCarried'
  BY <1>11 DEF Parallel, BeginTurn, Acknowledge
<1>12. ASSUME NEW h \in Handler, TurnEnds(h)
      PROVE  SeenIsCarried'
  BY <1>12 DEF TurnEnds, Answer, Acknowledge
<1>13. ASSUME NEW h \in Handler, Enqueue(h)
      PROVE  SeenIsCarried'
  BY <1>13, PushFacts DEF Enqueue, Answer, Acknowledge, Queued
<1>14. ASSUME NEW h \in Handler, EnqueueFails(h)
      PROVE  SeenIsCarried'
  BY <1>14 DEF EnqueueFails, Fault, Answer, Acknowledge
<1>15. CASE Dequeue
  <2>1. /\ queue # <<>> /\ consumer = Nobody
        /\ consumer' = Last(queue) /\ queue' = Front(queue)
        /\ UNCHANGED <<pc, acked, seen, turns, lost>>
    BY <1>15 DEF Dequeue, Pop
  <2>2. \A u \in Update : Queued(u) => Queued(u)' \/ consumer' = u
    BY <2>1, PopFacts
  <2>3. \A u \in Update : Carried(u) => Carried(u)'
    BY <2>1, <2>2 DEF Carried
  <2> QED
    BY <2>1, <2>3
<1>16. CASE Consume
  BY <1>16 DEF Consume, BeginTurn
<1>17. CASE Restart
  BY <1>17 DEF Restart, Fault
<1>18. CASE AlbumLockExpires
  BY <1>18 DEF AlbumLockExpires
<1>21. CASE AlbumLockRunsOut
  BY <1>21 DEF AlbumLockRunsOut, LoseLock, Fault
<1>19. CASE AlbumExpires
  BY <1>19 DEF AlbumExpires
<1>20. CASE UNCHANGED vars
  BY <1>20 DEF vars
<1> QED
  BY <1>1, <1>2, <1>3, <1>4, <1>5, <1>6, <1>7, <1>8, <1>9, <1>10, <1>11, <1>12, <1>13,
     <1>14, <1>15, <1>16, <1>17, <1>18, <1>19, <1>20, <1>21 DEF Next, WebhookStep,
     WebhookFault, ConsumerStep, RedisStep
-----------------------------------------------------------------------------
(* Every step keeps a photo in one batch *)

\* One case per action: the types of the album hold.
LEMMA AlbumTypesStep ==
    Types /\ AlbumTypes /\ [Next]_vars => AlbumTypes'
<1> SUFFICES ASSUME Types, AlbumTypes, [Next]_vars
             PROVE  AlbumTypes'
  OBVIOUS
<1> USE TelegramAssumption, NobodyAssumption, HandlerFacts DEF Types, AlbumTypes, PC,
     Working, InAlbum, Goto, albumVars, queueVars
<1>1. ASSUME NEW u \in Update, NEW k \in 1..MaxTries, Deliver(u, k)
      PROVE  AlbumTypes'
  BY <1>1 DEF Deliver
<1>2. ASSUME NEW h \in Handler, Dedupe(h)
      PROVE  AlbumTypes'
  BY <1>2 DEF Dedupe, Answer, Acknowledge, AfterDedupe, Seen
<1>3. ASSUME NEW h \in Handler, DedupeFails(h)
      PROVE  AlbumTypes'
  BY <1>3 DEF DedupeFails, Fault, AfterDedupe
<1>4. ASSUME NEW h \in Handler, AlbumPush(h)
      PROVE  AlbumTypes'
  BY <1>4, AppendFacts DEF AlbumPush
<1>5. ASSUME NEW h \in Handler, AlbumTryLock(h)
      PROVE  AlbumTypes'
  BY <1>5 DEF AlbumTryLock, Answer, Acknowledge
<1>6. ASSUME NEW h \in Handler, AlbumRead(h)
      PROVE  AlbumTypes'
  BY <1>6 DEF AlbumRead
<1>7. ASSUME NEW h \in Handler, AlbumDelete(h)
      PROVE  AlbumTypes'
  <2>1. album' = <<>> \/ album' = album
    BY <1>7 DEF AlbumDelete, DeleteRows
  <2>2. UNCHANGED <<albumLock, batches>>
    BY <1>7 DEF AlbumDelete
  <2> QED
    BY <2>1, <2>2, EmptyFacts DEF AlbumTypes
<1>8. ASSUME NEW h \in Handler, AlbumUnlock(h)
      PROVE  AlbumTypes'
  <2>1. \A u \in Update : batches[u] + (IF u \in batch[h] THEN 1 ELSE 0) \in Nat
    OBVIOUS
  <2>2. /\ batches' = [u \in Update |-> batches[u] + (IF u \in batch[h] THEN 1 ELSE 0)]
        /\ albumLock' \in {albumLock, Nobody} /\ album' = album
    BY <1>8 DEF AlbumUnlock, LoseLock
  <2> QED
    BY <2>1, <2>2 DEF AlbumTypes
<1>9. ASSUME NEW h \in Handler, AlbumFails(h)
      PROVE  AlbumTypes'
  BY <1>9 DEF AlbumFails, LoseLock, Fault
<1>10. ASSUME NEW h \in Handler, Inline(h)
      PROVE  AlbumTypes'
  BY <1>10 DEF Inline, BeginTurn
<1>11. ASSUME NEW h \in Handler, Parallel(h)
      PROVE  AlbumTypes'
  BY <1>11 DEF Parallel, BeginTurn, Acknowledge
<1>12. ASSUME NEW h \in Handler, TurnEnds(h)
      PROVE  AlbumTypes'
  BY <1>12 DEF TurnEnds, Answer, Acknowledge
<1>13. ASSUME NEW h \in Handler, Enqueue(h)
      PROVE  AlbumTypes'
  BY <1>13 DEF Enqueue, Answer, Acknowledge
<1>14. ASSUME NEW h \in Handler, EnqueueFails(h)
      PROVE  AlbumTypes'
  BY <1>14 DEF EnqueueFails, Fault, Answer, Acknowledge
<1>15. CASE Dequeue
  BY <1>15 DEF Dequeue, Pop
<1>16. CASE Consume
  BY <1>16 DEF Consume, BeginTurn
<1>17. CASE Restart
  BY <1>17 DEF Restart, Fault
<1>18. CASE AlbumLockExpires
  BY <1>18 DEF AlbumLockExpires
<1>21. CASE AlbumLockRunsOut
  BY <1>21 DEF AlbumLockRunsOut, LoseLock, Fault
<1>19. CASE AlbumExpires
  BY <1>19 DEF AlbumExpires
<1>20. CASE UNCHANGED vars
  BY <1>20 DEF vars
<1> QED
  BY <1>1, <1>2, <1>3, <1>4, <1>5, <1>6, <1>7, <1>8, <1>9, <1>10, <1>11, <1>12, <1>13,
     <1>14, <1>15, <1>16, <1>17, <1>18, <1>19, <1>20, <1>21 DEF Next, WebhookStep,
     WebhookFault, ConsumerStep, RedisStep

\* One case per action: a leader has the lock, and a batch until it unlocks.
LEMMA LeaderStep ==
    Types /\ AlbumTypes /\ LeaderOK /\ [Next]_vars => LeaderOK'
<1> SUFFICES ASSUME Types, AlbumTypes, LeaderOK, [Next]_vars
             PROVE  LeaderOK'
  OBVIOUS
<1> USE TelegramAssumption, NobodyAssumption, HandlerFacts DEF Types, AlbumTypes, LeaderOK, PC,
     Working, InAlbum, Goto, albumVars, queueVars
<1>1. ASSUME NEW u \in Update, NEW k \in 1..MaxTries, Deliver(u, k)
      PROVE  LeaderOK'
  BY <1>1 DEF Deliver
<1>2. ASSUME NEW h \in Handler, Dedupe(h)
      PROVE  LeaderOK'
  <2>1. pc[h] = "dedupe" /\ batch' = batch /\ \A g \in Handler : g # h => pc'[g] = pc[g]
    BY <1>2 DEF Dedupe, Answer
  <2>2. batch[h] = {}
    BY <2>1
  <2> QED
    BY <2>1, <2>2
<1>3. ASSUME NEW h \in Handler, DedupeFails(h)
      PROVE  LeaderOK'
  BY <1>3 DEF DedupeFails, Fault, AfterDedupe
<1>4. ASSUME NEW h \in Handler, AlbumPush(h)
      PROVE  LeaderOK'
  BY <1>4 DEF AlbumPush
<1>5. ASSUME NEW h \in Handler, AlbumTryLock(h)
      PROVE  LeaderOK'
  BY <1>5 DEF AlbumTryLock, Answer, Acknowledge
<1>6. ASSUME NEW h \in Handler, AlbumRead(h)
      PROVE  LeaderOK'
  BY <1>6 DEF AlbumRead
<1>7. ASSUME NEW h \in Handler, AlbumDelete(h)
      PROVE  LeaderOK'
  BY <1>7 DEF AlbumDelete, DeleteRows, Fault
<1>8. ASSUME NEW h \in Handler, AlbumUnlock(h)
      PROVE  LeaderOK'
  BY <1>8 DEF AlbumUnlock, LoseLock, Fault, Answer, Acknowledge
<1>9. ASSUME NEW h \in Handler, AlbumFails(h)
      PROVE  LeaderOK'
  BY <1>9 DEF AlbumFails, LoseLock, Fault
<1>10. ASSUME NEW h \in Handler, Inline(h)
      PROVE  LeaderOK'
  BY <1>10 DEF Inline, BeginTurn
<1>11. ASSUME NEW h \in Handler, Parallel(h)
      PROVE  LeaderOK'
  BY <1>11 DEF Parallel, BeginTurn, Acknowledge
<1>12. ASSUME NEW h \in Handler, TurnEnds(h)
      PROVE  LeaderOK'
  BY <1>12 DEF TurnEnds, Answer, Acknowledge
<1>13. ASSUME NEW h \in Handler, Enqueue(h)
      PROVE  LeaderOK'
  BY <1>13 DEF Enqueue, Answer, Acknowledge
<1>14. ASSUME NEW h \in Handler, EnqueueFails(h)
      PROVE  LeaderOK'
  BY <1>14 DEF EnqueueFails, Fault, Answer, Acknowledge
<1>15. CASE Dequeue
  BY <1>15 DEF Dequeue, Pop
<1>16. CASE Consume
  BY <1>16 DEF Consume, BeginTurn
<1>17. CASE Restart
  BY <1>17 DEF Restart, Fault
<1>18. CASE AlbumLockExpires
  BY <1>18 DEF AlbumLockExpires
<1>21. CASE AlbumLockRunsOut
  BY <1>21 DEF AlbumLockRunsOut, LoseLock, Fault
<1>19. CASE AlbumExpires
  BY <1>19 DEF AlbumExpires
<1>20. CASE UNCHANGED vars
  BY <1>20 DEF vars
<1> QED
  BY <1>1, <1>2, <1>3, <1>4, <1>5, <1>6, <1>7, <1>8, <1>9, <1>10, <1>11, <1>12, <1>13,
     <1>14, <1>15, <1>16, <1>17, <1>18, <1>19, <1>20, <1>21 DEF Next, WebhookStep,
     WebhookFault, ConsumerStep, RedisStep

\* One case per action: a photo is in one batch at most.
LEMMA OneLeaderStep ==
    Types /\ AlbumTypes /\ OnePlaceEach /\ LeaderOK /\ OneLeaderEach /\ [Next]_vars => OneLeaderEach'
<1> SUFFICES ASSUME Types, AlbumTypes, OnePlaceEach, LeaderOK, OneLeaderEach, [Next]_vars
             PROVE  OneLeaderEach'
  OBVIOUS
<1> USE TelegramAssumption, NobodyAssumption, HandlerFacts DEF Types, AlbumTypes, OneLeaderEach, OneLeader, Untaken,
     OnePlaceEach, OnePlace, Pending, LeaderOK, PC,
     Working, InAlbum, Goto, albumVars, queueVars
<1>1. ASSUME NEW u \in Update, NEW k \in 1..MaxTries, Deliver(u, k)
      PROVE  OneLeaderEach'
  <2>1. /\ <<u, k>> \in Handler /\ pc[<<u, k>>] = "none" /\ pc' = [pc EXCEPT ![<<u, k>>] = "dedupe"]
        /\ UNCHANGED <<seen, album, albumLock, batch, batches, exposed, ignored>>
    BY <1>1 DEF Deliver
  <2>2. /\ \A g \in Handler : pc'[g] = "push" => pc[g] = "push"
        /\ \A g \in Handler : pc[g] = "delete" => pc'[g] = "delete"
    <3>1. pc \in [Handler -> PC]
      OBVIOUS
    <3>2. \A g \in Handler : pc'[g] = IF g = <<u, k>> THEN "dedupe" ELSE pc[g]
      BY <2>1, <3>1
    <3>3. ASSUME NEW g \in Handler, g = <<u, k>>
          PROVE  pc'[g] = "dedupe" /\ pc[g] = "none"
      BY <2>1, <3>2, <3>3
    <3>4. ASSUME NEW g \in Handler, g # <<u, k>>
          PROVE  pc'[g] = pc[g]
      BY <3>2, <3>4
    <3> QED
      BY <3>3, <3>4
  <2> SUFFICES ASSUME NEW v \in Update \ (ignored \cup exposed) PROVE OneLeader(v)'
    BY <2>1 DEF OneLeaderEach
  <2>3. OneLeader(v)
    OBVIOUS
  <2> QED
    BY <2>1, <2>2, <2>3
<1>2. ASSUME NEW h \in Handler, Dedupe(h)
      PROVE  OneLeaderEach'
  BY <1>2 DEF Dedupe, Answer, Acknowledge, AfterDedupe, Seen
<1>3. ASSUME NEW h \in Handler, DedupeFails(h)
      PROVE  OneLeaderEach'
  BY <1>3 DEF DedupeFails, Fault, AfterDedupe
<1>4. ASSUME NEW h \in Handler, AlbumPush(h)
      PROVE  OneLeaderEach'
  BY <1>4, AppendFacts DEF AlbumPush
<1>5. ASSUME NEW h \in Handler, AlbumTryLock(h)
      PROVE  OneLeaderEach'
  BY <1>5 DEF AlbumTryLock, Answer, Acknowledge
<1>6. ASSUME NEW h \in Handler, AlbumRead(h)
      PROVE  OneLeaderEach'
  <2> DEFINE taken == {u \in Update : \E i \in 1 .. Len(album) : album[i] = u /\
                        Cardinality({album[j] : j \in 1 .. i}) <= MaxInBatch}
  <2>1. /\ taken \in SUBSET Update /\ batch' = [batch EXCEPT ![h] = taken]
        /\ \A u \in taken : InSeq(album, u)
    <3>1. DOMAIN album = 1 .. Len(album)
      BY DEF AlbumTypes
    <3>2. batch' = [batch EXCEPT ![h] = taken]
      BY <1>6, Zenon DEF AlbumRead
    <3>3. \A u \in taken : InSeq(album, u)
      BY <3>1, Zenon DEF InSeq
    <3> QED
      BY <3>2, <3>3
  <2> HIDE DEF taken
  <2>2. /\ pc[h] = "collect" /\ batch[h] = {}
        /\ pc' = [pc EXCEPT ![h] = "delete"]
        /\ UNCHANGED <<seen, album, albumLock, batches, ignored>>
    BY <1>6 DEF AlbumRead
  <2>3. exposed' = exposed \cup (IF albumLock = h THEN {} ELSE taken)
    BY <1>6, Zenon DEF AlbumRead, taken
  <2> SUFFICES ASSUME NEW u \in Update \ (ignored' \cup exposed') PROVE OneLeader(u)'
    BY DEF OneLeaderEach
  <2>0. OneLeader(u)
    BY <2>2, <2>3
  <2>4. CASE u \in taken
    <3>1. InSeq(album, u) /\ batches[u] = 0 /\ u \in seen /\ albumLock = h
      BY <2>0, <2>1, <2>3, <2>4
    <3>2. \A g \in Handler : Of(g) = u => pc[g] # "push"
      BY <2>0, <3>1
    <3>3. \A g \in Handler : u \notin batch[g]
      BY <2>0, <2>2, <3>1
    <3> QED
      BY <2>1, <2>2, <2>4, <3>1, <3>2, <3>3
  <2>5. CASE u \notin taken
    <3>1. \A g \in Handler : u \in batch'[g] => g # h /\ u \in batch[g]
      BY <2>1, <2>5
    <3> QED
      BY <2>0, <2>2, <3>1
  <2> QED
    BY <2>4, <2>5
<1>7. ASSUME NEW h \in Handler, AlbumDelete(h)
      PROVE  OneLeaderEach'
  <2>1. /\ pc[h] = "delete" /\ pc' = [pc EXCEPT ![h] = "unlock"]
        /\ UNCHANGED <<seen, albumLock, batch, batches, ignored>>
    BY <1>7 DEF AlbumDelete
  <2>2. \/ album' = <<>> /\ exposed' = exposed
        \/ album' = album /\ exposed' = exposed \cup batch[h]
    BY <1>7 DEF AlbumDelete, DeleteRows
  <2> SUFFICES ASSUME NEW u \in Update \ (ignored' \cup exposed') PROVE OneLeader(u)'
    BY DEF OneLeaderEach
  <2>3. OneLeader(u)
    BY <2>1, <2>2
  <2>4. CASE album' = <<>>
    <3>1. ~InSeq(album', u)
      BY <2>4, EmptyFacts
    <3> QED
      BY <2>1, <2>3, <3>1
  <2>5. CASE album' = album /\ u \notin batch[h]
    BY <2>1, <2>3, <2>5
  <2> QED
    BY <2>2, <2>4, <2>5
<1>8. ASSUME NEW h \in Handler, AlbumUnlock(h)
      PROVE  OneLeaderEach'
  BY <1>8 DEF AlbumUnlock, LoseLock, Fault, Answer, Acknowledge
<1>9. ASSUME NEW h \in Handler, AlbumFails(h)
      PROVE  OneLeaderEach'
  BY <1>9 DEF AlbumFails, LoseLock, Fault
<1>10. ASSUME NEW h \in Handler, Inline(h)
      PROVE  OneLeaderEach'
  BY <1>10 DEF Inline, BeginTurn
<1>11. ASSUME NEW h \in Handler, Parallel(h)
      PROVE  OneLeaderEach'
  BY <1>11 DEF Parallel, BeginTurn, Acknowledge
<1>12. ASSUME NEW h \in Handler, TurnEnds(h)
      PROVE  OneLeaderEach'
  BY <1>12 DEF TurnEnds, Answer, Acknowledge
<1>13. ASSUME NEW h \in Handler, Enqueue(h)
      PROVE  OneLeaderEach'
  BY <1>13 DEF Enqueue, Answer, Acknowledge
<1>14. ASSUME NEW h \in Handler, EnqueueFails(h)
      PROVE  OneLeaderEach'
  BY <1>14 DEF EnqueueFails, Fault, Answer, Acknowledge
<1>15. CASE Dequeue
  BY <1>15 DEF Dequeue, Pop
<1>16. CASE Consume
  BY <1>16 DEF Consume, BeginTurn
<1>17. CASE Restart
  BY <1>17 DEF Restart, Fault
<1>18. CASE AlbumLockExpires
  BY <1>18 DEF AlbumLockExpires
<1>21. CASE AlbumLockRunsOut
  BY <1>21 DEF AlbumLockRunsOut, LoseLock, Fault
<1>19. CASE AlbumExpires
  <2>1. \A u : ~InSeq(album', u)
    BY <1>19, EmptyFacts DEF AlbumExpires
  <2> QED
    BY <1>19, <2>1 DEF AlbumExpires
<1>20. CASE UNCHANGED vars
  BY <1>20 DEF vars
<1> QED
  BY <1>1, <1>2, <1>3, <1>4, <1>5, <1>6, <1>7, <1>8, <1>9, <1>10, <1>11, <1>12, <1>13,
     <1>14, <1>15, <1>16, <1>17, <1>18, <1>19, <1>20, <1>21 DEF Next, WebhookStep,
     WebhookFault, ConsumerStep, RedisStep
-----------------------------------------------------------------------------
(* Every step keeps the count of the turns *)

\* LPUSH adds one place of its element, RPOP takes one of its element away.
LEMMA PlacesFacts ==
    ASSUME NEW q \in Seq(Update)
    PROVE  /\ \A u : IsFiniteSet(Places(q, u)) /\ Cardinality(Places(q, u)) \in Nat
           /\ \A u \in Update : \A x \in Update :
                 Cardinality(Places(<<u>> \o q, x))
                   = Cardinality(Places(q, x)) + (IF x = u THEN 1 ELSE 0)
           /\ q # <<>> => \A x \in Update :
                 Cardinality(Places(q, x))
                   = Cardinality(Places(Front(q), x)) + (IF x = Last(q) THEN 1 ELSE 0)
<1>1. ASSUME NEW s \in Seq(Update), NEW x
      PROVE  IsFiniteSet(Places(s, x)) /\ Cardinality(Places(s, x)) \in Nat
  <2>1. Places(s, x) \subseteq 1 .. Len(s) /\ IsFiniteSet(1 .. Len(s))
    BY FS_Interval DEF Places
  <2> QED
    BY <2>1, FS_Subset, FS_CardinalityType
<1>2. ASSUME NEW u \in Update, NEW x \in Update
      PROVE  Cardinality(Places(<<u>> \o q, x))
               = Cardinality(Places(q, x)) + (IF x = u THEN 1 ELSE 0)
  <2> DEFINE r == <<u>> \o q
             old == {i \in DOMAIN r : i # 1 /\ r[i] = x}
             f == [i \in Places(q, x) |-> i + 1]
  <2>1. /\ DOMAIN r = 1 .. (Len(q) + 1) /\ DOMAIN q = 1 .. Len(q) /\ Len(q) \in Nat
        /\ r[1] = u /\ \A i \in 1 .. Len(q) : r[i + 1] = q[i]
    OBVIOUS
  <2> HIDE DEF r
  <2>2. f \in [Places(q, x) -> old]
    BY <2>1 DEF Places
  <2>3. \A i, j \in Places(q, x) : f[i] = f[j] => i = j
    BY <2>1 DEF Places
  <2>4. \A j \in old : \E i \in Places(q, x) : f[i] = j
    <3> SUFFICES ASSUME NEW j \in old PROVE \E i \in Places(q, x) : f[i] = j
      OBVIOUS
    <3>1. j - 1 \in Places(q, x) /\ (j - 1) + 1 = j
      BY <2>1 DEF Places
    <3> QED
      BY <3>1
  <2>5. f \in Bijection(Places(q, x), old)
    BY <2>2, <2>3, <2>4, Fun_IsBij
  <2>6. IsFiniteSet(old) /\ Cardinality(old) = Cardinality(Places(q, x))
    BY <1>1, <2>5, FS_Bijection DEF ExistsBijection
  <2>7. CASE x = u
    <3>1. Places(r, x) = old \cup {1} /\ 1 \notin old
      BY <2>1, <2>7 DEF Places
    <3> QED
      BY <1>1, <2>6, <2>7, <3>1, FS_AddElement DEF r
  <2>8. CASE x # u
    <3>1. Places(r, x) = old
      BY <2>1, <2>8 DEF Places
    <3> HIDE DEF old
    <3>2. Cardinality(Places(q, x)) \in Nat
      BY <1>1
    <3> QED
      BY <2>6, <2>8, <3>1, <3>2 DEF r
  <2> QED
    BY <2>7, <2>8
<1>3. ASSUME q # <<>>, NEW x \in Update
      PROVE  Cardinality(Places(q, x))
               = Cardinality(Places(Front(q), x)) + (IF x = Last(q) THEN 1 ELSE 0)
  <2> DEFINE r == Front(q)
  <2>1. /\ r \in Seq(Update) /\ Len(q) \in Nat /\ Len(q) > 0 /\ Last(q) = q[Len(q)]
        /\ DOMAIN q = 1 .. Len(q) /\ DOMAIN r = 1 .. (Len(q) - 1)
        /\ \A i \in DOMAIN r : r[i] = q[i]
    BY <1>3 DEF Front, Last
  <2> HIDE DEF r
  <2>2. IsFiniteSet(Places(r, x)) /\ Cardinality(Places(r, x)) \in Nat
    BY <1>1, <2>1
  <2>3. CASE x = Last(q)
    <3>1. Places(q, x) = Places(r, x) \cup {Len(q)} /\ Len(q) \notin Places(r, x)
      BY <2>1, <2>3 DEF Places
    <3> QED
      BY <2>2, <2>3, <3>1, FS_AddElement DEF r
  <2>4. CASE x # Last(q)
    <3>1. Places(q, x) = Places(r, x)
      BY <2>1, <2>4 DEF Places
    <3> QED
      BY <2>2, <2>4, <3>1 DEF r
  <2> QED
    BY <2>3, <2>4
<1> QED
  BY <1>1, <1>2, <1>3

\* The runs of an update are as many as the times that it is sent at most.
LEMMA RunsFacts ==
    \A u \in Update : /\ IsFiniteSet({h \in Handler : Of(h) = u})
                      /\ Cardinality({h \in Handler : Of(h) = u}) = MaxTries
<1> SUFFICES ASSUME NEW u \in Update
             PROVE  /\ IsFiniteSet({h \in Handler : Of(h) = u})
                    /\ Cardinality({h \in Handler : Of(h) = u}) = MaxTries
  OBVIOUS
<1>1. IsFiniteSet(1 .. MaxTries) /\ Cardinality(1 .. MaxTries) = MaxTries
  BY TelegramAssumption, FS_Interval
<1>2. IsFiniteSet({u}) /\ Cardinality({u}) = 1
  BY FS_Singleton
<1>3. IsFiniteSet({u} \X (1 .. MaxTries)) /\ Cardinality({u} \X (1 .. MaxTries)) = MaxTries
  BY <1>1, <1>2, TelegramAssumption, FS_Product
<1>4. {h \in Handler : Of(h) = u} = {u} \X (1 .. MaxTries)
  BY DEF Handler, Of
<1> QED
  BY <1>3, <1>4

\* So are those of them that are past their turn.
LEMMA PassedFacts ==
    \A u \in Update : /\ IsFiniteSet(Passed(u))
                      /\ Cardinality(Passed(u)) \in 0 .. MaxTries
<1> SUFFICES ASSUME NEW u \in Update
             PROVE  IsFiniteSet(Passed(u)) /\ Cardinality(Passed(u)) \in 0 .. MaxTries
  OBVIOUS
<1>1. Passed(u) \subseteq {h \in Handler : Of(h) = u}
  BY DEF Passed
<1>2. /\ IsFiniteSet(Passed(u))
      /\ Cardinality(Passed(u)) <= Cardinality({h \in Handler : Of(h) = u})
  BY <1>1, RunsFacts, FS_Subset
<1>3. Cardinality(Passed(u)) \in Nat
  BY <1>2, FS_CardinalityType
<1> QED
  BY <1>2, <1>3, RunsFacts, TelegramAssumption

\* A run that is past its turn stays so.
LEMMA PassedGrows ==
    ASSUME Types, [Next]_vars
    PROVE  \A u \in Update : /\ Passed(u) \subseteq Passed(u)'
                             /\ Cardinality(Passed(u)) <= Cardinality(Passed(u)')
<1>1. ASSUME NEW u \in Update
      PROVE  Passed(u) \subseteq Passed(u)'
  <2> SUFFICES ASSUME NEW g \in Handler, pc[g] \in {"inline", "task", "over"}
               PROVE  pc'[g] \in {"inline", "task", "over"}
    BY DEF Passed
  <2>1. CASE \E v \in Update, k \in 1 .. MaxTries : Deliver(v, k)
    BY <2>1 DEF Types, Deliver, Goto
  <2>2. ASSUME NEW h \in Handler, WebhookStep(h) \/ WebhookFault(h)
        PROVE  pc'[g] \in {"inline", "task", "over"}
    <3>1. pc' = pc \/ \E l : pc' = [pc EXCEPT ![h] = l]
                             /\ (pc[h] \in {"inline", "task"} => l = "over") /\ pc[h] # "over"
      BY <2>2 DEF WebhookStep, WebhookFault, Dedupe, DedupeFails, AlbumPush, AlbumTryLock,
         AlbumRead, AlbumDelete, AlbumUnlock, AlbumFails, Inline, Parallel, TurnEnds, Enqueue,
         EnqueueFails, Answer, Goto
    <3> QED
      BY <3>1 DEF Types
  <2>3. CASE Restart
    BY <2>3 DEF Types, Restart, Working
  <2>4. CASE ConsumerStep \/ RedisStep \/ AlbumLockRunsOut \/ UNCHANGED vars
    BY <2>4 DEF ConsumerStep, RedisStep, Dequeue, Consume, AlbumLockExpires, AlbumLockRunsOut, AlbumExpires, vars
  <2> QED
    BY <2>1, <2>2, <2>3, <2>4 DEF Next
<1>2. ASSUME NEW u \in Update
      PROVE  Cardinality(Passed(u)) <= Cardinality(Passed(u)')
  <2>1. IsFiniteSet(Passed(u)')
    <3>1. Passed(u)' \subseteq {h \in Handler : Of(h) = u}
      BY DEF Passed
    <3> QED
      BY <3>1, RunsFacts, FS_Subset
  <2> QED
    BY <1>1, <2>1, FS_Subset
<1> QED
  BY <1>1, <1>2

\* A run that passes its turn is one more.
LEMMA PassedAdds ==
    ASSUME Types, NEW h \in Handler, pc[h] = "dispatch",
           NEW l \in {"inline", "task", "over"}, pc' = [pc EXCEPT ![h] = l]
    PROVE  Cardinality(Passed(Of(h))') = Cardinality(Passed(Of(h))) + 1
<1>1. Passed(Of(h))' = Passed(Of(h)) \cup {h} /\ h \notin Passed(Of(h))
  BY DEF Types, Passed
<1> QED
  BY <1>1, HandlerFacts, PassedFacts, FS_AddElement

\* One group of actions at a time: the count holds.
LEMMA CountStep == Types /\ CountOK /\ [Next]_vars => CountOK'
<1> SUFFICES ASSUME Types, CountOK, [Next]_vars, NEW u \in Update
             PROVE  Count(u)' <= Cardinality(Passed(u)')
  BY DEF CountOK
<1> DEFINE places == Cardinality(Places(queue, u))
<1>1. /\ places \in Nat /\ turns[u] \in Nat
      /\ Cardinality(Passed(u)) \in Nat
      /\ Count(u) <= Cardinality(Passed(u))
      /\ Count(u) = places + turns[u] + (IF consumer = u THEN 1 ELSE 0)
  BY PlacesFacts, PassedFacts DEF Types, CountOK, Count
<1>2. Cardinality(Passed(u)') \in Nat /\ Cardinality(Passed(u)) <= Cardinality(Passed(u)')
  <2>1. IsFiniteSet(Passed(u)')
    <3>1. Passed(u)' \subseteq {h \in Handler : Of(h) = u}
      BY DEF Passed
    <3> QED
      BY <3>1, RunsFacts, FS_Subset
  <2> QED
    BY <2>1, PassedGrows, FS_CardinalityType
<1>3. Count(u)' = Cardinality(Places(queue', u)) + turns'[u] + (IF consumer' = u THEN 1 ELSE 0)
  BY DEF Count
<1> HIDE DEF places
<1>4. ASSUME NEW h \in Handler, Inline(h) \/ Parallel(h)
      PROVE  Count(u)' <= Cardinality(Passed(u)')
  <2>1. UNCHANGED <<queue, consumer>> /\ turns' = [turns EXCEPT ![Of(h)] = @ + 1]
    BY <1>4 DEF Inline, Parallel, BeginTurn, queueVars
  <2>2. u = Of(h) => Cardinality(Passed(u)') = Cardinality(Passed(u)) + 1
    BY <1>4, PassedAdds DEF Inline, Parallel, Goto
  <2>3. turns'[u] = turns[u] + (IF u = Of(h) THEN 1 ELSE 0)
    BY <2>1, HandlerFacts DEF Types
  <2> QED
    BY <1>1, <1>2, <1>3, <2>1, <2>2, <2>3 DEF places
<1>5. ASSUME NEW h \in Handler, Enqueue(h)
      PROVE  Count(u)' <= Cardinality(Passed(u)')
  <2>1. UNCHANGED <<turns, consumer>> /\ queue' = <<Of(h)>> \o queue
    BY <1>5 DEF Enqueue
  <2>2. u = Of(h) => Cardinality(Passed(u)') = Cardinality(Passed(u)) + 1
    BY <1>5, PassedAdds DEF Enqueue, Answer, Goto
  <2>3. Cardinality(Places(queue', u)) = places + (IF u = Of(h) THEN 1 ELSE 0)
    BY <2>1, HandlerFacts, PlacesFacts DEF Types, places
  <2> QED
    BY <1>1, <1>2, <1>3, <2>1, <2>2, <2>3
<1>6. CASE Dequeue
  <2>1. /\ queue # <<>> /\ consumer = Nobody
        /\ consumer' = Last(queue) /\ queue' = Front(queue) /\ turns' = turns
    BY <1>6 DEF Dequeue, Pop
  <2>2. places = Cardinality(Places(queue', u)) + (IF u = Last(queue) THEN 1 ELSE 0)
    BY <2>1, PlacesFacts DEF Types, places
  <2>3. Cardinality(Places(queue', u)) \in Nat
    BY <1>6, TypesStep, PlacesFacts DEF Types
  <2>4. consumer # u
    BY <2>1, NobodyAssumption
  <2> QED
    BY <1>1, <1>2, <1>3, <2>1, <2>2, <2>3, <2>4
<1>7. CASE Consume
  <2>1. /\ consumer # Nobody /\ consumer' = Nobody /\ queue' = queue
        /\ turns' = [turns EXCEPT ![consumer] = @ + 1]
    BY <1>7 DEF Consume, BeginTurn
  <2>2. turns'[u] = turns[u] + (IF consumer = u THEN 1 ELSE 0) /\ consumer' # u
    BY <2>1, NobodyAssumption DEF Types
  <2> QED
    BY <1>1, <1>2, <1>3, <2>1, <2>2 DEF places
<1>8. ASSUME UNCHANGED <<queue, turns>>, consumer' \in {consumer, Nobody}
      PROVE  Count(u)' <= Cardinality(Passed(u)')
  <2>1. consumer' = u => consumer = u
    BY <1>8, NobodyAssumption
  <2> QED
    BY <1>1, <1>2, <1>3, <1>8, <2>1 DEF places
<1>9. CASE Restart
  BY <1>8, <1>9 DEF Restart
<1>10. CASE (\E v \in Update, k \in 1 .. MaxTries : Deliver(v, k)) \/ RedisStep \/ AlbumLockRunsOut \/ UNCHANGED vars
  BY <1>8, <1>10 DEF Deliver, RedisStep, AlbumLockExpires, AlbumLockRunsOut, AlbumExpires, vars, queueVars
<1>11. ASSUME NEW h \in Handler,
              Dedupe(h) \/ AlbumPush(h) \/ AlbumTryLock(h) \/ AlbumRead(h) \/ AlbumDelete(h)
                \/ AlbumUnlock(h) \/ TurnEnds(h) \/ WebhookFault(h)
       PROVE  Count(u)' <= Cardinality(Passed(u)')
  BY <1>8, <1>11 DEF Dedupe, AlbumPush, AlbumTryLock, AlbumRead, AlbumDelete, AlbumUnlock,
     TurnEnds, WebhookFault, DedupeFails, AlbumFails, EnqueueFails, queueVars
<1> QED
  BY <1>4, <1>5, <1>6, <1>7, <1>9, <1>10, <1>11 DEF Next, WebhookStep, ConsumerStep

\* The types that are left: only photos are pushed, so only photos are taken.
LEMMA OtherTypesStep ==
    Types /\ OtherTypes /\ AlbumTypes /\ PlacesOK /\ [Next]_vars => OtherTypes'
<1> SUFFICES ASSUME Types, OtherTypes, AlbumTypes, PlacesOK, [Next]_vars PROVE OtherTypes'
  OBVIOUS
<1>1. mode' \in Modes
  BY DEF OtherTypes, Next, vars, Deliver, WebhookStep, WebhookFault, ConsumerStep, RedisStep, Restart,
     Dedupe, DedupeFails, AlbumPush, AlbumTryLock, AlbumRead, AlbumDelete, AlbumUnlock, AlbumFails,
     Inline, Parallel, TurnEnds, Enqueue, EnqueueFails, Dequeue, Consume, AlbumLockExpires, AlbumLockRunsOut, AlbumExpires
<1>2. faults' \in 0 .. MaxFaults
  <2>1. faults' = faults \/ Fault
    BY DEF Next, vars, Deliver, WebhookStep, WebhookFault, ConsumerStep, RedisStep, Restart,
       Dedupe, DedupeFails, AlbumPush, AlbumTryLock, AlbumRead, AlbumDelete, AlbumUnlock, AlbumFails,
       Inline, Parallel, TurnEnds, Enqueue, EnqueueFails, Dequeue, Consume, AlbumLockExpires, AlbumLockRunsOut, AlbumExpires
  <2> QED
    BY <2>1, TelegramAssumption DEF Fault, OtherTypes
<1>3. album' \in Seq(Photo)
  <2>1. album' = album \/ album' = <<>> \/ \E h \in Handler : AlbumPush(h)
    BY DEF Next, vars, Deliver, WebhookStep, WebhookFault, ConsumerStep, RedisStep, Restart,
       Dedupe, DedupeFails, AlbumTryLock, AlbumRead, AlbumDelete, DeleteRows, AlbumUnlock, AlbumFails,
       Inline, Parallel, TurnEnds, Enqueue, EnqueueFails, Dequeue, Consume, AlbumLockExpires, AlbumLockRunsOut,
       AlbumExpires, albumVars
  <2>2. <<>> \in Seq(Photo)
    OBVIOUS
  <2>3. ASSUME NEW h \in Handler, AlbumPush(h)
        PROVE  album' \in Seq(Photo)
    BY <2>3 DEF AlbumPush, PlacesOK, OtherTypes
  <2> QED
    BY <2>1, <2>2, <2>3 DEF OtherTypes
<1>4. batch' \in [Handler -> SUBSET Photo]
  <2>1. \/ batch' = batch
        \/ batch' = [h \in Handler |-> {}]
        \/ \E h \in Handler : AlbumRead(h) \/ AlbumUnlock(h)
    BY DEF Next, vars, Deliver, WebhookStep, WebhookFault, ConsumerStep, RedisStep, Restart,
       Dedupe, DedupeFails, AlbumPush, AlbumTryLock, AlbumDelete, AlbumFails,
       Inline, Parallel, TurnEnds, Enqueue, EnqueueFails, Dequeue, Consume, AlbumLockExpires, AlbumLockRunsOut,
       AlbumExpires, albumVars
  <2>2. ASSUME NEW h \in Handler, AlbumRead(h)
        PROVE  batch' \in [Handler -> SUBSET Photo]
    <3> DEFINE taken == {u \in Update : \E i \in 1 .. Len(album) : album[i] = u /\
                           Cardinality({album[j] : j \in 1 .. i}) <= MaxInBatch}
    <3>1. batch' = [batch EXCEPT ![h] = taken]
      BY <2>2, Zenon DEF AlbumRead
    <3>2. \A i \in 1 .. Len(album) : album[i] \in Photo
      BY DEF OtherTypes
    <3>3. taken \subseteq Photo
      BY <3>2, Zenon
    <3> HIDE DEF taken
    <3> QED
      BY <3>1, <3>3 DEF OtherTypes
  <2>3. ASSUME NEW h \in Handler, AlbumUnlock(h)
        PROVE  batch' \in [Handler -> SUBSET Photo]
    BY <2>3 DEF AlbumUnlock, LoseLock, Fault, OtherTypes
  <2> QED
    BY <2>1, <2>2, <2>3 DEF OtherTypes
<1>5. exposed' \in SUBSET Photo
  <2>1. \/ exposed' = exposed \/ AlbumLockRunsOut
        \/ \E h \in Handler : AlbumRead(h) \/ AlbumDelete(h) \/ AlbumUnlock(h) \/ AlbumFails(h)
    BY DEF Next, vars, Deliver, WebhookStep, WebhookFault, ConsumerStep, RedisStep, Restart,
       Dedupe, DedupeFails, AlbumPush, AlbumTryLock, EnqueueFails,
       Inline, Parallel, TurnEnds, Enqueue, Dequeue, Consume, AlbumLockExpires, AlbumExpires,
       albumVars
  <2>2. ASSUME NEW h \in Handler, AlbumRead(h)
        PROVE  exposed' \in SUBSET Photo
    <3> DEFINE taken == {u \in Update : \E i \in 1 .. Len(album) : album[i] = u /\
                           Cardinality({album[j] : j \in 1 .. i}) <= MaxInBatch}
    <3>1. exposed' = exposed \cup (IF albumLock = h THEN {} ELSE taken)
      BY <2>2, Zenon DEF AlbumRead
    <3>2. \A i \in 1 .. Len(album) : album[i] \in Photo
      BY DEF OtherTypes
    <3>3. taken \subseteq Photo
      BY <3>2, Zenon
    <3> HIDE DEF taken
    <3> QED
      BY <3>1, <3>3 DEF OtherTypes
  <2>3. ASSUME NEW h \in Handler \cup {Nobody}, LoseLock(h)
        PROVE  exposed' \in SUBSET Photo
    <3>1. albumLock \in {h, Nobody} \/ albumLock \in Handler
      BY DEF AlbumTypes
    <3> QED
      BY <2>3, <3>1 DEF LoseLock, OtherTypes
  <2>4. ASSUME NEW h \in Handler, AlbumDelete(h) \/ AlbumUnlock(h) \/ AlbumFails(h)
        PROVE  exposed' \in SUBSET Photo
    BY <2>3, <2>4 DEF AlbumDelete, AlbumUnlock, AlbumFails, OtherTypes
  <2>5. CASE AlbumLockRunsOut
    BY <2>3, <2>5 DEF AlbumLockRunsOut
  <2> QED
    BY <2>1, <2>2, <2>4, <2>5 DEF OtherTypes
<1> QED
  BY <1>1, <1>2, <1>3, <1>4, <1>5 DEF OtherTypes
-----------------------------------------------------------------------------
(* Theorems *)

TelegramIInv ==
    Types /\ OnePlaceEach /\ PlacesOK /\ SeenIsCarried /\ AlbumTypes /\ LeaderOK
    /\ OneLeaderEach /\ CountOK /\ OtherTypes

\* The inductive invariant.
THEOREM TelegramInvariant == Spec => []TelegramIInv
<1>1. Init => TelegramIInv
  <2> SUFFICES ASSUME Init PROVE TelegramIInv
    OBVIOUS
  <2>1. Types /\ OnePlaceEach /\ PlacesOK /\ SeenIsCarried /\ AlbumTypes /\ LeaderOK
        /\ OneLeaderEach
    BY TelegramAssumption, NobodyAssumption DEF Init, Types, OnePlaceEach, OnePlace, Queued, Pending,
       PlacesOK, SeenIsCarried, AlbumTypes, LeaderOK, OneLeaderEach, OneLeader, Untaken, InSeq, Once,
       PC, Working, InAlbum
  <2>2. CountOK
    <3> SUFFICES ASSUME NEW u \in Update PROVE Count(u) <= Cardinality(Passed(u))
      BY DEF CountOK
    <3>1. Places(queue, u) = {} /\ turns[u] = 0 /\ consumer # u
      BY NobodyAssumption DEF Init, Places
    <3>2. Count(u) = 0
      BY <3>1, FS_EmptySet DEF Count
    <3> QED
      BY <3>2, PassedFacts
  <2>3. OtherTypes
    BY TelegramAssumption DEF Init, OtherTypes
  <2> QED
    BY <2>1, <2>2, <2>3 DEF TelegramIInv
<1>2. TelegramIInv /\ [Next]_vars => TelegramIInv'
  BY TypesStep, OnePlaceStep, PlacesStep, CarriedStep, AlbumTypesStep, LeaderStep,
     OneLeaderStep, CountStep, OtherTypesStep
     DEF TelegramIInv
<1> QED
  BY <1>1, <1>2, PTL DEF Spec

\* Every variable keeps its type, and an update is queued or has its turn no more
\* often than it was sent, however many updates, resends, errors and restarts.
THEOREM TelegramTypeCorrect == Spec => []TypeOK
<1>1. TelegramIInv => TypeOK
  <2> SUFFICES ASSUME TelegramIInv PROVE TypeOK
    OBVIOUS
  <2> USE DEF TelegramIInv
  <2>1. ASSUME NEW u \in Update
        PROVE  Cardinality({i \in DOMAIN queue : queue[i] = u}) + turns[u] <= MaxTries
    <3> DEFINE places == Cardinality({i \in DOMAIN queue : queue[i] = u})
    <3>1. places = Cardinality(Places(queue, u)) /\ places \in Nat /\ turns[u] \in Nat
      BY PlacesFacts DEF Types, Places
    <3>2. places + turns[u] + (IF consumer = u THEN 1 ELSE 0) <= Cardinality(Passed(u))
      BY <3>1 DEF CountOK, Count
    <3>3. Cardinality(Passed(u)) \in 0 .. MaxTries
      BY PassedFacts
    <3> HIDE DEF places
    <3>4. places + turns[u] <= MaxTries
      BY <3>1, <3>2, <3>3, TelegramAssumption
    <3> QED
      BY <3>4 DEF places
  <2>2. turns \in [Update -> 0 .. MaxTries]
    <3>1. ASSUME NEW u \in Update PROVE turns[u] \in 0 .. MaxTries
      <4>1. Cardinality({i \in DOMAIN queue : queue[i] = u}) \in Nat /\ turns[u] \in Nat
        BY PlacesFacts DEF Types, Places
      <4> QED
        BY <2>1, <4>1, TelegramAssumption
    <3> QED
      BY <3>1 DEF Types
  <2> QED
    BY <2>1, <2>2 DEF TypeOK, Types, AlbumTypes, OtherTypes
<1> QED
  BY <1>1, TelegramInvariant, PTL

\* However often Telegram sends an update and whichever way its turn runs, it has
\* one turn, unless Redis did not answer when the update was to be checked.
THEOREM TelegramOneTurn == Spec => []OneTurn
<1>1. TelegramIInv => OneTurn
  BY DEF TelegramIInv, OnePlaceEach, OnePlace, OneTurn
<1> QED
  BY <1>1, TelegramInvariant, PTL

\* A text that was answered has its turn or is on its way to it, unless an error
\* or a restart is to blame.
THEOREM TelegramTextIsCarried == Spec => []TextIsCarried
<1>1. TelegramIInv => TextIsCarried
  BY DEF TelegramIInv, SeenIsCarried, Carried, Queued, InSeq, TextIsCarried, Runs
<1> QED
  BY <1>1, TelegramInvariant, PTL

\* A photo is in the batch of one leader only, unless it went by without its dedupe
\* key, or a leader read it without the lock, lost the lock with it in hand or could
\* not delete its row.
THEOREM TelegramOneBatch == Spec => []OneBatch
<1>1. TelegramIInv => OneBatch
  BY TelegramAssumption DEF TelegramIInv, OneLeaderEach, OneLeader, OneBatch
<1> QED
  BY <1>1, TelegramInvariant, PTL
-----------------------------------------------------------------------------
(* The way of a text implements Delivery *)

Text == Update \ Photo

\* A text that was sent, one that a run, the queue or the consumer has, and one
\* that has had its turn.
WasSent(u) == \E h \in Handler : Of(h) = u /\ pc[h] # "none"
HeldText(u) ==
    \/ \E h \in Handler : Of(h) = u /\ pc[h] \in Working
    \/ consumer = u \/ Queued(u)
Turned == {u \in Text : turns[u] > 0}

\* What is on its way was sent.
LEMMA HeldTextWasSent ==
    ASSUME TelegramIInv, NEW u \in Update, HeldText(u)
    PROVE  WasSent(u)
<1>1. CASE \E h \in Handler : Of(h) = u /\ pc[h] \in Working
  BY <1>1 DEF WasSent, Working, InAlbum
<1>2. CASE consumer = u \/ Queued(u)
  <2>1. /\ Cardinality(Places(queue, u)) \in Nat /\ turns[u] \in Nat
        /\ IsFiniteSet(Places(queue, u))
        /\ Cardinality(Passed(u)) \in Nat
        /\ Count(u) <= Cardinality(Passed(u))
    BY PlacesFacts, PassedFacts DEF TelegramIInv, Types, CountOK
  <2>2. Queued(u) => Cardinality(Places(queue, u)) > 0
    <3>1. ASSUME Queued(u) PROVE Places(queue, u) # {}
      BY <3>1 DEF Queued, InSeq, Places
    <3> QED
      BY <2>1, <3>1, FS_EmptySet
  <2>3. Count(u) > 0
    BY <1>2, <2>1, <2>2 DEF Count
  <2>4. Count(u) = Cardinality(Places(queue, u)) + turns[u] + (IF consumer = u THEN 1 ELSE 0)
    BY DEF Count
  <2>5. Cardinality(Passed(u)) # 0
    BY <2>1, <2>3, <2>4
  <2>6. Passed(u) # {}
    BY <2>5, FS_EmptySet
  <2> QED
    BY <2>6 DEF Passed, WasSent
<1> QED
  BY <1>1, <1>2 DEF HeldText

\* A step of the webhook moves one of its runs, which was at work, and takes nothing
\* from the queue or its consumer.
LEMMA WebhookMoves ==
    ASSUME Types, NEW h \in Handler, WebhookStep(h) \/ WebhookFault(h)
    PROVE  /\ pc[h] \in Working
           /\ pc'[h] \in Working \cup {"over"}
           /\ \A g \in Handler : g # h => pc'[g] = pc[g]
           /\ consumer' = consumer
           /\ \A u : Queued(u)' <=> Queued(u) \/ (Enqueue(h) /\ u = Of(h))
<1> USE HandlerFacts DEF Types, Working, InAlbum, Goto, Answer, queueVars
<1>1. pc[h] \in Working /\ \E l \in Working \cup {"over"} : pc' = [pc EXCEPT ![h] = l]
  BY DEF WebhookStep, WebhookFault, Dedupe, DedupeFails, AlbumPush, AlbumTryLock, AlbumRead,
     AlbumDelete, AlbumUnlock, AlbumFails, Inline, Parallel, TurnEnds, Enqueue, EnqueueFails,
     AfterDedupe
<1>2. consumer' = consumer
  BY DEF WebhookStep, WebhookFault, Dedupe, DedupeFails, AlbumPush, AlbumTryLock, AlbumRead,
     AlbumDelete, AlbumUnlock, AlbumFails, Inline, Parallel, TurnEnds, Enqueue, EnqueueFails
<1>3. CASE Enqueue(h)
  BY <1>1, <1>2, <1>3, PushFacts DEF Enqueue, Queued
<1>4. CASE ~Enqueue(h)
  <2>1. queue' = queue
    BY <1>4 DEF WebhookStep, WebhookFault, Dedupe, DedupeFails, AlbumPush, AlbumTryLock,
       AlbumRead, AlbumDelete, AlbumUnlock, AlbumFails, Inline, Parallel, TurnEnds, EnqueueFails
  <2> QED
    BY <1>1, <1>2, <1>4, <2>1 DEF Queued
<1> QED
  BY <1>3, <1>4

\* BRPOP moves a job to the consumer.
LEMMA DequeueMoves ==
    ASSUME Types, Dequeue
    PROVE  \A u \in Update : Queued(u) \/ consumer = u <=> Queued(u)' \/ consumer' = u
  BY NobodyAssumption, PopFacts DEF Types, Dequeue, Pop, Queued

\* Nothing but the delivery of an update sends one, or puts one on its way.
LEMMA OnlyDeliverySends ==
    ASSUME TelegramIInv, [Next]_vars, NEW u \in Update,
           ~\E k \in 1 .. MaxTries : Deliver(u, k)
    PROVE  /\ WasSent(u)' <=> WasSent(u)
           /\ HeldText(u)' => HeldText(u)
<1> DEFINE Goal == (WasSent(u)' <=> WasSent(u)) /\ (HeldText(u)' => HeldText(u))
<1>1. Types
  BY DEF TelegramIInv
<1>2. ASSUME NEW v \in Update, NEW k \in 1 .. MaxTries, Deliver(v, k)
      PROVE  Goal
  <2>1. v # u
    BY <1>2
  <2>2. \A h \in Handler : Of(h) = u => pc'[h] = pc[h]
    BY <1>1, <1>2, <2>1, HandlerFacts DEF Deliver, Goto, Types
  <2> QED
    BY <1>2, <2>2 DEF Deliver, queueVars, WasSent, HeldText, Queued
<1>3. ASSUME NEW h \in Handler, WebhookStep(h) \/ WebhookFault(h)
      PROVE  Goal
  <2>1. /\ pc[h] \in Working /\ pc[h] # "none" /\ pc'[h] # "none"
        /\ \A g \in Handler : g # h => pc'[g] = pc[g]
        /\ consumer' = consumer
        /\ Queued(u)' => Queued(u) \/ u = Of(h)
    BY <1>1, <1>3, WebhookMoves DEF Working, InAlbum
  <2> QED
    BY <2>1 DEF WasSent, HeldText
<1>4. CASE Dequeue
  <2>1. pc' = pc
    BY <1>4 DEF Dequeue
  <2> QED
    BY <1>1, <1>4, <2>1, DequeueMoves DEF WasSent, HeldText
<1>5. CASE Consume
  BY <1>5, NobodyAssumption DEF Consume, WasSent, HeldText, Queued
<1>6. CASE Restart
  <2>1. \A h \in Handler : pc'[h] = IF pc[h] \in Working THEN "over" ELSE pc[h]
    BY <1>6 DEF Restart
  <2>2. "none" \notin Working /\ "over" \notin Working
    BY DEF Working, InAlbum
  <2>3. consumer' # u /\ (Queued(u)' <=> Queued(u))
    BY <1>6, NobodyAssumption DEF Restart, Queued
  <2> QED
    BY <2>1, <2>2, <2>3 DEF WasSent, HeldText
<1>7. CASE RedisStep \/ AlbumLockRunsOut \/ UNCHANGED vars
  <2>1. UNCHANGED <<pc, consumer, queue>>
    BY <1>7 DEF RedisStep, AlbumLockExpires, AlbumLockRunsOut, AlbumExpires, queueVars, vars
  <2> QED
    BY <2>1 DEF WasSent, HeldText, Queued
<1> QED
  BY <1>2, <1>3, <1>4, <1>5, <1>6, <1>7 DEF Next, ConsumerStep

\* A text leaves its last place only with its turn or with a loss on record: the
\* copies that Telegram sends again are dropped for one that is on its way.
LEMMA TextLeavesSettled ==
    ASSUME TelegramIInv, TelegramIInv', [Next]_vars, NEW u \in Text, HeldText(u)
    PROVE  HeldText(u)' \/ turns'[u] > 0 \/ u \in lost'
<1> DEFINE Goal == HeldText(u)' \/ turns'[u] > 0 \/ u \in lost'
<1>1. Types /\ PlacesOK /\ u \in Update /\ u \notin Photo
  BY DEF TelegramIInv, Text
<1>2. ASSUME NEW v \in Update, NEW k \in 1 .. MaxTries, Deliver(v, k)
      PROVE  Goal
  <2>1. \A h \in Handler : pc[h] \in Working => pc'[h] = pc[h]
    BY <1>1, <1>2, HandlerFacts DEF Deliver, Goto, Types, Working, InAlbum
  <2> QED
    BY <1>2, <2>1 DEF Deliver, queueVars, HeldText, Queued
<1>3. ASSUME NEW h \in Handler, WebhookStep(h) \/ WebhookFault(h)
      PROVE  Goal
  <2>1. /\ pc[h] \in Working
        /\ \A g \in Handler : g # h => pc'[g] = pc[g]
        /\ consumer' = consumer
        /\ Queued(u)' <=> Queued(u) \/ (Enqueue(h) /\ u = Of(h))
    BY <1>1, <1>3, WebhookMoves
  <2>2. CASE Of(h) # u \/ pc'[h] \in Working
    BY <2>1, <2>2 DEF HeldText
  <2>3. CASE Of(h) = u /\ pc'[h] \notin Working
    <3>1. pc[h] \notin InAlbum \cup {"push"}
      BY <1>1, <2>3 DEF PlacesOK
    <3>2. CASE Dedupe(h)
      <4>1. u \in seen'
        BY <1>1, <2>3, <3>2 DEF Dedupe, Seen, Goto, AfterDedupe, Types, Working, InAlbum
      <4>2. Carried(u)' \/ u \in lost'
        BY <1>1, <4>1 DEF TelegramIInv, SeenIsCarried
      <4> QED
        BY <4>2 DEF Carried, HeldText
    <3>3. CASE Inline(h) \/ Parallel(h)
      BY <1>1, <2>3, <3>3 DEF Inline, Parallel, BeginTurn, Types
    <3>4. CASE TurnEnds(h)
      BY <1>1, <2>3, <3>4 DEF TurnEnds, PlacesOK
    <3>5. CASE Enqueue(h)
      BY <2>1, <2>3, <3>5 DEF HeldText
    <3>6. CASE EnqueueFails(h)
      BY <2>3, <3>6 DEF EnqueueFails
    <3>7. CASE DedupeFails(h)
      BY <1>1, <2>3, <3>7 DEF DedupeFails, Goto, AfterDedupe, Types, Working, InAlbum
    <3>8. ~(AlbumPush(h) \/ AlbumTryLock(h) \/ AlbumRead(h) \/ AlbumDelete(h)
            \/ AlbumUnlock(h) \/ AlbumFails(h))
      BY <3>1 DEF AlbumPush, AlbumTryLock, AlbumRead, AlbumDelete, AlbumUnlock, AlbumFails,
         InAlbum
    <3> QED
      BY <1>3, <3>2, <3>3, <3>4, <3>5, <3>6, <3>7, <3>8 DEF WebhookStep, WebhookFault
  <2> QED
    BY <2>2, <2>3
<1>4. CASE Dequeue
  <2>1. pc' = pc
    BY <1>4 DEF Dequeue
  <2> QED
    BY <1>1, <1>4, <2>1, DequeueMoves DEF HeldText
<1>5. CASE Consume
  <2>1. CASE consumer = u
    BY <1>1, <1>5, <2>1 DEF Consume, BeginTurn, Types
  <2>2. CASE consumer # u
    BY <1>5, <2>2 DEF Consume, HeldText, Queued
  <2> QED
    BY <2>1, <2>2
<1>6. CASE Restart
  <2>1. Queued(u) => Queued(u)'
    BY <1>6 DEF Restart, Queued
  <2>2. consumer = u => u \in lost'
    BY <1>1, <1>6, NobodyAssumption DEF Restart
  <2>3. (\E h \in Handler : Of(h) = u /\ pc[h] \in Working) => u \in lost'
    BY <1>6 DEF Restart
  <2> QED
    BY <2>1, <2>2, <2>3 DEF HeldText
<1>7. CASE RedisStep \/ AlbumLockRunsOut \/ UNCHANGED vars
  <2>1. UNCHANGED <<pc, consumer, queue>>
    BY <1>7 DEF RedisStep, AlbumLockExpires, AlbumLockRunsOut, AlbumExpires, queueVars, vars
  <2> QED
    BY <2>1 DEF HeldText, Queued
<1> QED
  BY <1>2, <1>3, <1>4, <1>5, <1>6, <1>7 DEF Next, ConsumerStep

\* What a step makes of the texts: it begins the turn of one, loses some that were
\* sent, or leaves the outcomes alone.
LEMMA TextOutcomeStep ==
    ASSUME TelegramIInv, [Next]_vars
    PROVE  \/ /\ UNCHANGED lost
              /\ \E u \in Text : WasSent(u) /\ Turned' = Turned \cup {u}
           \/ /\ UNCHANGED Turned
              /\ \E W \in SUBSET {u \in Text : WasSent(u)} :
                    lost' \ Photo = (lost \ Photo) \cup W
           \/ UNCHANGED <<Turned, lost>>
<1> DEFINE Ends == /\ UNCHANGED lost
                   /\ \E u \in Text : WasSent(u) /\ Turned' = Turned \cup {u}
           Loses == /\ UNCHANGED Turned
                    /\ \E W \in SUBSET {u \in Text : WasSent(u)} :
                          lost' \ Photo = (lost \ Photo) \cup W
<1>1. Types
  BY DEF TelegramIInv
<1>2. ASSUME UNCHANGED turns PROVE UNCHANGED Turned
  BY <1>2 DEF Turned
<1>3. ASSUME NEW v \in Update, BeginTurn(v), UNCHANGED lost, WasSent(v)
      PROVE  Ends \/ UNCHANGED <<Turned, lost>>
  <2>1. \A u \in Update : turns'[u] = IF u = v THEN turns[v] + 1 ELSE turns[u]
    BY <1>1, <1>3 DEF BeginTurn, Types
  <2>2. v \in Text => Turned' = Turned \cup {v}
    BY <1>1, <2>1 DEF Turned, Text, Types
  <2>3. v \notin Text => Turned' = Turned
    BY <2>1 DEF Turned, Text
  <2> QED
    BY <1>3, <2>2, <2>3
<1>4. ASSUME NEW h \in Handler, Inline(h) \/ Parallel(h)
      PROVE  Ends \/ UNCHANGED <<Turned, lost>>
  BY <1>3, <1>4, HandlerFacts DEF Inline, Parallel, WasSent
<1>5. CASE Consume
  <2>1. consumer \in Update /\ HeldText(consumer)
    BY <1>1, <1>5 DEF Consume, Types, HeldText
  <2>2. WasSent(consumer)
    BY <2>1, HeldTextWasSent
  <2> QED
    BY <1>3, <1>5, <2>1, <2>2 DEF Consume
<1>6. ASSUME NEW h \in Handler, EnqueueFails(h)
      PROVE  Loses
  <2>1. {Of(h)} \ Photo \in SUBSET {u \in Text : WasSent(u)}
    BY <1>6, HandlerFacts DEF EnqueueFails, WasSent, Text
  <2>2. lost' \ Photo = (lost \ Photo) \cup ({Of(h)} \ Photo) /\ UNCHANGED turns
    BY <1>6 DEF EnqueueFails
  <2> QED
    BY <1>2, <2>1, <2>2
<1>7. CASE Restart
  <2> DEFINE L == {Of(h) : h \in {g \in Handler : pc[g] \in Working}}
                    \cup ({consumer} \ {Nobody})
  <2>1. \A u \in L : u \in Update /\ HeldText(u)
    BY <1>1, HandlerFacts DEF Types, HeldText
  <2>2. L \ Photo \in SUBSET {u \in Text : WasSent(u)}
    BY <2>1, HeldTextWasSent DEF Text
  <2>3. lost' = lost \cup L /\ UNCHANGED turns
    BY <1>7 DEF Restart
  <2>4. lost' \ Photo = (lost \ Photo) \cup (L \ Photo)
    BY <2>3
  <2> HIDE DEF L
  <2> QED
    BY <1>2, <2>2, <2>3, <2>4
<1>8. \/ \E h \in Handler : Inline(h) \/ Parallel(h) \/ EnqueueFails(h)
      \/ Consume \/ Restart
      \/ UNCHANGED <<turns, lost>>
  BY DEF Next, WebhookStep, WebhookFault, ConsumerStep, RedisStep, Deliver, Dedupe,
     DedupeFails, AlbumPush, AlbumTryLock, AlbumRead, AlbumDelete, AlbumUnlock, AlbumFails,
     TurnEnds, Enqueue, Dequeue, AlbumLockExpires, AlbumLockRunsOut, AlbumExpires, vars
<1> QED
  BY <1>2, <1>4, <1>5, <1>6, <1>7, <1>8

\* Every step is a step of Delivery.
LEMMA TextDeliveryStep ==
    ASSUME TelegramIInv, TelegramIInv', [Next]_vars
    PROVE  [Promise!Next]_Promise!deliveryVars
<1> DEFINE accepted == {u \in Text : WasSent(u)}
           kept == {u \in Text : HeldText(u)}
           gone == lost \ Photo
<1>1. Types /\ Text \subseteq Update
  BY DEF TelegramIInv, Text
<1>2. /\ kept = {u \in Update \ Photo :
                    Runs(u) # {} \/ consumer = u \/ \E i \in DOMAIN queue : queue[i] = u}
      /\ kept' = {u \in Update \ Photo :
                    Runs(u)' # {} \/ consumer' = u \/ \E i \in DOMAIN queue' : queue'[i] = u}
  BY DEF HeldText, Runs, Queued, InSeq, Text
<1> HIDE DEF accepted, kept, gone
<1>3. ASSUME NEW v \in Text, NEW k \in 1 .. MaxTries, Deliver(v, k)
      PROVE  Promise!Accept(v)
  <2>1. <<v, k>> \in Handler /\ Of(<<v, k>>) = v /\ pc' = [pc EXCEPT ![<<v, k>>] = "dedupe"]
        /\ pc[<<v, k>>] = "none"
    BY <1>1, <1>3, HandlerFacts DEF Deliver, Goto
  <2>2. /\ pc'[<<v, k>>] = "dedupe"
        /\ \A h \in Handler : Of(h) # v => pc'[h] = pc[h]
        /\ \A h \in Handler : h # <<v, k>> => pc'[h] = pc[h]
    BY <1>1, <2>1 DEF Types
  <2>3. "dedupe" \in Working /\ "none" \notin Working
    BY DEF Working, InAlbum
  <2>4. UNCHANGED <<queue, consumer, turns, lost>>
    BY <1>3 DEF Deliver, queueVars
  <2>5. accepted' = accepted \cup {v}
    BY <2>1, <2>2 DEF accepted, WasSent
  <2>6. kept' = kept \cup {v}
    BY <2>1, <2>2, <2>3, <2>4 DEF kept, HeldText, Queued
  <2>7. Turned' = Turned /\ gone' = gone
    BY <2>4 DEF Turned, gone
  <2> QED
    BY <1>2, <2>5, <2>6, <2>7 DEF Promise!Accept, accepted, WasSent, Turned, Text, gone
<1>4. CASE ~\E v \in Text, k \in 1 .. MaxTries : Deliver(v, k)
  <2>1. accepted' = accepted
    BY <1>1, <1>4, OnlyDeliverySends DEF accepted
  <2>2. kept' \subseteq kept
    BY <1>1, <1>4, OnlyDeliverySends DEF kept
  <2>3. kept \ kept' \subseteq Turned' \cup gone'
    BY TextLeavesSettled DEF kept, Turned, gone, Text
  <2>4. Promise!KeepsWhatIsOpen
    BY <1>2, <2>2, <2>3 DEF Promise!KeepsWhatIsOpen, Turned, Text, gone
  <2>5. CASE UNCHANGED lost /\ \E u \in Text : WasSent(u) /\ Turned' = Turned \cup {u}
    <3>1. PICK u \in Text : WasSent(u) /\ Turned' = Turned \cup {u}
      BY <2>5
    <3>2. u \in accepted /\ gone' = gone
      BY <2>5, <3>1 DEF accepted, gone
    <3>3. Promise!Finish(u)
      BY <2>1, <2>4, <3>1, <3>2
      DEF Promise!Finish, accepted, WasSent, Turned, Text, gone
    <3> QED
      BY <3>3 DEF Promise!Next, Text
  <2>6. CASE UNCHANGED Turned /\ \E W \in SUBSET accepted : gone' = gone \cup W
    <3>1. PICK W \in SUBSET accepted : gone' = gone \cup W
      BY <2>6
    <3>2. Turned' = Turned \cup {} /\ {} \in SUBSET W
      BY <2>6
    <3>3. Promise!Lose(W)
      BY <2>1, <2>4, <3>1, <3>2
      DEF Promise!Lose, accepted, WasSent, Turned, Text, gone
    <3> QED
      BY <3>1, <3>3 DEF Promise!Next, accepted, WasSent, Text
  <2>7. CASE UNCHANGED <<Turned, lost>>
    <3>1. Promise!Release
      BY <2>1, <2>4, <2>7 DEF Promise!Release, accepted, WasSent, Turned, Text, gone
    <3> QED
      BY <3>1 DEF Promise!Next
  <2> QED
    BY <2>5, <2>6, <2>7, TextOutcomeStep DEF accepted, gone
<1> QED
  BY <1>3, <1>4 DEF Promise!Next, Text

\* A text that reached the webhook once is kept, by a run, the queue or the consumer,
\* until its turn has begun or its loss is on record, however often Telegram sends
\* it and whichever copies the dedupe key drops.
THEOREM TelegramTextsDelivered == Spec => TextsDelivered
<1>1. Init => Promise!Init
  BY NobodyAssumption DEF Init, Promise!Init, Runs, Working, InAlbum
<1>2. TelegramIInv /\ TelegramIInv' /\ [Next]_vars => [Promise!Next]_Promise!deliveryVars
  BY TextDeliveryStep
<1> QED
  BY <1>1, <1>2, TelegramInvariant, PTL DEF Spec, TextsDelivered, Promise!Spec
=============================================================================
