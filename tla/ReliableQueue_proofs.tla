----------------------- MODULE ReliableQueue_proofs -----------------------
(***************************************************************************)
(* For every set of messages and every bound: the reliable queue is type   *)
(* correct, has one message in flight, and accounts for every message.     *)
(***************************************************************************)
EXTENDS ReliableQueue, SequenceTheorems, FiniteSetTheorems, FunctionTheorems, TLAPS

-----------------------------------------------------------------------------
(* The Redis lists *)

\* LPUSH: the new list holds the pushed message and what it held before.
LEMMA LPushFacts ==
    ASSUME NEW S, NEW list \in Seq(S), NEW m \in S
    PROVE  /\ LPush(list, m) \in Seq(S)
           /\ Len(LPush(list, m)) = Len(list) + 1
           /\ LPush(<<>>, m) = <<m>>
           /\ \A x : Has(LPush(list, m), x) <=> x = m \/ Has(list, x)
<1>1. /\ LPush(list, m) \in Seq(S)
      /\ Len(LPush(list, m)) = Len(list) + 1
      /\ LPush(<<>>, m) = <<m>>
  BY DEF LPush
<1>2. /\ LPush(list, m)[1] = m
      /\ \A i \in 1..Len(list) : LPush(list, m)[i + 1] = list[i]
  BY DEF LPush
<1>3. ASSUME NEW x, Has(LPush(list, m), x)
      PROVE  x = m \/ Has(list, x)
  <2>1. PICK i \in 1..(Len(list) + 1) : LPush(list, m)[i] = x
    BY <1>1, <1>3 DEF Has
  <2>2. CASE i = 1
    BY <2>1, <2>2, <1>2
  <2>3. CASE i # 1
    <3>1. i - 1 \in 1..Len(list) /\ (i - 1) + 1 = i
      BY <2>3
    <3>2. list[i - 1] = x
      BY <3>1, <2>1, <1>2
    <3> QED
      BY <3>1, <3>2 DEF Has
  <2> QED
    BY <2>2, <2>3
<1>4. ASSUME NEW x, x = m \/ Has(list, x)
      PROVE  Has(LPush(list, m), x)
  <2>1. CASE x = m
    BY <2>1, <1>1, <1>2 DEF Has
  <2>2. CASE Has(list, x)
    <3>1. PICK i \in 1..Len(list) : list[i] = x
      BY <2>2 DEF Has
    <3>2. LPush(list, m)[i + 1] = x /\ i + 1 \in 1..(Len(list) + 1)
      BY <3>1, <1>2
    <3> QED
      BY <3>2, <1>1 DEF Has
  <2> QED
    BY <1>4, <2>1, <2>2
<1> QED
  BY <1>1, <1>3, <1>4

\* RPUSH: the same of the other end.
LEMMA RPushFacts ==
    ASSUME NEW S, NEW list \in Seq(S), NEW m \in S
    PROVE  /\ RPush(list, m) \in Seq(S)
           /\ \A x : Has(RPush(list, m), x) <=> x = m \/ Has(list, x)
<1>1. /\ RPush(list, m) \in Seq(S)
      /\ Len(RPush(list, m)) = Len(list) + 1
      /\ RPush(list, m)[Len(list) + 1] = m
      /\ \A i \in 1..Len(list) : RPush(list, m)[i] = list[i]
  BY DEF RPush
<1>2. Len(list) \in Nat
  OBVIOUS
<1>3. \A i \in 1..(Len(list) + 1) : i = Len(list) + 1 \/ i \in 1..Len(list)
  BY <1>2
<1>4. Len(list) + 1 \in 1..(Len(list) + 1) /\ \A i \in 1..Len(list) : i \in 1..(Len(list) + 1)
  BY <1>2
<1>5. ASSUME NEW x
      PROVE  Has(RPush(list, m), x) <=> x = m \/ Has(list, x)
  BY <1>1, <1>3, <1>4 DEF Has
<1> QED
  BY <1>1, <1>5

\* RPOP: the list holds what it held before, but for the message returned.
LEMMA RPopFacts ==
    ASSUME NEW S, NEW list \in Seq(S), list # <<>>
    PROVE  /\ RightEnd(list) \in S
           /\ WithoutRightEnd(list) \in Seq(S)
           /\ Len(WithoutRightEnd(list)) = Len(list) - 1
           /\ \A x : Has(list, x) <=> x = RightEnd(list) \/ Has(WithoutRightEnd(list), x)
<1>1. Len(list) \in Nat /\ Len(list) >= 1
  OBVIOUS
<1>2. /\ RightEnd(list) \in S
      /\ WithoutRightEnd(list) \in Seq(S)
      /\ Len(WithoutRightEnd(list)) = Len(list) - 1
      /\ \A i \in 1..(Len(list) - 1) : WithoutRightEnd(list)[i] = list[i]
  <2>1. 1 \in Int /\ Len(list) - 1 \in Int /\ \A i \in 1..(Len(list) - 1) : list[i] \in S
    BY <1>1
  <2>2. /\ SubSeq(list, 1, Len(list) - 1) \in Seq(S)
        /\ Len(SubSeq(list, 1, Len(list) - 1)) =
              IF 1 <= Len(list) - 1 THEN Len(list) - 1 - 1 + 1 ELSE 0
        /\ \A i \in 1..(Len(list) - 1 - 1 + 1) :
              SubSeq(list, 1, Len(list) - 1)[i] = list[1 + i - 1]
    BY <2>1, SubSeqProperties
  <2>3. RightEnd(list) \in S
    BY <1>1 DEF RightEnd
  <2>4. Len(WithoutRightEnd(list)) = Len(list) - 1
    <3> DEFINE n == Len(list)
               l == Len(SubSeq(list, 1, n - 1))
    <3>1. n \in Nat /\ n >= 1
      BY <1>1
    <3>2. l = IF 1 <= n - 1 THEN n - 1 - 1 + 1 ELSE 0
      BY <2>2
    <3>3. l = Len(WithoutRightEnd(list))
      BY DEF WithoutRightEnd
    <3> HIDE DEF n, l
    <3>4. l = n - 1
      BY <3>1, <3>2
    <3> QED
      BY <3>3, <3>4 DEF n
  <2>5. ASSUME NEW i \in 1..(Len(list) - 1)
        PROVE  WithoutRightEnd(list)[i] = list[i]
    <3>1. i \in 1..(Len(list) - 1 - 1 + 1) /\ 1 + i - 1 = i
      BY <1>1
    <3> QED
      BY <3>1, <2>2 DEF WithoutRightEnd
  <2> QED
    BY <2>2, <2>3, <2>4, <2>5 DEF WithoutRightEnd
<1>3. ASSUME NEW x
      PROVE  Has(list, x) <=> x = RightEnd(list) \/ Has(WithoutRightEnd(list), x)
  <2>1. Has(list, x) <=> (list[Len(list)] = x \/ \E i \in 1..(Len(list) - 1) : list[i] = x)
    BY <1>1 DEF Has
  <2> QED
    BY <1>2, <2>1 DEF Has, RightEnd
<1> QED
  BY <1>2, <1>3

\* LREM on a list of at most one element.
LEMMA LRemShort ==
    ASSUME NEW S, NEW list \in Seq(S), Len(list) <= 1, NEW m
    PROVE  LRem(list, m) = IF Has(list, m) THEN <<>> ELSE list
<1>1. CASE ~ Has(list, m)
  BY <1>1 DEF LRem
<1>2. CASE Has(list, m)
  <2>1. Len(list) = 1 /\ list[1] = m
    BY <1>2 DEF Has
  <2> DEFINE i == CHOOSE k \in 1..Len(list) :
                     list[k] = m /\ \A j \in 1..(k - 1) : list[j] # m
  <2>2. \E k \in 1..Len(list) : list[k] = m /\ \A j \in 1..(k - 1) : list[j] # m
    BY <2>1
  <2>3. i = 1
    BY <2>1, <2>2
  <2>4. LRem(list, m) = SubSeq(list, 1, i - 1) \o SubSeq(list, i + 1, Len(list))
    BY <1>2 DEF LRem
  <2> HIDE DEF i
  <2>5. LRem(list, m) = SubSeq(list, 1, 0) \o SubSeq(list, 2, 1)
    BY <2>1, <2>3, <2>4
  <2> QED
    BY <2>5, <1>2
<1> QED
  BY <1>1, <1>2

\* A list of one element holds exactly that element.
LEMMA HasShort ==
    ASSUME NEW S, NEW list \in Seq(S), Len(list) <= 1
    PROVE  /\ \A x : ~ Has(<<>>, x)
           /\ \A x : Has(<<x>>, x)
           /\ \A x : Has(list, x) => list = <<x>>
<1>1. \A x : ~ Has(<<>>, x) /\ Has(<<x>>, x)
  BY DEF Has
<1>2. ASSUME NEW x, Has(list, x)
      PROVE  list = <<x>>
  <2>1. Len(list) = 1 /\ list[1] = x
    BY <1>2 DEF Has
  <2> QED
    BY <2>1
<1> QED
  BY <1>1, <1>2

\* Every element is counted by a natural number.
LEMMA OccurrencesNat ==
    ASSUME NEW S, NEW list \in Seq(S), NEW x
    PROVE  /\ IsFiniteSet({i \in 1..Len(list) : list[i] = x})
           /\ Occurrences(list, x) \in Nat
<1>1. IsFiniteSet(1..Len(list))
  BY FS_Interval
<1> QED
  BY <1>1, FS_Subset, FS_CardinalityType DEF Occurrences

\* LPUSH counts the pushed element once more, and no other.
LEMMA LPushOccurrences ==
    ASSUME NEW S, NEW list \in Seq(S), NEW m \in S, NEW x
    PROVE  Occurrences(LPush(list, m), x) = Occurrences(list, x) + (IF x = m THEN 1 ELSE 0)
<1> DEFINE r == LPush(list, m)
           at == {i \in 1..Len(list) : list[i] = x}
           new == {i \in 1..Len(r) : r[i] = x}
           old == {i \in new : i # 1}
           f == [i \in at |-> i + 1]
<1>1. /\ Len(r) = Len(list) + 1 /\ Len(list) \in Nat /\ r[1] = m
      /\ \A i \in 1..Len(list) : r[i + 1] = list[i]
  BY DEF LPush
<1> HIDE DEF r
<1>2. IsFiniteSet(at) /\ Cardinality(at) \in Nat
  BY OccurrencesNat DEF Occurrences
<1>3. f \in [at -> old]
  BY <1>1
<1>4. \A i, j \in at : f[i] = f[j] => i = j
  OBVIOUS
<1>5. \A j \in old : \E i \in at : f[i] = j
  <2> SUFFICES ASSUME NEW j \in old PROVE \E i \in at : f[i] = j
    OBVIOUS
  <2>1. j - 1 \in at /\ (j - 1) + 1 = j
    BY <1>1
  <2> QED
    BY <2>1
<1>6. f \in Bijection(at, old)
  BY <1>3, <1>4, <1>5, Fun_IsBij
<1>7. IsFiniteSet(old) /\ Cardinality(old) = Cardinality(at)
  BY <1>2, <1>6, FS_Bijection DEF ExistsBijection
<1>8. CASE x = m
  <2>1. new = old \cup {1} /\ 1 \notin old
    BY <1>1, <1>8
  <2> QED
    BY <1>2, <1>7, <1>8, <2>1, FS_AddElement DEF Occurrences, r
<1>9. CASE x # m
  <2>1. new = old
    BY <1>1, <1>9
  <2> QED
    <3>1. Occurrences(r, x) = Cardinality(new) /\ Occurrences(list, x) = Cardinality(at)
      BY DEF Occurrences
    <3>2. Cardinality(new) = Cardinality(at)
      BY <2>1, <1>7
    <3> HIDE DEF at, new
    <3> QED
      BY <1>2, <1>9, <3>1, <3>2 DEF r
<1> QED
  BY <1>8, <1>9

\* RPOP counts the returned element once less, and no other.
LEMMA RPopOccurrences ==
    ASSUME NEW S, NEW list \in Seq(S), list # <<>>, NEW x
    PROVE  Occurrences(list, x)
             = Occurrences(WithoutRightEnd(list), x) + (IF x = RightEnd(list) THEN 1 ELSE 0)
<1> DEFINE r == WithoutRightEnd(list)
           n == Len(list)
           at == {i \in 1..n : list[i] = x}
           rest == {i \in 1..Len(r) : r[i] = x}
<1>1. n \in Nat /\ n > 0 /\ r \in Seq(S) /\ Len(r) = n - 1 /\ RightEnd(list) = list[n]
  BY RPopFacts DEF RightEnd
<1>2. \A i \in 1..(n - 1) : r[i] = list[i]
  BY <1>1 DEF WithoutRightEnd
<1> HIDE DEF r, n
<1>3. IsFiniteSet(rest) /\ Cardinality(rest) \in Nat
  BY <1>1, OccurrencesNat DEF Occurrences
<1>4. CASE x = RightEnd(list)
  <2>1. at = rest \cup {n} /\ n \notin rest
    BY <1>1, <1>2, <1>4
  <2> QED
    BY <1>3, <1>4, <2>1, FS_AddElement DEF Occurrences, r, n
<1>5. CASE x # RightEnd(list)
  <2>1. at = rest
    BY <1>1, <1>2, <1>5
  <2> QED
    <3>1. Occurrences(r, x) = Cardinality(rest) /\ Occurrences(list, x) = Cardinality(at)
      BY DEF Occurrences, n
    <3>2. Cardinality(at) = Cardinality(rest)
      BY <2>1
    <3> HIDE DEF at, rest
    <3> QED
      BY <1>3, <1>5, <3>1, <3>2 DEF r
<1> QED
  BY <1>4, <1>5

\* A list holds what it counts.
LEMMA HasOccurrences ==
    ASSUME NEW S, NEW list \in Seq(S), NEW x
    PROVE  Has(list, x) <=> Occurrences(list, x) > 0
<1> DEFINE at == {i \in 1..Len(list) : list[i] = x}
<1>1. IsFiniteSet(at) /\ Occurrences(list, x) \in Nat
  BY OccurrencesNat
<1>2. Occurrences(list, x) = 0 <=> at = {}
  BY <1>1, FS_EmptySet DEF Occurrences
<1>3. Has(list, x) <=> at # {}
  BY DEF Has
<1> QED
  BY <1>1, <1>2, <1>3

\* An empty list counts nothing.
LEMMA EmptyOccurrences == \A x : Occurrences(<<>>, x) = 0
<1>1. \A x : {i \in 1..Len(<<>>) : <<>>[i] = x} = {}
  OBVIOUS
<1> QED
  BY <1>1, FS_EmptySet DEF Occurrences

-----------------------------------------------------------------------------
(* The inductive invariant *)

QueueIInv == QueueTypeOK /\ OneInFlight /\ HandsOK

\* The invariant holds when the writer was never started.
LEMMA QueueInitOK == QueueInit => QueueIInv
<1> SUFFICES ASSUME QueueInit
             PROVE  QueueIInv
  OBVIOUS
<1>1. <<>> \in Seq(Msg) /\ Len(<<>>) = 0
  OBVIOUS
<1>2. QueueTypeOK
  <2>1. /\ queue \in Seq(Msg)
        /\ processing \in Seq(Msg)
    BY <1>1 DEF QueueInit
  <2>2. lease \in [Msg -> LeaseState]
    BY DEF QueueInit, LeaseState
  <2>3. sent \in [Msg -> 0..MaxSend]
    BY QueueAssumption DEF QueueInit
  <2>4. /\ pc \in ConsumerPC
        /\ cur \in Msg \cup {NoMsg}
        /\ rpc \in ReclaimPC
        /\ rcur \in Msg \cup {NoMsg}
    BY DEF QueueInit, ConsumerPC, ReclaimPC
  <2>5. stopping \in BOOLEAN
    BY DEF QueueInit
  <2>6. /\ failures \in 0..MaxFailures
        /\ stops \in 0..MaxStops
    BY QueueAssumption DEF QueueInit
  <2>7. /\ snapshot \in SUBSET Msg
        /\ settled \in SUBSET Msg
        /\ dropped \in SUBSET Msg
    BY DEF QueueInit
  <2> QED
    BY <2>1, <2>2, <2>3, <2>4, <2>5, <2>6, <2>7 DEF QueueTypeOK
<1>3. OneInFlight
  BY <1>1 DEF QueueInit, OneInFlight
<1>4. HandsOK
  BY DEF QueueInit, HandsOK
<1> QED
  BY <1>2, <1>3, <1>4 DEF QueueIInv

\* The types of the Redis lists and of the hands after a step of the queue.
LEMMA QueueStepOK ==
    ASSUME QueueIInv, [QueueNext]_queueVars
    PROVE  QueueIInv'
<1> USE QueueAssumption DEF QueueIInv, QueueTypeOK, OneInFlight, HandsOK, ConsumerPC,
        ReclaimPC, LeaseState, redisVars, consumerVars, reclaimVars, historyVars
<1>1. ASSUME NEW m \in Msg, Enqueue(m)
      PROVE  QueueIInv'
  <2>1. queue' \in Seq(Msg)
    BY <1>1, LPushFacts DEF Enqueue
  <2> QED
    BY <1>1, <2>1 DEF Enqueue
<1>2. CASE StartupRPop
  <2>1. CASE processing = <<>>
    BY <1>2, <2>1 DEF StartupRPop
  <2>2. CASE processing # <<>>
    <3>1. /\ RightEnd(processing) \in Msg
          /\ processing' \in Seq(Msg)
          /\ Len(processing') = Len(processing) - 1
      BY <1>2, <2>2, RPopFacts DEF StartupRPop
    <3> QED
      BY <1>2, <2>2, <3>1 DEF StartupRPop
  <2> QED
    BY <2>1, <2>2
<1>3. CASE StartupLPush
  <2>1. queue' \in Seq(Msg)
    BY <1>3, LPushFacts DEF StartupLPush
  <2> QED
    BY <1>3, <2>1 DEF StartupLPush
<1>4. CASE StartupZRem
  BY <1>4 DEF StartupZRem
<1>5. CASE PopMessage
  <2>1. RightEnd(queue) \in Msg /\ queue' \in Seq(Msg)
    BY <1>5, RPopFacts DEF PopMessage
  <2>2. processing' = <<RightEnd(queue)>> /\ processing' \in Seq(Msg)
    BY <1>5, <2>1, LPushFacts DEF PopMessage
  <2> QED
    BY <1>5, <2>1, <2>2 DEF PopMessage
<1>6. CASE RegisterLease
  BY <1>6 DEF RegisterLease
<1>7. CASE HandlerReturn
  BY <1>7 DEF HandlerReturn
<1>21. CASE HandlerRedisError
  BY <1>21 DEF HandlerRedisError
<1>8. CASE AckLRem
  <2>1. processing' = IF Has(processing, cur) THEN <<>> ELSE processing
    BY <1>8, LRemShort DEF AckLRem
  <2>2. processing' = <<>>
    <3>1. CASE processing = <<>>
      BY <2>1, <3>1
    <3>2. CASE processing # <<>>
      <4>1. processing = <<cur>>
        BY <1>8, <3>2 DEF AckLRem
      <4> QED
        BY <4>1, <2>1, HasShort
    <3> QED
      BY <3>1, <3>2
  <2> QED
    BY <1>8, <2>2 DEF AckLRem
<1>9. CASE AckZRem
  BY <1>9 DEF AckZRem
<1>10. CASE ReclaimSnapshot
  BY <1>10 DEF ReclaimSnapshot
<1>11. ASSUME NEW m \in Msg, ReclaimLRem(m)
       PROVE  QueueIInv'
  <2>1. processing' = IF Has(processing, m) THEN <<>> ELSE processing
    BY <1>11, LRemShort DEF ReclaimLRem
  <2> QED
    BY <1>11, <2>1 DEF ReclaimLRem
<1>12. CASE ReclaimLPush
  <2>1. queue' \in Seq(Msg)
    BY <1>12, LPushFacts DEF ReclaimLPush
  <2> QED
    BY <1>12, <2>1 DEF ReclaimLPush
<1>13. CASE ReclaimZRem
  BY <1>13 DEF ReclaimZRem
<1>14. CASE ReclaimError
  BY <1>14 DEF ReclaimError
<1>15. ASSUME NEW m \in Msg, LeaseExpires(m)
       PROVE  QueueIInv'
  BY <1>15 DEF LeaseExpires
<1>16. CASE Crash
  <2>1. InHand \in SUBSET Msg
    BY DEF InHand
  <2> QED
    <3>1. QueueTypeOK'
      <4>1. /\ (queue \in Seq(Msg))'
            /\ (processing \in Seq(Msg))'
            /\ (lease \in [Msg -> LeaseState])'
            /\ (sent \in [Msg -> 0..MaxSend])'
        BY <1>16 DEF Crash
      <4>2. /\ (pc \in ConsumerPC)'
            /\ (cur \in Msg \cup {NoMsg})'
            /\ (rpc \in ReclaimPC)'
            /\ (rcur \in Msg \cup {NoMsg})'
            /\ (snapshot \in SUBSET Msg)'
        BY <1>16 DEF Crash, ProcessExits
      <4>3. (stopping \in BOOLEAN)'
        BY <1>16 DEF Crash, ProcessExits
      <4>4. /\ (failures \in 0..MaxFailures)'
            /\ (stops \in 0..MaxStops)'
        BY <1>16 DEF Crash
      <4>5. /\ (settled \in SUBSET Msg)'
            /\ (dropped \in SUBSET Msg)'
        BY <1>16, <2>1 DEF Crash
      <4> QED
        BY <4>1, <4>2, <4>3, <4>4, <4>5
    <3>2. OneInFlight'
      BY <1>16 DEF Crash, ProcessExits
    <3>3. HandsOK'
      BY <1>16 DEF Crash, ProcessExits
    <3> QED
      BY <3>1, <3>2, <3>3
<1>17. CASE StopOutsideHandler
  <2>1. InHand \in SUBSET Msg
    BY DEF InHand
  <2> QED
    <3>1. QueueTypeOK'
      <4>1. /\ (queue \in Seq(Msg))'
            /\ (processing \in Seq(Msg))'
            /\ (lease \in [Msg -> LeaseState])'
            /\ (sent \in [Msg -> 0..MaxSend])'
        BY <1>17 DEF StopOutsideHandler
      <4>2. /\ (pc \in ConsumerPC)'
            /\ (cur \in Msg \cup {NoMsg})'
            /\ (rpc \in ReclaimPC)'
            /\ (rcur \in Msg \cup {NoMsg})'
            /\ (snapshot \in SUBSET Msg)'
        BY <1>17 DEF StopOutsideHandler, ProcessExits
      <4>3. (stopping \in BOOLEAN)'
        BY <1>17 DEF StopOutsideHandler, ProcessExits
      <4>4. /\ (failures \in 0..MaxFailures)'
            /\ (stops \in 0..MaxStops)'
        BY <1>17 DEF StopOutsideHandler
      <4>5. /\ (settled \in SUBSET Msg)'
            /\ (dropped \in SUBSET Msg)'
        BY <1>17, <2>1 DEF StopOutsideHandler
      <4> QED
        BY <4>1, <4>2, <4>3, <4>4, <4>5
    <3>2. OneInFlight'
      BY <1>17 DEF StopOutsideHandler, ProcessExits
    <3>3. HandsOK'
      BY <1>17 DEF StopOutsideHandler, ProcessExits
    <3> QED
      BY <3>1, <3>2, <3>3
<1>18. CASE StopInHandler
  <2>1. InHand \in SUBSET Msg
    BY DEF InHand
  <2> QED
    BY <1>18, <2>1 DEF StopInHandler
<1>19. CASE Restart
  BY <1>19 DEF Restart
<1>20. CASE UNCHANGED queueVars
  BY <1>20 DEF queueVars
<1> QED
  BY <1>1, <1>2, <1>3, <1>4, <1>5, <1>6, <1>7, <1>8, <1>9, <1>10, <1>11, <1>12,
     <1>13, <1>14, <1>15, <1>16, <1>17, <1>18, <1>19, <1>20, <1>21
  DEF QueueNext, ConsumerStep, ReclaimStep, Environment
-----------------------------------------------------------------------------
(* Loss accounting *)

\* A message that is somewhere, or recorded as lost.
Located(m) ==
    \/ Has(queue, m)
    \/ Has(processing, m)
    \/ m \in InHand
    \/ m \in dropped

\* No step of the queue loses a message without recording it, but for the
\* acknowledgement of the message in ":processing".
LEMMA LocatedStep ==
    ASSUME QueueIInv, [QueueNext]_queueVars, NEW m \in Msg, Located(m)
    PROVE  Located(m)' \/ (pc = "ack_lrem" /\ cur = m)
<1> USE DEF QueueIInv, QueueTypeOK, OneInFlight, HandsOK, Located, InHand,
        redisVars, consumerVars, reclaimVars, historyVars
<1>1. ASSUME NEW k \in Msg, Enqueue(k)
      PROVE  Located(m)' \/ (pc = "ack_lrem" /\ cur = m)
  <2>1. Has(queue', m) <=> m = k \/ Has(queue, m)
    BY <1>1, LPushFacts DEF Enqueue
  <2> QED
    BY <1>1, <2>1 DEF Enqueue
<1>2. CASE StartupRPop
  <2>1. CASE processing = <<>>
    BY <1>2, <2>1 DEF StartupRPop
  <2>2. CASE processing # <<>>
    <3>1. Has(processing, m) <=> m = RightEnd(processing) \/ Has(processing', m)
      BY <1>2, <2>2, RPopFacts DEF StartupRPop
    <3> QED
      BY <1>2, <2>2, <3>1 DEF StartupRPop
  <2> QED
    BY <2>1, <2>2
<1>3. CASE StartupLPush
  <2>1. Has(queue', m) <=> m = cur \/ Has(queue, m)
    BY <1>3, LPushFacts DEF StartupLPush
  <2> QED
    BY <1>3, <2>1 DEF StartupLPush
<1>4. CASE StartupZRem
  BY <1>4 DEF StartupZRem
<1>5. CASE PopMessage
  <2>1. /\ RightEnd(queue) \in Msg
        /\ Has(queue, m) <=> m = RightEnd(queue) \/ Has(queue', m)
    BY <1>5, RPopFacts DEF PopMessage
  <2>2. Has(processing', m) <=> m = RightEnd(queue) \/ Has(processing, m)
    BY <1>5, <2>1, LPushFacts DEF PopMessage
  <2> QED
    BY <1>5, <2>1, <2>2 DEF PopMessage
<1>6. CASE RegisterLease
  BY <1>6 DEF RegisterLease
<1>7. CASE HandlerReturn
  BY <1>7 DEF HandlerReturn
<1>21. CASE HandlerRedisError
  BY <1>21 DEF HandlerRedisError
<1>8. CASE AckLRem
  \* The only message that can leave ":processing" is the consumer's own.
  <2>1. Has(processing, m) => m = cur
    <3>1. ASSUME Has(processing, m)
          PROVE  m = cur
      <4>1. processing = <<m>>
        BY <3>1, HasShort
      <4>2. processing = <<cur>>
        BY <1>8, <4>1 DEF AckLRem
      <4> QED
        BY <4>1, <4>2
    <3> QED
      BY <3>1
  <2> QED
    BY <1>8, <2>1 DEF AckLRem
<1>9. CASE AckZRem
  BY <1>9 DEF AckZRem
<1>10. CASE ReclaimSnapshot
  BY <1>10 DEF ReclaimSnapshot
<1>11. ASSUME NEW k \in Msg, ReclaimLRem(k)
       PROVE  Located(m)' \/ (pc = "ack_lrem" /\ cur = m)
  <2>1. processing' = IF Has(processing, k) THEN <<>> ELSE processing
    BY <1>11, LRemShort DEF ReclaimLRem
  <2>2. Has(processing, k) /\ Has(processing, m) => m = k
    <3>1. ASSUME Has(processing, k), Has(processing, m)
          PROVE  m = k
      <4>1. processing = <<m>> /\ processing = <<k>>
        BY <3>1, HasShort
      <4> QED
        BY <4>1
    <3> QED
      BY <3>1
  <2> QED
    BY <1>11, <2>1, <2>2 DEF ReclaimLRem
<1>12. CASE ReclaimLPush
  <2>1. Has(queue', m) <=> m = rcur \/ Has(queue, m)
    BY <1>12, LPushFacts DEF ReclaimLPush
  <2> QED
    BY <1>12, <2>1 DEF ReclaimLPush
<1>13. CASE ReclaimZRem
  BY <1>13 DEF ReclaimZRem
<1>14. CASE ReclaimError
  BY <1>14 DEF ReclaimError
<1>15. ASSUME NEW k \in Msg, LeaseExpires(k)
       PROVE  Located(m)' \/ (pc = "ack_lrem" /\ cur = m)
  BY <1>15 DEF LeaseExpires
<1>16. CASE Crash
  BY <1>16 DEF Crash, ProcessExits
<1>17. CASE StopOutsideHandler
  BY <1>17 DEF StopOutsideHandler, ProcessExits
<1>18. CASE StopInHandler
  BY <1>18 DEF StopInHandler
<1>19. CASE Restart
  BY <1>19 DEF Restart
<1>20. CASE UNCHANGED queueVars
  BY <1>20 DEF queueVars
<1> QED
  BY <1>1, <1>2, <1>3, <1>4, <1>5, <1>6, <1>7, <1>8, <1>9, <1>10, <1>11, <1>12,
     <1>13, <1>14, <1>15, <1>16, <1>17, <1>18, <1>19, <1>20, <1>21
  DEF QueueNext, ConsumerStep, ReclaimStep, Environment

\* A message that is somewhere, or accounted for.
Accounted(m) == Located(m) \/ m \in settled

\* No step of the queue loses an accounted message without recording it.
LEMMA AccountedStep ==
    ASSUME QueueIInv, [QueueNext]_queueVars, NEW m \in Msg, Accounted(m)
    PROVE  Accounted(m)'
<1>1. settled \subseteq settled' /\ dropped \subseteq dropped'
  BY DEF QueueNext, ConsumerStep, ReclaimStep, Environment, queueVars, historyVars,
     StartupRPop, StartupLPush, StartupZRem, PopMessage, AckLRem, AckZRem, Enqueue,
     RegisterLease, HandlerReturn, HandlerRedisError, ReclaimSnapshot, ReclaimLRem, ReclaimLPush,
     ReclaimZRem, ReclaimError, LeaseExpires, Crash, StopOutsideHandler,
     StopInHandler, Restart
<1>2. pc = "ack_lrem" => cur \in settled \cup dropped
  BY DEF QueueIInv, HandsOK
<1> QED
  BY <1>1, <1>2, LocatedStep DEF Accounted, Located

\* A message becomes sent only by being put into the queue.
LEMMA SentStep ==
    ASSUME QueueIInv, [QueueNext]_queueVars, NEW m \in Msg, sent'[m] > 0
    PROVE  sent[m] > 0 \/ Has(queue', m)
<1> USE DEF QueueIInv, QueueTypeOK
<1>1. ASSUME NEW k \in Msg, Enqueue(k)
      PROVE  sent[m] > 0 \/ Has(queue', m)
  <2>1. Has(queue', k)
    BY <1>1, LPushFacts DEF Enqueue
  <2>2. m # k => sent'[m] = sent[m]
    BY <1>1 DEF Enqueue
  <2> QED
    BY <2>1, <2>2
<1>2. (\E k \in Msg : Enqueue(k)) \/ sent' = sent
  BY DEF QueueNext, ConsumerStep, ReclaimStep, Environment, queueVars, historyVars,
     StartupRPop, StartupLPush, StartupZRem, PopMessage, AckLRem, AckZRem,
     RegisterLease, HandlerReturn, HandlerRedisError, ReclaimSnapshot, ReclaimLRem, ReclaimLPush,
     ReclaimZRem, ReclaimError, LeaseExpires, Crash, StopOutsideHandler,
     StopInHandler, Restart
<1> QED
  BY <1>1, <1>2

\* Loss accounting survives every step of the queue.
LEMMA NoSilentLossStep ==
    ASSUME QueueIInv, NoSilentLoss, [QueueNext]_queueVars
    PROVE  NoSilentLoss'
<1>1. ASSUME NEW m \in Msg, sent'[m] > 0
      PROVE  Accounted(m)'
  <2>1. CASE sent[m] > 0
    <3>1. Accounted(m)
      BY <2>1 DEF NoSilentLoss, Accounted, Located
    <3> QED
      BY <3>1, AccountedStep
  <2>2. CASE Has(queue', m)
    BY <2>2 DEF Accounted, Located
  <2> QED
    BY <1>1, <2>1, <2>2, SentStep
<1> QED
  BY <1>1 DEF NoSilentLoss, Accounted, Located
-----------------------------------------------------------------------------
(* Copies *)

\* How often the lists and the two tasks hold a message.
Copies(m) ==
    Occurrences(queue, m) + Occurrences(processing, m)
      + (IF pc = "startup_lpush" /\ cur = m THEN 1 ELSE 0)
      + (IF rpc = "lpush" /\ rcur = m THEN 1 ELSE 0)

\* What LPUSH and LREM change in the count of a message.
LEMMA MessageOccurrences ==
    \A list \in Seq(Msg), k \in Msg, m \in Msg :
        /\ Occurrences(list, m) \in Nat
        /\ Occurrences(LPush(list, k), m) = Occurrences(list, m) + (IF m = k THEN 1 ELSE 0)
        /\ Len(list) <= 1 =>
              /\ LRem(list, k) \in Seq(Msg)
              /\ Occurrences(list, m)
                    = Occurrences(LRem(list, k), m) + (IF m = k /\ Has(list, k) THEN 1 ELSE 0)
<1> SUFFICES ASSUME NEW list \in Seq(Msg), NEW k \in Msg, NEW m \in Msg
             PROVE  /\ Occurrences(list, m) \in Nat
                    /\ Occurrences(LPush(list, k), m)
                          = Occurrences(list, m) + (IF m = k THEN 1 ELSE 0)
                    /\ Len(list) <= 1 =>
                          /\ LRem(list, k) \in Seq(Msg)
                          /\ Occurrences(list, m)
                                = Occurrences(LRem(list, k), m)
                                    + (IF m = k /\ Has(list, k) THEN 1 ELSE 0)
  OBVIOUS
<1>1. Occurrences(list, m) \in Nat
  BY OccurrencesNat
<1>2. Occurrences(LPush(list, k), m) = Occurrences(list, m) + (IF m = k THEN 1 ELSE 0)
  BY LPushOccurrences
<1>3. ASSUME Len(list) <= 1
      PROVE  LRem(list, k) \in Seq(Msg)
  <2>1. LRem(list, k) = IF Has(list, k) THEN <<>> ELSE list
    BY <1>3, LRemShort, Zenon
  <2>2. <<>> \in Seq(Msg)
    OBVIOUS
  <2> QED
    BY <2>1, <2>2
<1>4. ASSUME Len(list) <= 1
      PROVE  Occurrences(list, m)
               = Occurrences(LRem(list, k), m) + (IF m = k /\ Has(list, k) THEN 1 ELSE 0)
  <2>1. CASE Has(list, k)
    <3>1. list = <<k>> /\ LRem(list, k) = <<>>
      BY <1>4, <2>1, HasShort, LRemShort
    <3>2. LPush(<<>>, k) = <<k>> /\ <<>> \in Seq(Msg)
      BY DEF LPush
    <3>3. \A l \in Seq(Msg) :
             Occurrences(LPush(l, k), m) = Occurrences(l, m) + (IF m = k THEN 1 ELSE 0)
      BY LPushOccurrences
    <3>4. Occurrences(<<k>>, m) = Occurrences(<<>>, m) + (IF m = k THEN 1 ELSE 0)
      BY <3>2, <3>3
    <3> QED
      BY <3>1, <3>4, <2>1
  <2>2. CASE ~Has(list, k)
    <3>1. LRem(list, k) = list
      BY <1>4, <2>2, LRemShort
    <3> QED
      BY <3>1, <1>1, <2>2
  <2> QED
    BY <2>1, <2>2
<1> QED
  BY <1>1, <1>2, <1>3, <1>4

\* A step makes a copy of a message only by sending it.
LEMMA CopiesStep ==
    ASSUME QueueIInv, [QueueNext]_queueVars, NEW m \in Msg
    PROVE  /\ Copies(m) \in Nat /\ Copies(m)' \in Nat
           /\ Copies(m)' + sent[m] <= Copies(m) + sent'[m]
<1> DEFINE q == Occurrences(queue, m)
           p == Occurrences(processing, m)
           c == IF pc = "startup_lpush" /\ cur = m THEN 1 ELSE 0
           r == IF rpc = "lpush" /\ rcur = m THEN 1 ELSE 0
           q2 == Occurrences(queue', m)
           p2 == Occurrences(processing', m)
           c2 == IF pc' = "startup_lpush" /\ cur' = m THEN 1 ELSE 0
           r2 == IF rpc' = "lpush" /\ rcur' = m THEN 1 ELSE 0
           n == sent[m]
           n2 == sent'[m]
           Goal == q2 + p2 + c2 + r2 + n <= q + p + c + r + n2
<1>1. QueueIInv'
  BY QueueStepOK
<1>2. /\ q \in Nat /\ p \in Nat /\ c \in Nat /\ r \in Nat /\ n \in Nat
      /\ q2 \in Nat /\ p2 \in Nat /\ c2 \in Nat /\ r2 \in Nat /\ n2 \in Nat
      /\ Copies(m) = q + p + c + r
      /\ Copies(m)' = q2 + p2 + c2 + r2
  BY <1>1, MessageOccurrences DEF QueueIInv, QueueTypeOK, Copies
<1>0. /\ queue \in Seq(Msg) /\ processing \in Seq(Msg) /\ Len(processing) <= 1
      /\ sent \in [Msg -> 0..MaxSend]
      /\ pc \in {"startup_lpush", "ack_lrem"} => cur \in Msg
      /\ rpc = "lpush" => rcur \in Msg
  BY DEF QueueIInv, QueueTypeOK, OneInFlight, HandsOK
<1> USE DEF redisVars, consumerVars, reclaimVars, historyVars
<1> HIDE DEF q, p, c, r, q2, p2, c2, r2, n, n2
<1> SUFFICES Goal
  BY <1>2 DEF n, n2
<1>3. ASSUME NEW k \in Msg, Enqueue(k)
      PROVE  Goal
  <2>1. q2 = q + (IF m = k THEN 1 ELSE 0)
    BY <1>0, <1>3, MessageOccurrences DEF Enqueue, q, q2
  <2>2. n2 = n + (IF m = k THEN 1 ELSE 0)
    BY <1>0, <1>3 DEF Enqueue, n, n2
  <2>3. p2 = p /\ c2 = c /\ r2 = r
    BY <1>3 DEF Enqueue, p, p2, c, c2, r, r2
  <2> QED
    BY <1>2, <2>1, <2>2, <2>3
<1>4. CASE StartupRPop
  <2>1. q2 = q /\ r2 = r /\ n2 = n
    BY <1>4 DEF StartupRPop, q, q2, r, r2, n, n2
  <2>2. CASE processing = <<>>
    <3>1. p2 = p /\ c2 = c
      BY <1>4, <2>2 DEF StartupRPop, p, p2, c, c2
    <3> QED
      BY <1>2, <2>1, <3>1
  <2>3. CASE processing # <<>>
    <3>1. p = p2 + (IF m = RightEnd(processing) THEN 1 ELSE 0)
      BY <1>0, <1>4, <2>3, RPopOccurrences DEF StartupRPop, p, p2
    <3>2. c2 = IF m = RightEnd(processing) THEN 1 ELSE 0
      BY <1>4, <2>3 DEF StartupRPop, c2
    <3> QED
      BY <1>2, <2>1, <3>1, <3>2
  <2> QED
    BY <2>2, <2>3
<1>5. CASE StartupLPush
  <2>1. q2 = q + (IF m = cur THEN 1 ELSE 0)
    BY <1>0, <1>5, MessageOccurrences DEF StartupLPush, q, q2
  <2>2. c = (IF m = cur THEN 1 ELSE 0) /\ c2 = 0 /\ p2 = p /\ r2 = r /\ n2 = n
    BY <1>5 DEF StartupLPush, c, c2, p, p2, r, r2, n, n2
  <2> QED
    BY <1>2, <2>1, <2>2
<1>6. CASE PopMessage
  <2>1. RightEnd(queue) \in Msg
    BY <1>0, <1>6, RPopFacts DEF PopMessage
  <2>2. q = q2 + (IF m = RightEnd(queue) THEN 1 ELSE 0)
    BY <1>0, <1>6, RPopOccurrences DEF PopMessage, q, q2
  <2>3. p2 = p + (IF m = RightEnd(queue) THEN 1 ELSE 0)
    BY <1>0, <1>6, <2>1, MessageOccurrences DEF PopMessage, p, p2
  <2>4. c2 = 0 /\ r2 = r /\ n2 = n
    BY <1>6 DEF PopMessage, c2, r, r2, n, n2
  <2> QED
    BY <1>2, <2>2, <2>3, <2>4
<1>7. CASE AckLRem
  <2>1. p = p2 + (IF m = cur /\ Has(processing, cur) THEN 1 ELSE 0)
    BY <1>0, <1>7, MessageOccurrences DEF AckLRem, p, p2
  <2>2. q2 = q /\ c2 = 0 /\ r2 = r /\ n2 = n
    BY <1>7 DEF AckLRem, q, q2, c2, r, r2, n, n2
  <2> QED
    BY <1>2, <2>1, <2>2
<1>8. ASSUME NEW k \in Msg, ReclaimLRem(k)
      PROVE  Goal
  <2>1. p = p2 + (IF m = k /\ Has(processing, k) THEN 1 ELSE 0)
    BY <1>0, <1>8, MessageOccurrences DEF ReclaimLRem, p, p2
  <2>2. r2 = IF m = k /\ Has(processing, k) THEN 1 ELSE 0
    BY <1>8 DEF ReclaimLRem, r2
  <2>3. q2 = q /\ c2 = c /\ n2 = n
    BY <1>8 DEF ReclaimLRem, q, q2, c, c2, n, n2
  <2> QED
    BY <1>2, <2>1, <2>2, <2>3
<1>9. CASE ReclaimLPush
  <2>1. q2 = q + (IF m = rcur THEN 1 ELSE 0)
    BY <1>0, <1>9, MessageOccurrences DEF ReclaimLPush, q, q2
  <2>2. r = (IF m = rcur THEN 1 ELSE 0) /\ r2 = 0 /\ p2 = p /\ c2 = c /\ n2 = n
    BY <1>9 DEF ReclaimLPush, r, r2, p, p2, c, c2, n, n2
  <2> QED
    BY <1>2, <2>1, <2>2
<1>10. CASE \/ StartupZRem \/ RegisterLease \/ HandlerReturn \/ HandlerRedisError \/ AckZRem
            \/ ReclaimSnapshot \/ ReclaimZRem \/ ReclaimError \/ Crash \/ StopOutsideHandler
            \/ StopInHandler \/ Restart \/ (\E k \in Msg : LeaseExpires(k)) \/ UNCHANGED queueVars
  <2>1. UNCHANGED <<queue, processing, sent>>
    BY <1>10 DEF StartupZRem, RegisterLease, HandlerReturn, HandlerRedisError, AckZRem,
       ReclaimSnapshot, ReclaimZRem, ReclaimError, Crash, StopOutsideHandler, StopInHandler,
       Restart, LeaseExpires, queueVars
  <2>2. /\ pc' = "startup_lpush" => pc = "startup_lpush" /\ cur' = cur
        /\ rpc' = "lpush" => rpc = "lpush" /\ rcur' = rcur
    BY <1>10 DEF StartupZRem, RegisterLease, HandlerReturn, HandlerRedisError, AckZRem,
       ReclaimSnapshot, ReclaimZRem, ReclaimError, Crash, StopOutsideHandler, StopInHandler,
       Restart, LeaseExpires, queueVars, ProcessExits
  <2>3. q2 = q /\ p2 = p /\ n2 = n
    BY <2>1 DEF q, q2, p, p2, n, n2
  <2>4. c2 <= c /\ r2 <= r
    BY <2>2 DEF c, c2, r, r2
  <2> QED
    BY <1>2, <2>3, <2>4
<1> QED
  BY <1>3, <1>4, <1>5, <1>6, <1>7, <1>8, <1>9, <1>10
  DEF QueueNext, ConsumerStep, ReclaimStep, Environment
-----------------------------------------------------------------------------
(* Theorems *)

\* Every variable of the queue keeps its type and the ":processing" list holds at
\* most the message the consumer is working on, in every behaviour of the queue.
THEOREM QueueInvariant == QueueSpec => [](QueueTypeOK /\ OneInFlight /\ HandsOK)
<1>1. QueueInit => QueueIInv
  BY QueueInitOK
<1>2. QueueIInv /\ [QueueNext]_queueVars => QueueIInv'
  BY QueueStepOK
<1> QED
  BY <1>1, <1>2, PTL DEF QueueSpec, QueueIInv

\* Whatever crashes, stops, Redis errors and expiries happen, every message a
\* producer sent is in Redis, in the hands of a task that moves it, was handled,
\* or is one of those recorded as dropped in a loss window.
THEOREM QueueNoSilentLoss == QueueSpec => []NoSilentLoss
<1>1. QueueInit => NoSilentLoss
  BY DEF QueueInit, NoSilentLoss
<1>2. QueueIInv /\ NoSilentLoss /\ [QueueNext]_queueVars => NoSilentLoss'
  BY NoSilentLossStep
<1> QED
  BY <1>1, <1>2, QueueInvariant, PTL DEF QueueSpec, QueueIInv

\* Every variable of the queue has its type.
THEOREM QueueTypes == QueueSpec => []QueueTypeOK
  BY QueueInvariant, PTL

\* The ":processing" list holds the one message in flight.
THEOREM QueueOneInFlight == QueueSpec => []OneInFlight
  BY QueueInvariant, PTL

\* Redelivery, reclaim and restart never make a copy of a message that no producer
\* sent.
THEOREM QueueCopiesNeverMultiply == QueueSpec => []CopiesNeverMultiply
<1>1. QueueInit => CopiesNeverMultiply
  BY EmptyOccurrences DEF QueueInit, CopiesNeverMultiply
<1>2. QueueIInv /\ CopiesNeverMultiply /\ [QueueNext]_queueVars => CopiesNeverMultiply'
  <2> SUFFICES ASSUME QueueIInv, CopiesNeverMultiply, [QueueNext]_queueVars, NEW m \in Msg
               PROVE  Copies(m)' <= sent'[m]
    BY DEF CopiesNeverMultiply, Copies
  <2>1. Copies(m) <= sent[m]
    BY DEF CopiesNeverMultiply, Copies
  <2>2. sent[m] \in Nat /\ sent'[m] \in Nat
    BY QueueStepOK DEF QueueIInv, QueueTypeOK
  <2> QED
    BY <2>1, <2>2, CopiesStep
<1> QED
  BY <1>1, <1>2, QueueInvariant, PTL DEF QueueSpec, QueueIInv
-----------------------------------------------------------------------------
(* The queue implements Delivery *)

\* A message of which a list or a task that moves it holds a copy.
Held(m) == Has(queue, m) \/ Has(processing, m) \/ m \in InHand

\* A held message is a counted one.
LEMMA HeldCopies ==
    ASSUME QueueIInv, NEW m \in Msg
    PROVE  /\ Copies(m) \in Nat
           /\ Held(m) <=> Copies(m) > 0
<1>1. /\ Occurrences(queue, m) \in Nat /\ Occurrences(processing, m) \in Nat
      /\ Has(queue, m) <=> Occurrences(queue, m) > 0
      /\ Has(processing, m) <=> Occurrences(processing, m) > 0
  BY OccurrencesNat, HasOccurrences DEF QueueIInv, QueueTypeOK
<1>2. m \in InHand <=> (pc = "startup_lpush" /\ cur = m) \/ (rpc = "lpush" /\ rcur = m)
  BY DEF InHand
<1> QED
  BY <1>1, <1>2 DEF Held, Copies

\* What is held after a step and was not held before was sent in that step.
LEMMA HeldStep ==
    ASSUME QueueIInv, [QueueNext]_queueVars, NEW m \in Msg, Held(m)'
    PROVE  Held(m) \/ sent'[m] > sent[m]
<1>1. QueueIInv'
  BY QueueStepOK
<1>2. Copies(m) \in Nat /\ (Held(m) <=> Copies(m) > 0)
  BY HeldCopies
<1>3. Copies(m)' \in Nat /\ Copies(m)' > 0
  <2>1. /\ Occurrences(queue', m) \in Nat /\ Occurrences(processing', m) \in Nat
        /\ Has(queue', m) <=> Occurrences(queue', m) > 0
        /\ Has(processing', m) <=> Occurrences(processing', m) > 0
    BY <1>1, OccurrencesNat, HasOccurrences DEF QueueIInv, QueueTypeOK
  <2>2. m \in InHand' <=> (pc' = "startup_lpush" /\ cur' = m) \/ (rpc' = "lpush" /\ rcur' = m)
    BY DEF InHand
  <2> QED
    BY <2>1, <2>2 DEF Held, Copies
<1>4. sent[m] \in Nat /\ sent'[m] \in Nat
  BY <1>1 DEF QueueIInv, QueueTypeOK
<1>5. Copies(m)' + sent[m] <= Copies(m) + sent'[m]
  BY CopiesStep
<1> QED
  BY <1>2, <1>3, <1>4, <1>5

\* Only what was sent is held or worked on.
HeldWasSent ==
    /\ \A m \in Msg : Held(m) => sent[m] > 0
    /\ cur \in Msg => sent[cur] > 0

\* No step takes up a message that was not sent.
LEMMA HeldWasSentStep ==
    ASSUME QueueIInv, HeldWasSent, [QueueNext]_queueVars
    PROVE  HeldWasSent'
<1>1. \A m \in Msg : sent[m] \in Nat /\ sent'[m] \in Nat /\ sent'[m] >= sent[m]
  <2>1. sent \in [Msg -> 0..MaxSend]
    BY DEF QueueIInv, QueueTypeOK
  <2>2. (\E k \in Msg : Enqueue(k)) \/ sent' = sent
    BY DEF QueueNext, ConsumerStep, ReclaimStep, Environment, queueVars, historyVars,
       StartupRPop, StartupLPush, StartupZRem, PopMessage, AckLRem, AckZRem,
       RegisterLease, HandlerReturn, HandlerRedisError, ReclaimSnapshot, ReclaimLRem,
       ReclaimLPush, ReclaimZRem, ReclaimError, LeaseExpires, Crash, StopOutsideHandler,
       StopInHandler, Restart
  <2>3. ASSUME NEW k \in Msg, Enqueue(k), NEW m \in Msg
        PROVE  sent'[m] = sent[m] \/ sent'[m] = sent[m] + 1
    BY <2>1, <2>3 DEF Enqueue
  <2>4. \A m \in Msg : sent'[m] = sent[m] \/ sent'[m] = sent[m] + 1
    BY <2>2, <2>3
  <2>5. \A m \in Msg : sent[m] \in Nat
    BY <2>1
  <2> QED
    BY <2>4, <2>5
<1>2. ASSUME NEW m \in Msg, Held(m)'
      PROVE  sent'[m] > 0
  BY <1>1, <1>2, HeldStep DEF HeldWasSent
<1> USE DEF QueueIInv, QueueTypeOK
<1>3. ASSUME cur' \in Msg
      PROVE  sent'[cur'] > 0
  <2>1. CASE cur' = cur
    BY <1>1, <1>3, <2>1 DEF HeldWasSent
  <2>2. CASE PopMessage
    <3>1. cur' \in Msg /\ Has(queue, cur')
      BY <2>2, RPopFacts DEF PopMessage
    <3> QED
      BY <1>1, <3>1 DEF HeldWasSent, Held
  <2>3. CASE StartupRPop
    <3>1. CASE processing = <<>>
      BY <2>1, <2>3, <3>1 DEF StartupRPop
    <3>2. CASE processing # <<>>
      <4>1. cur' \in Msg /\ Has(processing, cur')
        BY <2>3, <3>2, RPopFacts DEF StartupRPop
      <4> QED
        BY <1>1, <4>1 DEF HeldWasSent, Held
    <3> QED
      BY <3>1, <3>2
  <2>4. cur' = cur \/ PopMessage \/ StartupRPop
    <3>1. cur' # NoMsg
      BY <1>3, QueueAssumption
    <3> QED
      BY <3>1 DEF QueueNext, ConsumerStep, ReclaimStep, Environment, queueVars, consumerVars,
         StartupLPush, StartupZRem, AckLRem, AckZRem, RegisterLease, HandlerReturn,
         HandlerRedisError, ReclaimSnapshot, ReclaimLRem, ReclaimLPush, ReclaimZRem,
         ReclaimError, LeaseExpires, Crash, StopOutsideHandler, StopInHandler, Restart, Enqueue,
         ProcessExits
  <2> QED
    BY <2>1, <2>2, <2>3, <2>4
<1> QED
  BY <1>2, <1>3 DEF HeldWasSent

\* Every step of the queue is a step of Delivery, or changes nothing it sees.
LEMMA DeliveryStep ==
    ASSUME QueueIInv, HeldWasSent, NoSilentLoss, [QueueNext]_queueVars
    PROVE  Promise!Next
<1> DEFINE accepted == {m \in Msg : sent[m] > 0}
           kept == {m \in Msg : Held(m)}
<1>1. /\ QueueIInv' /\ NoSilentLoss' /\ \A m \in Msg : sent[m] \in Nat /\ sent'[m] \in Nat
      /\ pc = "handle" => cur \in Msg
      /\ InHand \in SUBSET Msg /\ (rpc = "lpush" => rcur \in Msg)
  <2>1. QueueIInv'
    BY QueueStepOK
  <2>2. NoSilentLoss'
    BY NoSilentLossStep DEF QueueIInv
  <2>3. \A m \in Msg : sent[m] \in Nat /\ sent'[m] \in Nat
    <3>1. sent \in [Msg -> 0..MaxSend] /\ sent' \in [Msg -> 0..MaxSend]
      BY <2>1 DEF QueueIInv, QueueTypeOK
    <3> QED
      BY <3>1, QueueAssumption
  <2>4. (pc = "handle" => cur \in Msg) /\ (rpc = "lpush" => rcur \in Msg)
    BY DEF QueueIInv, HandsOK
  <2>5. InHand \in SUBSET Msg
    BY DEF QueueIInv, HandsOK, InHand
  <2> QED
    BY <2>1, <2>2, <2>3, <2>4, <2>5
<1>2. InHand \subseteq kept /\ kept \subseteq accepted
  BY <1>1 DEF Held, HeldWasSent
<1>3. ASSUME sent' = sent
      PROVE  /\ accepted' = accepted
             /\ Promise!KeepsWhatIsOpen
  <2>1. \A m \in Msg : Held(m)' => Held(m)
    <3>1. \A m \in Msg : ~(sent'[m] > sent[m])
      BY <1>1, <1>3
    <3> QED
      BY <3>1, HeldStep
  <2>2. \A m \in Msg : Held(m) => Held(m)' \/ m \in settled' \cup dropped'
    <3>1. \A m \in Msg : Held(m) => sent'[m] > 0
      BY <1>2, <1>3
    <3> QED
      BY <1>1, <3>1 DEF NoSilentLoss, Held
  <2> QED
    BY <1>3, <2>1, <2>2 DEF Promise!KeepsWhatIsOpen, Held
<1>4. ASSUME NEW k \in Msg, Enqueue(k)
      PROVE  Promise!Accept(k)
  <2>1. accepted' = accepted \cup {k}
    <3>1. \A m \in Msg : sent'[m] = IF m = k THEN sent[m] + 1 ELSE sent[m]
      BY <1>4 DEF Enqueue, QueueIInv, QueueTypeOK
    <3> QED
      BY <1>1, <3>1
  <2>2. \A m \in Msg : Held(m)' <=> m = k \/ Held(m)
    <3>1. \A m \in Msg : Has(queue', m) <=> m = k \/ Has(queue, m)
      BY <1>4, LPushFacts DEF Enqueue, QueueIInv, QueueTypeOK
    <3> QED
      BY <1>4, <3>1 DEF Enqueue, Held, InHand, consumerVars, reclaimVars
  <2> QED
    BY <1>4, <2>1, <2>2 DEF Enqueue, Promise!Accept, Held
<1>5. CASE HandlerReturn
  BY <1>1, <1>2, <1>3, <1>5 DEF HandlerReturn, Promise!Next, Promise!Finish, HeldWasSent
<1>6. CASE ReclaimError \/ Crash \/ StopOutsideHandler \/ StopInHandler
  <2>1. PICK W \in SUBSET accepted :
           dropped' = dropped \cup W /\ UNCHANGED <<settled, sent>>
    <3>1. CASE ReclaimError
      BY <1>1, <1>2, <3>1 DEF ReclaimError, InHand
    <3>2. CASE Crash \/ StopOutsideHandler
      BY <1>1, <1>2, <3>2 DEF Crash, StopOutsideHandler
    <3>3. CASE StopInHandler
      <4>1. InHand \cup {cur} \in SUBSET accepted
        BY <1>1, <1>2, <3>3 DEF StopInHandler, HeldWasSent
      <4> QED
        BY <4>1, <3>3 DEF StopInHandler
    <3> QED
      BY <1>6, <3>1, <3>2, <3>3
  <2>2. settled' = settled \cup {} /\ {} \in SUBSET W
    BY <2>1
  <2>3. Promise!Lose(W)
    BY <1>3, <2>1, <2>2 DEF Promise!Lose
  <2> QED
    BY <2>3 DEF Promise!Next
<1>7. CASE UNCHANGED <<sent, settled, dropped>>
  BY <1>3, <1>7 DEF Promise!Next, Promise!Release
<1>8. \/ \E k \in Msg : Enqueue(k)
      \/ HandlerReturn
      \/ ReclaimError \/ Crash \/ StopOutsideHandler \/ StopInHandler
      \/ UNCHANGED <<sent, settled, dropped>>
  BY DEF QueueNext, ConsumerStep, ReclaimStep, Environment, queueVars, historyVars,
     StartupRPop, StartupLPush, StartupZRem, PopMessage, AckLRem, AckZRem,
     RegisterLease, HandlerRedisError, ReclaimSnapshot, ReclaimLRem, ReclaimLPush,
     ReclaimZRem, LeaseExpires, Restart
<1> QED
  BY <1>4, <1>5, <1>6, <1>7, <1>8 DEF Promise!Next

\* The queue keeps its promise to the producers: Delivery, with the lists and the
\* two tasks as what keeps a message, the handler's return as what is done, and
\* the recorded windows as what is lost.
THEOREM QueueDelivers == QueueSpec => Delivers
<1>1. QueueInit => HeldWasSent /\ Promise!Init
  <2> SUFFICES ASSUME QueueInit PROVE HeldWasSent /\ Promise!Init
    OBVIOUS
  <2>1. InHand = {} /\ \A m : ~Has(<<>>, m)
    BY DEF QueueInit, InHand, Has
  <2>2. cur \notin Msg /\ \A m \in Msg : ~(sent[m] > 0)
    BY QueueAssumption DEF QueueInit
  <2> QED
    BY <2>1, <2>2 DEF QueueInit, HeldWasSent, Held, Promise!Init
<1>2. QueueIInv /\ HeldWasSent /\ [QueueNext]_queueVars => HeldWasSent'
  BY HeldWasSentStep
<1>3. QueueIInv /\ HeldWasSent /\ NoSilentLoss /\ [QueueNext]_queueVars
         => [Promise!Next]_Promise!deliveryVars
  BY DeliveryStep
<1> QED
  BY <1>1, <1>2, <1>3, QueueInvariant, QueueNoSilentLoss, PTL
  DEF QueueSpec, QueueIInv, Delivers, Promise!Spec

\* The abstract promise contains the loss accounting: whatever refines Delivery loses
\* nothing in silence.
THEOREM DeliversMeansNoSilentLoss == Delivers => []NoSilentLoss
<1>1. Promise!Init => NoSilentLoss
  BY DEF Promise!Init, NoSilentLoss
<1>2. NoSilentLoss /\ [Promise!Next]_Promise!deliveryVars => NoSilentLoss'
  <2> SUFFICES ASSUME NoSilentLoss, [Promise!Next]_Promise!deliveryVars
               PROVE  NoSilentLoss'
    OBVIOUS
  <2>1. CASE \E w \in Msg : Promise!Accept(w)
    BY <2>1 DEF Promise!Accept, NoSilentLoss
  <2>2. CASE \E w \in Msg : Promise!Finish(w)
    BY <2>2 DEF Promise!Finish, Promise!KeepsWhatIsOpen, NoSilentLoss
  <2>3. CASE \E W : Promise!Lose(W)
    BY <2>3 DEF Promise!Lose, Promise!KeepsWhatIsOpen, NoSilentLoss
  <2>4. CASE Promise!Release
    BY <2>4 DEF Promise!Release, Promise!KeepsWhatIsOpen, NoSilentLoss
  <2>5. CASE UNCHANGED Promise!deliveryVars
    BY <2>5 DEF Promise!deliveryVars, NoSilentLoss
  <2> QED
    BY <2>1, <2>2, <2>3, <2>4, <2>5 DEF Promise!Next
<1> QED
  BY <1>1, <1>2, PTL DEF Delivers, Promise!Spec
=============================================================================
