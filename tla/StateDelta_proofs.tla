-------------------------- MODULE StateDelta_proofs --------------------------
(***************************************************************************)
(* For any messages, any number of statements per message and any faults:  *)
(* the state-delta queues run on the reliable queue, but for the handler's *)
(* own requeue, and leave no delta half written in silence.                *)
(***************************************************************************)
EXTENDS StateDelta, ReliableQueue_proofs

DeltaTypes ==
    /\ handler \in Handlers
    /\ dpc \in HandlerPC
    /\ part \in 1..Last
    /\ stored \in [Msg -> SUBSET (1..Last)]
    /\ announced \in SUBSET Msg
    /\ dlq \in SUBSET Msg
    /\ refused \in SUBSET Msg
    /\ swallowed \in SUBSET Msg

\* The handler works inside the loop of the queue, and has written the parts
\* before the next one.
HandlerOK ==
    /\ dpc # "none" => pc = "handle"
    /\ dpc = "validate" => part = 1
    /\ dpc = "write" => 1..(part - 1) \subseteq stored[cur]
    /\ dpc = "publish" => Complete(cur)

\* A message that the acknowledgement will not lose.
Kept(m) ==
    \/ Complete(m)
    \/ Has(queue, m) \/ m \in InHand
    \/ m \in dlq \cup refused \cup dropped \cup swallowed

KeptOK ==
    /\ \A m \in Msg : sent[m] > 0 => Kept(m) \/ Has(processing, m)
    /\ pc = "ack_lrem" => Kept(cur)

DeltaIInv == QueueIInv /\ DeltaTypes /\ HandlerOK /\ KeptOK
-----------------------------------------------------------------------------
(* The steps of the queue under the handler *)

\* A last part is one of the parts.
LEMMA LastFacts == Last \in Nat /\ 1 <= Last /\ Last <= Parts
  BY DeltaAssumption DEF Last

\* Every step is one of the reliable queue, but for the handler's requeue.
LEMMA StepIsQueueStep ==
    ASSUME HandlerOK, [Next]_vars
    PROVE  [QueueNext]_queueVars \/ Requeue
<1> USE DEF HandlerOK, aroundHandler, EndHandler, RedisFails, queueVars
<1>1. CASE QueueOnly
  BY <1>1 DEF QueueOnly, QueueNext
<1>2. CASE StartHandler
  BY <1>2 DEF StartHandler, QueueNext
<1>3. CASE Refuse
  BY <1>3 DEF Refuse, QueueNext
<1>4. CASE Accept \/ WritePart \/ VaultLocked \/ WriteFails
  BY <1>4 DEF Accept, WritePart, VaultLocked, WriteFails, redisVars, consumerVars, reclaimVars
<1>5. CASE WriteLastPart
  <2>1. CASE HandlerReturn
    BY <2>1 DEF QueueNext
  <2>2. CASE UNCHANGED aroundHandler
    BY <1>5, <2>2 DEF WriteLastPart, redisVars, consumerVars, reclaimVars
  <2> QED
    BY <1>5, <2>1, <2>2 DEF WriteLastPart
<1>6. CASE PublishNeedsEmbedding
  BY <1>6 DEF PublishNeedsEmbedding, QueueNext
<1>7. CASE RequeueFails
  <2>1. CASE HandlerReturn
    BY <2>1 DEF QueueNext
  <2>2. CASE UNCHANGED aroundHandler
    <3>1. pc = "handle"
      BY <1>7 DEF RequeueFails
    <3>2. HandlerRedisError
      BY <1>7, <2>2, <3>1
      DEF RequeueFails, HandlerRedisError, redisVars, consumerVars, reclaimVars
    <3> QED
      BY <3>2 DEF QueueNext
  <2> QED
    BY <1>7, <2>1, <2>2 DEF RequeueFails
<1>8. CASE PushDlq
  BY <1>8 DEF PushDlq, QueueNext
<1>9. CASE DeltaCrash
  BY <1>9 DEF DeltaCrash, QueueNext
<1>10. CASE DeltaStop
  BY <1>10 DEF DeltaStop, QueueNext
<1>11. CASE UNCHANGED vars
  BY <1>11 DEF vars
<1> QED
  BY <1>1, <1>2, <1>3, <1>4, <1>5, <1>6, <1>7, <1>8, <1>9, <1>10, <1>11 DEF Next, DeltaStep

\* The requeue keeps the queue in order.
LEMMA RequeueKeepsQueue == QueueIInv /\ HandlerOK /\ Requeue => QueueIInv'
<1> SUFFICES ASSUME QueueIInv, HandlerOK, Requeue PROVE QueueIInv'
  OBVIOUS
<1>1. pc = "handle"
  BY DEF HandlerOK, Requeue
<1>2. cur \in Msg
  BY <1>1 DEF QueueIInv, HandsOK
<1>3. queue' \in Seq(Msg)
  BY <1>2, RPushFacts DEF Requeue, QueueIInv, QueueTypeOK
<1> QED
  BY <1>1, <1>2, <1>3
  DEF Requeue, QueueIInv, QueueTypeOK, OneInFlight, HandsOK, ConsumerPC, reclaimVars
-----------------------------------------------------------------------------
(* The handler *)

\* One case per step of the handler: its types and how far it has written.
LEMMA HandlerStepOK ==
    ASSUME QueueIInv, DeltaTypes, HandlerOK, [Next]_vars
    PROVE  DeltaTypes' /\ HandlerOK'
<1> USE LastFacts, DeltaAssumption
    DEF DeltaTypes, HandlerOK, HandlerPC, aroundHandler, EndHandler, RedisFails
<1>1. Last' = Last
  BY DEF Next, QueueOnly, DeltaStep, vars, deltaVars, Last, StartHandler, Refuse, Accept,
     WritePart, WriteLastPart, VaultLocked, WriteFails, PublishNeedsEmbedding, Requeue,
     RequeueFails, PushDlq, DeltaCrash, DeltaStop
<1>2. pc = "handle" => cur \in Msg
  BY DEF QueueIInv, HandsOK
<1>3. CASE QueueOnly
  <2>1. pc = "handle" => pc' = "handle" /\ cur' = cur
    BY <1>3 DEF QueueOnly, ConsumerStep, ReclaimStep, Environment, StartupRPop, StartupLPush,
       StartupZRem, PopMessage, AckLRem, AckZRem, ReclaimSnapshot, ReclaimLRem, ReclaimLPush,
       ReclaimZRem, Enqueue, LeaseExpires, ReclaimError, StopOutsideHandler, Restart, consumerVars
  <2> QED
    BY <1>1, <1>3, <2>1 DEF QueueOnly, deltaVars, Complete
<1>4. CASE StartHandler
  BY <1>1, <1>4 DEF StartHandler, RegisterLease
<1>5. CASE Refuse
  BY <1>1, <1>2, <1>5 DEF Refuse, HandlerReturn
<1>6. CASE Accept
  <2>1. 1..(part - 1) = {}
    BY <1>6 DEF Accept
  <2> QED
    BY <1>1, <1>6, <2>1 DEF Accept, consumerVars
<1>7. CASE WritePart
  <2>1. /\ part' = part + 1 /\ part' \in 1..Last /\ cur \in Msg /\ UNCHANGED <<pc, cur, dpc>>
        /\ dpc = "write" /\ stored' = [stored EXCEPT ![cur] = @ \cup {part}]
    BY <1>2, <1>7 DEF WritePart, consumerVars
  <2>2. 1..(part' - 1) \subseteq (1..(part - 1)) \cup {part}
    BY <2>1
  <2>3. stored' \in [Msg -> SUBSET (1..Last)] /\ stored'[cur] = stored[cur] \cup {part}
    BY <2>1
  <2> QED
    BY <1>1, <1>7, <2>1, <2>2, <2>3 DEF WritePart
<1>8. CASE WriteLastPart
  <2>1. /\ cur \in Msg /\ part = Last /\ UNCHANGED cur
        /\ stored' = [stored EXCEPT ![cur] = @ \cup {part}]
    BY <1>2, <1>8 DEF WriteLastPart, consumerVars, HandlerReturn
  <2>2. stored' \in [Msg -> SUBSET (1..Last)] /\ stored'[cur] = stored[cur] \cup {Last}
    BY <2>1
  <2>3. 1..Last = (1..(Last - 1)) \cup {Last}
    OBVIOUS
  <2>4. stored'[cur] = 1..Last
    BY <1>8, <2>1, <2>2, <2>3 DEF WriteLastPart
  <2> QED
    BY <1>1, <1>8, <2>1, <2>2, <2>4 DEF WriteLastPart, HandlerReturn, consumerVars, Complete
<1>9. CASE VaultLocked \/ WriteFails
  BY <1>1, <1>9 DEF VaultLocked, WriteFails, consumerVars
<1>10. CASE PublishNeedsEmbedding
  BY <1>1, <1>2, <1>10 DEF PublishNeedsEmbedding, HandlerReturn
<1>11. CASE Requeue
  BY <1>1, <1>11 DEF Requeue
<1>12. CASE RequeueFails
  BY <1>1, <1>2, <1>12 DEF RequeueFails, HandlerReturn, consumerVars
<1>13. CASE PushDlq
  BY <1>1, <1>2, <1>13 DEF PushDlq, HandlerReturn
<1>14. CASE DeltaCrash
  BY <1>1, <1>14 DEF DeltaCrash
<1>15. CASE DeltaStop
  <2>1. cur \in Msg
    BY <1>2, <1>15 DEF DeltaStop, StopInHandler
  <2>2. stored' \in [Msg -> SUBSET (1..Last)]
    <3>1. ASSUME NEW last \in part..Last PROVE part..last \in SUBSET (1..Last)
      OBVIOUS
    <3> QED
      BY <1>15, <2>1, <3>1 DEF DeltaStop
  <2> QED
    BY <1>1, <1>15, <2>2 DEF DeltaStop
<1>16. CASE UNCHANGED vars
  BY <1>1, <1>16 DEF vars, deltaVars, queueVars, Complete
<1> QED
  BY <1>3, <1>4, <1>5, <1>6, <1>7, <1>8, <1>9, <1>10, <1>11, <1>12, <1>13, <1>14, <1>15,
     <1>16 DEF Next, DeltaStep
-----------------------------------------------------------------------------
(* No message is lost in silence *)

\* What a handler has stored, refused or given up stays so.
LEMMA HistoryGrows ==
    ASSUME QueueIInv, DeltaTypes, HandlerOK, [Next]_vars, NEW m \in Msg
    PROVE  /\ Complete(m) => Complete(m)'
           /\ dlq \cup refused \cup swallowed \subseteq (dlq \cup refused \cup swallowed)'
<1>1. /\ DeltaTypes' /\ \A k \in Msg : stored[k] \subseteq stored'[k]
      /\ UNCHANGED Last
  <2>1. pc = "handle" => cur \in Msg
    BY DEF QueueIInv, HandsOK
  <2>2. \A k \in Msg : stored[k] \subseteq stored'[k]
    BY <2>1 DEF DeltaTypes, HandlerOK, Next, QueueOnly, DeltaStep, vars, deltaVars,
       StartHandler, Refuse, Accept, WritePart, WriteLastPart, VaultLocked, WriteFails,
       PublishNeedsEmbedding, Requeue, RequeueFails, PushDlq, DeltaCrash, DeltaStop
  <2>3. UNCHANGED Last
    BY DEF Next, QueueOnly, DeltaStep, vars, deltaVars, Last, StartHandler, Refuse, Accept,
       WritePart, WriteLastPart, VaultLocked, WriteFails, PublishNeedsEmbedding, Requeue,
       RequeueFails, PushDlq, DeltaCrash, DeltaStop
  <2> QED
    BY <2>2, <2>3, HandlerStepOK
<1>2. Complete(m) => Complete(m)'
  BY <1>1 DEF Complete, DeltaTypes
<1>3. dlq \cup refused \cup swallowed \subseteq (dlq \cup refused \cup swallowed)'
  BY DEF Next, QueueOnly, DeltaStep, vars, deltaVars, StartHandler, Refuse, Accept, WritePart,
     WriteLastPart, VaultLocked, WriteFails, PublishNeedsEmbedding, Requeue, RequeueFails,
     PushDlq, DeltaCrash, DeltaStop
<1> QED
  BY <1>2, <1>3

\* A handler that ends leaves its message where the acknowledgement cannot lose it.
LEMMA HandlerKeeps ==
    ASSUME QueueIInv, DeltaTypes, HandlerOK, Next, pc = "handle", pc' = "ack_lrem"
    PROVE  cur' = cur /\ Kept(cur)'
<1>1. cur \in Msg
  BY DEF QueueIInv, HandsOK
<1> USE DEF EndHandler, HandlerReturn, Kept
<1>2. CASE Refuse
  BY <1>1, <1>2 DEF Refuse
<1>3. CASE WriteLastPart
  <2>1. /\ stored'[cur] = stored[cur] \cup {Last} /\ UNCHANGED <<cur, handler>>
        /\ 1..(Last - 1) \subseteq stored[cur] /\ stored[cur] \subseteq 1..Last
    BY <1>1, <1>3
    DEF WriteLastPart, HandlerOK, DeltaTypes, aroundHandler, consumerVars
  <2>2. 1..Last = (1..(Last - 1)) \cup {Last}
    BY LastFacts
  <2>3. Complete(cur)' /\ UNCHANGED Last
    BY <2>1, <2>2 DEF Complete, Last
  <2> QED
    BY <2>1, <2>3
<1>4. CASE PublishNeedsEmbedding
  BY <1>1, <1>4, HistoryGrows DEF PublishNeedsEmbedding, HandlerOK
<1>5. CASE Requeue
  <2>1. Has(queue', cur) /\ cur' = cur
    BY <1>1, <1>5, RPushFacts DEF Requeue, QueueIInv, QueueTypeOK
  <2> QED
    BY <2>1
<1>6. CASE RequeueFails
  BY <1>1, <1>6 DEF RequeueFails, aroundHandler, consumerVars
<1>7. CASE PushDlq
  BY <1>1, <1>7 DEF PushDlq
<1>8. CASE DeltaStop
  BY <1>1, <1>8 DEF DeltaStop, StopInHandler
<1>9. CASE Accept \/ WritePart \/ VaultLocked \/ WriteFails
  BY <1>9 DEF Accept, WritePart, VaultLocked, WriteFails, aroundHandler, consumerVars
<1>10. CASE QueueOnly \/ StartHandler \/ DeltaCrash
  BY <1>10 DEF QueueOnly, ConsumerStep, ReclaimStep, Environment, StartupRPop, StartupLPush,
     StartupZRem, PopMessage, AckLRem, AckZRem, ReclaimSnapshot, ReclaimLRem, ReclaimLPush,
     ReclaimZRem, Enqueue, LeaseExpires, ReclaimError, StopOutsideHandler, Restart,
     consumerVars, StartHandler, RegisterLease, DeltaCrash, Crash, ProcessExits
<1> QED
  BY <1>2, <1>3, <1>4, <1>5, <1>6, <1>7, <1>8, <1>9, <1>10 DEF Next, DeltaStep

\* While a message waits for its acknowledgement, nobody takes one out of the queue.
LEMMA QueueKeeps ==
    ASSUME QueueIInv, HandlerOK, [Next]_vars, pc = "ack_lrem", NEW m \in Msg,
           Has(queue, m) \/ m \in InHand \/ m \in dropped
    PROVE  (Has(queue, m) \/ m \in InHand \/ m \in dropped)'
<1> DEFINE Goal == (Has(queue, m) \/ m \in InHand \/ m \in dropped)'
<1> USE DEF InHand, QueueIInv, QueueTypeOK, HandsOK, HandlerOK
<1>1. ASSUME NEW k \in Msg, Enqueue(k)
      PROVE  Goal
  BY <1>1, LPushFacts DEF Enqueue, consumerVars, reclaimVars
<1>2. CASE ReclaimLPush
  BY <1>2, LPushFacts DEF ReclaimLPush, consumerVars, historyVars
<1>3. CASE \/ ReclaimSnapshot \/ ReclaimZRem \/ ReclaimError \/ AckLRem
           \/ \E k \in Msg : ReclaimLRem(k) \/ LeaseExpires(k)
  BY <1>3 DEF ReclaimSnapshot, ReclaimZRem, ReclaimError, ReclaimLRem, LeaseExpires, AckLRem,
     redisVars, consumerVars, reclaimVars, historyVars
<1>4. CASE StopOutsideHandler \/ DeltaCrash
  BY <1>4 DEF StopOutsideHandler, DeltaCrash, Crash, redisVars
<1>5. CASE UNCHANGED vars
  BY <1>5 DEF vars, queueVars
<1>6. ~DeltaStep
  BY DEF DeltaStep, Refuse, Accept, WritePart, WriteLastPart, VaultLocked, WriteFails,
     PublishNeedsEmbedding, Requeue, RequeueFails, PushDlq
<1>7. ~(StartupRPop \/ StartupLPush \/ StartupZRem \/ PopMessage \/ AckZRem \/ Restart
        \/ StartHandler \/ DeltaStop)
  BY DEF StartupRPop, StartupLPush, StartupZRem, PopMessage, AckZRem, Restart, StartHandler,
     RegisterLease, DeltaStop, StopInHandler
<1> QED
  BY <1>1, <1>2, <1>3, <1>4, <1>5, <1>6, <1>7
  DEF Next, QueueOnly, ConsumerStep, ReclaimStep, Environment

\* Only the handler's end makes a message wait for its acknowledgement.
LEMMA AckFollowsHandler ==
    ASSUME HandlerOK, [Next]_vars, pc' = "ack_lrem"
    PROVE  \/ pc = "ack_lrem" /\ cur' = cur
           \/ pc = "handle" /\ Next
  BY DEF Next, vars, queueVars, DeltaStep, Refuse, Accept, WritePart, WriteLastPart,
     VaultLocked, WriteFails, PublishNeedsEmbedding, Requeue, RequeueFails, PushDlq, HandlerOK,
     QueueOnly, ConsumerStep, StartupRPop, StartupLPush, StartupZRem, PopMessage, AckLRem,
     AckZRem, ReclaimStep, ReclaimSnapshot, ReclaimZRem, ReclaimLPush, ReclaimError,
     ReclaimLRem, LeaseExpires, Environment, Enqueue, consumerVars, StopOutsideHandler,
     ProcessExits, Restart, StartHandler, RegisterLease, DeltaCrash, Crash, DeltaStop,
     StopInHandler

\* Every message stays accounted for.
LEMMA KeptStep ==
    ASSUME DeltaIInv, [Next]_vars
    PROVE  KeptOK'
<1> USE DEF DeltaIInv
<1>1. ASSUME NEW m \in Msg, pc = "ack_lrem", Kept(m)
      PROVE  Kept(m)'
  BY <1>1, HistoryGrows, QueueKeeps DEF Kept
<1>2. ASSUME NEW m \in Msg, Kept(m) \/ Has(processing, m)
      PROVE  (Kept(m) \/ Has(processing, m))'
  <2>1. CASE Requeue
    <3>1. Has(queue', m) <=> m = cur \/ Has(queue, m)
      BY <2>1, RPushFacts DEF Requeue, HandlerOK, QueueIInv, QueueTypeOK, HandsOK
    <3>2. InHand' = InHand /\ UNCHANGED <<processing, dropped>>
      BY <2>1 DEF Requeue, InHand, reclaimVars, HandlerOK
    <3> QED
      BY <1>2, <3>1, <3>2, HistoryGrows DEF Kept
  <2>2. CASE [QueueNext]_queueVars
    <3>1. CASE pc = "ack_lrem" /\ cur = m
      BY <1>1, <3>1 DEF KeptOK
    <3>2. CASE ~(pc = "ack_lrem" /\ cur = m)
      BY <1>2, <2>2, <3>2, LocatedStep, HistoryGrows DEF Located, Kept
    <3> QED
      BY <3>1, <3>2
  <2> QED
    BY <2>1, <2>2, StepIsQueueStep
<1>3. ASSUME NEW m \in Msg, sent'[m] > 0
      PROVE  (Kept(m) \/ Has(processing, m))'
  <2>1. CASE sent[m] > 0
    BY <1>2, <2>1 DEF KeptOK
  <2>2. CASE ~(sent[m] > 0)
    <3>1. ~Requeue
      BY <1>3, <2>2 DEF Requeue
    <3>2. Has(queue', m)
      BY <1>3, <2>2, <3>1, StepIsQueueStep, SentStep
    <3> QED
      BY <3>2 DEF Kept
  <2> QED
    BY <2>1, <2>2
<1>4. ASSUME pc' = "ack_lrem"
      PROVE  Kept(cur)'
  <2>1. CASE pc = "ack_lrem" /\ cur' = cur
    <3>1. PICK m \in Msg : m = cur /\ m = cur' /\ Kept(m)
      BY <2>1 DEF KeptOK, QueueIInv, HandsOK
    <3>2. Kept(m)'
      BY <1>1, <2>1, <3>1
    <3> QED
      BY <3>1, <3>2
  <2>2. CASE pc = "handle" /\ Next
    BY <1>4, <2>2, HandlerKeeps
  <2> QED
    BY <1>4, <2>1, <2>2, AckFollowsHandler
<1> QED
  BY <1>3, <1>4 DEF KeptOK
-----------------------------------------------------------------------------
(* Theorems *)

\* The inductive invariant.
THEOREM DeltaInvariant == Spec => []DeltaIInv
<1>1. Init => DeltaIInv
  <2> SUFFICES ASSUME Init PROVE DeltaIInv
    OBVIOUS
  <2>1. QueueIInv
    BY QueueInitOK DEF Init
  <2>2. DeltaTypes /\ HandlerOK
    BY LastFacts DEF Init, DeltaTypes, HandlerOK, HandlerPC
  <2>3. KeptOK
    BY DEF Init, QueueInit, KeptOK
  <2> QED
    BY <2>1, <2>2, <2>3 DEF DeltaIInv
<1>2. DeltaIInv /\ [Next]_vars => DeltaIInv'
  <2> SUFFICES ASSUME DeltaIInv, [Next]_vars PROVE DeltaIInv'
    OBVIOUS
  <2>1. QueueIInv'
    BY StepIsQueueStep, RequeueKeepsQueue, QueueStepOK DEF DeltaIInv
  <2> QED
    BY <2>1, HandlerStepOK, KeptStep DEF DeltaIInv
<1> QED
  BY <1>1, <1>2, PTL DEF Spec

\* Every variable of a state-delta queue has its type.
THEOREM DeltaTypesOK == Spec => []TypeOK
<1>1. DeltaIInv => TypeOK
  BY LastFacts, DeltaAssumption DEF DeltaIInv, QueueIInv, DeltaTypes, TypeOK
<1> QED
  BY <1>1, DeltaInvariant, PTL

\* Whatever crashes, stops, Redis errors, locked vaults and redeliveries happen, a
\* delta that was sent is stored in full, on its way, in the DLQ, or on record as
\* refused or lost.
THEOREM DeltaNoneLost == Spec => []DeltaAccounted
<1>1. DeltaIInv => DeltaAccounted
  BY DEF DeltaIInv, KeptOK, Kept, DeltaAccounted
<1> QED
  BY <1>1, DeltaInvariant, PTL

\* The ":processing" list of a state-delta queue holds the one message in flight,
\* although its handler may put a second copy of it into the queue.
THEOREM DeltaOneInFlight == Spec => []OneInFlight
<1>1. DeltaIInv => OneInFlight
  BY DEF DeltaIInv, QueueIInv
<1> QED
  BY <1>1, DeltaInvariant, PTL
-----------------------------------------------------------------------------
(* A state-delta queue implements Delivery *)

Accepted == {m \in Msg : sent[m] > 0}
Stored == {m \in Msg : Complete(m)}
Done == Stored \cup dlq \cup refused
Lost == dropped \cup swallowed

\* Only what was sent is held or worked on, also after a requeue.
LEMMA DeltaHeldWasSentStep ==
    ASSUME DeltaIInv, HeldWasSent, [Next]_vars
    PROVE  HeldWasSent'
<1>1. CASE Requeue
  <2>1. cur \in Msg /\ queue \in Seq(Msg)
    BY <1>1 DEF Requeue, DeltaIInv, HandlerOK, QueueIInv, QueueTypeOK, HandsOK
  <2>2. \A m : Has(queue', m) <=> m = cur \/ Has(queue, m)
    BY <1>1, <2>1, RPushFacts DEF Requeue
  <2>3. UNCHANGED <<processing, sent, cur>> /\ InHand' = InHand
    BY <1>1 DEF Requeue, InHand, reclaimVars, DeltaIInv, HandlerOK
  <2> QED
    BY <2>1, <2>2, <2>3 DEF HeldWasSent, Held
<1>2. CASE [QueueNext]_queueVars
  BY <1>2, HeldWasSentStep DEF DeltaIInv
<1> QED
  BY <1>1, <1>2, StepIsQueueStep DEF DeltaIInv

\* Writing parts of one message completes that message or none.
LEMMA StoredStep ==
    ASSUME DeltaTypes, cur \in Msg, UNCHANGED handler, NEW X,
           stored[cur] \subseteq X, X \subseteq 1..Last,
           stored' = [stored EXCEPT ![cur] = X]
    PROVE  Stored' = Stored \/ Stored' = Stored \cup {cur}
<1>1. UNCHANGED Last
  BY DEF Last
<1>2. \A m \in Msg : m # cur => (Complete(m)' <=> Complete(m))
  BY <1>1 DEF Complete, DeltaTypes
<1>4. stored[cur] = 1..Last => stored'[cur] = 1..Last
  BY DEF DeltaTypes
<1>5. \A m \in Msg : m = cur /\ Complete(m) => Complete(m)'
  BY <1>1, <1>4 DEF Complete
<1> QED
  BY <1>2, <1>5 DEF Stored

\* What a step makes of the outcomes, unless it is a requeue: it sends a message,
\* leaves the outcomes alone, ends the message in hand, or loses messages, of which
\* it may have completed some.
LEMMA OutcomeStep ==
    ASSUME DeltaIInv, HeldWasSent, [Next]_vars, ~Requeue
    PROVE  \/ \E k \in Msg : Enqueue(k) /\ UNCHANGED <<Done, Lost>>
           \/ UNCHANGED <<sent, Done, Lost>>
           \/ UNCHANGED <<sent, Lost>> /\ cur \in Accepted /\ Done' = Done \cup {cur}
           \/ /\ UNCHANGED sent
              /\ \E W \in SUBSET Accepted : \E F \in SUBSET W :
                    Lost' = Lost \cup W /\ Done' = Done \cup F
<1> DEFINE Sends == \E k \in Msg : Enqueue(k) /\ UNCHANGED <<Done, Lost>>
           Nothing == UNCHANGED <<sent, Done, Lost>>
           Ends == UNCHANGED <<sent, Lost>> /\ cur \in Accepted /\ Done' = Done \cup {cur}
           Loses == /\ UNCHANGED sent
                    /\ \E W \in SUBSET Accepted : \E F \in SUBSET W :
                          Lost' = Lost \cup W /\ Done' = Done \cup F
<1>1. /\ DeltaTypes /\ HandlerOK /\ QueueIInv
      /\ InHand \in SUBSET Accepted
      /\ rpc = "lpush" => rcur \in Accepted
      /\ pc = "handle" => cur \in Accepted /\ cur \in Msg
      /\ 1 <= Last /\ Last \in Nat
  <2>1. InHand \in SUBSET Msg /\ (pc = "handle" => cur \in Msg)
        /\ (rpc = "lpush" => rcur \in InHand)
    BY DEF DeltaIInv, QueueIInv, QueueTypeOK, HandsOK, InHand
  <2> QED
    BY <2>1, LastFacts DEF DeltaIInv, HeldWasSent, Held, Accepted
<1>2. ASSUME UNCHANGED <<handler, stored>>
      PROVE  Stored' = Stored
  BY <1>2 DEF Stored, Complete, Last
<1>3. CASE QueueOnly
  <2>1. Stored' = Stored /\ Done' = Done /\ UNCHANGED swallowed
    BY <1>2, <1>3 DEF QueueOnly, deltaVars, Done
  <2>2. CASE ReclaimError \/ StopOutsideHandler
    <3>1. PICK W \in SUBSET Accepted : dropped' = dropped \cup W /\ UNCHANGED sent
      <4>1. CASE ReclaimError
        <5>1. (IF rpc = "lpush" THEN {rcur} ELSE {}) \in SUBSET Accepted
          BY <1>1
        <5> QED
          BY <4>1, <5>1 DEF ReclaimError
      <4>2. CASE StopOutsideHandler
        BY <1>1, <4>2 DEF StopOutsideHandler
      <4> QED
        BY <2>2, <4>1, <4>2
    <3>2. Lost' = Lost \cup W /\ Done' = Done \cup {}
      BY <2>1, <3>1 DEF Lost
    <3>3. Loses
      BY <3>1, <3>2
    <3> QED
      BY <3>3
  <2>3. CASE \E k \in Msg : Enqueue(k)
    BY <2>1, <2>3 DEF Enqueue, Lost
  <2>4. CASE UNCHANGED <<sent, dropped>>
    BY <2>1, <2>4 DEF Lost
  <2>5. \/ ReclaimError \/ StopOutsideHandler \/ \E k \in Msg : Enqueue(k)
        \/ UNCHANGED <<sent, dropped>>
    BY <1>3 DEF QueueOnly, ConsumerStep, ReclaimStep, Environment, historyVars, StartupRPop,
       StartupLPush, StartupZRem, PopMessage, AckLRem, AckZRem, ReclaimSnapshot, ReclaimLRem,
       ReclaimLPush, ReclaimZRem, LeaseExpires, Restart
  <2> QED
    BY <2>2, <2>3, <2>4, <2>5
<1>4. CASE Refuse
  <2>1. Stored' = Stored
    BY <1>2, <1>4 DEF Refuse
  <2>2. Ends
    BY <1>1, <1>4, <2>1 DEF Refuse, EndHandler, HandlerReturn, Done, Lost
  <2> QED
    BY <2>2
<1>5. CASE \/ StartHandler \/ Accept \/ VaultLocked \/ WriteFails \/ PublishNeedsEmbedding
           \/ UNCHANGED vars
  <2>1. UNCHANGED <<sent, handler, stored, dlq, refused, dropped, swallowed>>
    BY <1>5 DEF StartHandler, RegisterLease, historyVars, Accept, VaultLocked, WriteFails,
       PublishNeedsEmbedding, EndHandler, HandlerReturn, aroundHandler, vars, queueVars, deltaVars
  <2>2. Nothing
    BY <1>2, <2>1 DEF Done, Lost
  <2> QED
    BY <2>2
<1>6. CASE WritePart \/ WriteLastPart
  <2>1. cur \in Msg /\ cur \in Accepted /\ part \in 1..Last
    BY <1>1, <1>6 DEF WritePart, WriteLastPart, HandlerOK, DeltaTypes
  <2>2. UNCHANGED <<sent, handler, dlq, refused, dropped, swallowed>>
    BY <1>6 DEF WritePart, WriteLastPart, EndHandler, HandlerReturn, aroundHandler
  <2>3. stored' = [stored EXCEPT ![cur] = stored[cur] \cup {part}]
    BY <1>6 DEF WritePart, WriteLastPart
  <2>4. stored[cur] \subseteq 1..Last
    BY <1>1, <2>1 DEF DeltaTypes
  <2>5. Stored' = Stored \/ Stored' = Stored \cup {cur}
    BY <1>1, <2>1, <2>2, <2>3, <2>4, StoredStep
  <2>6. Nothing \/ Ends
    BY <2>1, <2>2, <2>5 DEF Done, Lost
  <2> QED
    BY <2>6
<1>7. CASE RequeueFails \/ PushDlq
  <2>1. cur \in Accepted
    BY <1>1, <1>7 DEF RequeueFails, PushDlq, HandlerOK
  <2>2. UNCHANGED <<sent, handler, stored, refused, dropped>>
    BY <1>7 DEF RequeueFails, PushDlq, EndHandler, HandlerReturn, aroundHandler
  <2>3. \/ UNCHANGED <<dlq, swallowed>>
        \/ UNCHANGED swallowed /\ dlq' = dlq \cup {cur}
        \/ UNCHANGED dlq /\ swallowed' = swallowed \cup {cur}
    BY <1>7 DEF RequeueFails, PushDlq
  <2>4. Stored' = Stored
    BY <1>2, <2>2
  <2>5. Nothing \/ Ends \/ (UNCHANGED sent /\ Lost' = Lost \cup {cur} /\ Done' = Done \cup {})
    BY <2>1, <2>2, <2>3, <2>4 DEF Done, Lost
  <2>6. {cur} \in SUBSET Accepted /\ {} \in SUBSET {cur}
    BY <2>1
  <2>7. Nothing \/ Ends \/ Loses
    BY <2>5, <2>6
  <2> QED
    BY <2>7
<1>8. CASE DeltaCrash
  <2>1. Stored' = Stored /\ Done' = Done \cup {}
    BY <1>2, <1>8 DEF DeltaCrash, Done
  <2>2. UNCHANGED sent /\ Lost' = Lost \cup InHand
    BY <1>8 DEF DeltaCrash, Crash, Lost
  <2>3. Loses
    BY <1>1, <2>1, <2>2
  <2> QED
    BY <2>3
<1>9. CASE DeltaStop
  <2>1. cur \in Msg /\ cur \in Accepted
    BY <1>1, <1>9 DEF DeltaStop, StopInHandler
  <2>2. UNCHANGED <<sent, handler, dlq, refused, swallowed>>
        /\ dropped' = dropped \cup (InHand \cup {cur})
    BY <1>9 DEF DeltaStop, StopInHandler
  <2>3. Stored' = Stored \/ Stored' = Stored \cup {cur}
    <3>1. CASE UNCHANGED stored
      BY <1>2, <2>2, <3>1
    <3>2. CASE \E last \in part..Last :
                  stored' = [stored EXCEPT ![cur] = @ \cup (part..last)]
      <4>1. PICK last \in part..Last :
               stored' = [stored EXCEPT ![cur] = stored[cur] \cup (part..last)]
        BY <3>2
      <4>2. part \in 1..Last /\ stored[cur] \subseteq 1..Last
        BY <1>1, <2>1 DEF DeltaTypes
      <4>3. part..last \subseteq 1..Last
        BY <1>1, <4>2
      <4>4. stored[cur] \subseteq stored[cur] \cup (part..last)
            /\ stored[cur] \cup (part..last) \subseteq 1..Last
        BY <4>2, <4>3
      <4> QED
        BY <1>1, <2>1, <2>2, <4>1, <4>4, StoredStep
    <3> QED
      BY <1>9, <3>1, <3>2 DEF DeltaStop
  <2>4. Lost' = Lost \cup (InHand \cup {cur}) /\ InHand \cup {cur} \in SUBSET Accepted
    BY <1>1, <2>1, <2>2 DEF Lost
  <2>5. \E F \in SUBSET (InHand \cup {cur}) : Done' = Done \cup F
    <3>1. Done' = Done \cup {} \/ Done' = Done \cup {cur}
      BY <2>2, <2>3 DEF Done
    <3> QED
      BY <3>1
  <2>6. Loses
    BY <2>2, <2>4, <2>5
  <2> QED
    BY <2>6
<1> QED
  BY <1>3, <1>4, <1>5, <1>6, <1>7, <1>8, <1>9 DEF Next, DeltaStep

\* Every step of a state-delta queue is a step of Delivery.
LEMMA DeltaDeliveryStep ==
    ASSUME DeltaIInv, DeltaIInv', HeldWasSent, [Next]_vars
    PROVE  DeltaPromise!Next
<1> DEFINE kept == {m \in Msg : Held(m)}
<1> USE DEF Accepted, Done, Lost, Stored
<1>1. CASE Requeue
  <2>1. cur \in Msg /\ queue \in Seq(Msg) /\ sent[cur] > 0
    BY <1>1 DEF Requeue, DeltaIInv, HandlerOK, QueueIInv, QueueTypeOK, HandsOK, HeldWasSent
  <2>2. \A m : Has(queue', m) <=> m = cur \/ Has(queue, m)
    BY <1>1, <2>1, RPushFacts DEF Requeue
  <2>3. /\ UNCHANGED <<processing, sent, handler, stored, dlq, refused, dropped, swallowed>>
        /\ InHand' = InHand
    BY <1>1 DEF Requeue, InHand, reclaimVars, DeltaIInv, HandlerOK
  <2>4. PICK k \in Msg : k = cur
    BY <2>1
  <2>5. Done' = Done /\ Lost' = Lost /\ Accepted' = Accepted \cup {k}
    BY <2>1, <2>3, <2>4 DEF Complete, Last
  <2>6. kept' = kept \cup {k}
    BY <2>1, <2>2, <2>3, <2>4 DEF Held
  <2>7. DeltaPromise!Accept(k)
    BY <2>5, <2>6 DEF DeltaPromise!Accept, Held
  <2> QED
    BY <2>7 DEF DeltaPromise!Next
<1>2. CASE ~Requeue
  <2>1. [QueueNext]_queueVars /\ QueueIInv
    BY <1>2, StepIsQueueStep DEF DeltaIInv
  <2>2. \A m \in Msg : sent[m] \in Nat /\ sent'[m] \in Nat
    BY DEF DeltaIInv, QueueIInv, QueueTypeOK
  <2>3. ASSUME UNCHANGED sent
        PROVE  DeltaPromise!KeepsWhatIsOpen
    <3>1. \A m \in Msg : Held(m)' => Held(m)
      <4>1. \A m \in Msg : ~(sent'[m] > sent[m])
        BY <2>2, <2>3
      <4> QED
        BY <2>1, <4>1, HeldStep
    <3>2. \A m \in Msg : Held(m) => Held(m)' \/ m \in Done' \cup Lost'
      <4>1. \A m \in Msg : Held(m) => sent'[m] > 0
        BY <2>3 DEF HeldWasSent
      <4> QED
        BY <4>1 DEF DeltaIInv, KeptOK, Kept, Held
    <3> QED
      BY <3>1, <3>2 DEF DeltaPromise!KeepsWhatIsOpen, Held
  <2>4. ASSUME NEW k \in Msg, Enqueue(k), UNCHANGED <<Done, Lost>>
        PROVE  DeltaPromise!Accept(k)
    <3>1. Accepted' = Accepted \cup {k}
      <4>1. \A m \in Msg : sent'[m] = IF m = k THEN sent[m] + 1 ELSE sent[m]
        BY <2>4 DEF Enqueue, DeltaIInv, QueueIInv, QueueTypeOK
      <4> QED
        BY <2>2, <4>1
    <3>2. \A m \in Msg : Held(m)' <=> m = k \/ Held(m)
      <4>1. \A m \in Msg : Has(queue', m) <=> m = k \/ Has(queue, m)
        BY <2>4, LPushFacts DEF Enqueue, DeltaIInv, QueueIInv, QueueTypeOK
      <4> QED
        BY <2>4, <4>1 DEF Enqueue, Held, InHand, consumerVars, reclaimVars
    <3> QED
      BY <2>4, <3>1, <3>2 DEF DeltaPromise!Accept, Held
  <2>5. CASE \E k \in Msg : Enqueue(k) /\ UNCHANGED <<Done, Lost>>
    BY <2>4, <2>5 DEF DeltaPromise!Next
  <2>6. CASE UNCHANGED <<sent, Done, Lost>>
    BY <2>3, <2>6 DEF DeltaPromise!Next, DeltaPromise!Release
  <2>7. CASE UNCHANGED <<sent, Lost>> /\ cur \in Accepted /\ Done' = Done \cup {cur}
    BY <2>3, <2>7 DEF DeltaPromise!Next, DeltaPromise!Finish
  <2>8. CASE /\ UNCHANGED sent
             /\ \E W \in SUBSET Accepted : \E F \in SUBSET W :
                   Lost' = Lost \cup W /\ Done' = Done \cup F
    BY <2>3, <2>8 DEF DeltaPromise!Next, DeltaPromise!Lose
  <2> QED
    BY <1>2, <2>5, <2>6, <2>7, <2>8, OutcomeStep
<1> QED
  BY <1>1, <1>2

\* A state-delta queue delivers: a delta is kept until it is stored in full, in the
\* DLQ, refused, or on record as lost, whatever its handler, the vault and Redis do.
THEOREM DeltaImplementsDelivery == Spec => DeltaDelivers
<1>1. Init => HeldWasSent /\ DeltaPromise!Init
  <2> SUFFICES ASSUME Init PROVE HeldWasSent /\ DeltaPromise!Init
    OBVIOUS
  <2>1. InHand = {} /\ \A m : ~Has(<<>>, m)
    BY DEF Init, QueueInit, InHand, Has
  <2>2. cur \notin Msg /\ \A m \in Msg : ~(sent[m] > 0)
    BY QueueAssumption DEF Init, QueueInit
  <2>3. \A m \in Msg : ~Complete(m)
    BY LastFacts DEF Init, Complete
  <2> QED
    BY <2>1, <2>2, <2>3 DEF Init, QueueInit, HeldWasSent, Held, DeltaPromise!Init
<1>2. DeltaIInv /\ HeldWasSent /\ [Next]_vars => HeldWasSent'
  BY DeltaHeldWasSentStep
<1>3. DeltaIInv /\ DeltaIInv' /\ HeldWasSent /\ [Next]_vars
         => [DeltaPromise!Next]_DeltaPromise!deliveryVars
  BY DeltaDeliveryStep
<1> QED
  BY <1>1, <1>2, <1>3, DeltaInvariant, PTL DEF Spec, DeltaDelivers, DeltaPromise!Spec

\* The abstract promise contains the accounting of the deltas.
THEOREM DeltaDeliversMeansAccounted == DeltaDelivers => []DeltaAccounted
<1>1. DeltaPromise!Init => DeltaAccounted
  BY DEF DeltaPromise!Init, DeltaAccounted
<1>2. DeltaAccounted /\ [DeltaPromise!Next]_DeltaPromise!deliveryVars => DeltaAccounted'
  <2> SUFFICES ASSUME DeltaAccounted, [DeltaPromise!Next]_DeltaPromise!deliveryVars
               PROVE  DeltaAccounted'
    OBVIOUS
  <2>1. CASE \E w \in Msg : DeltaPromise!Accept(w)
    BY <2>1 DEF DeltaPromise!Accept, DeltaAccounted
  <2>2. CASE \E w \in Msg : DeltaPromise!Finish(w)
    BY <2>2 DEF DeltaPromise!Finish, DeltaPromise!KeepsWhatIsOpen, DeltaAccounted
  <2>3. CASE \E W : DeltaPromise!Lose(W)
    BY <2>3 DEF DeltaPromise!Lose, DeltaPromise!KeepsWhatIsOpen, DeltaAccounted
  <2>4. CASE DeltaPromise!Release
    BY <2>4 DEF DeltaPromise!Release, DeltaPromise!KeepsWhatIsOpen, DeltaAccounted
  <2>5. CASE UNCHANGED DeltaPromise!deliveryVars
    BY <2>5 DEF DeltaPromise!deliveryVars, DeltaAccounted
  <2> QED
    BY <2>1, <2>2, <2>3, <2>4, <2>5 DEF DeltaPromise!Next
<1> QED
  BY <1>1, <1>2, PTL DEF DeltaDelivers, DeltaPromise!Spec
=============================================================================
