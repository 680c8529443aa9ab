--------------------------- MODULE DbWriter_proofs ---------------------------
(***************************************************************************)
(* For every set of messages and tasks and every bound: the SQL path       *)
(* applies a task at most once, never shows success for a task that was    *)
(* not applied, loses no message silently, and implements the contract     *)
(* that WriteContract states.                                              *)
(***************************************************************************)
EXTENDS DbWriter, ReliableQueue_proofs

WriterIInv ==
    /\ QueueIInv
    /\ TypeOK
    /\ HandlerOK
    /\ LedgerOK
    /\ SuccessMeansApplied
-----------------------------------------------------------------------------
(* What the queue does while the handler works *)

\* Every step of the writer is a step of the reliable queue it runs on.
LEMMA WriterStepIsQueueStep ==
    ASSUME WriterIInv, [Next]_vars
    PROVE  [QueueNext]_queueVars
<1> USE DEF WriterIInv, HandlerOK, QueueNext, aroundHandler, RedisFails
<1>1. CASE QueueOnly
  BY <1>1 DEF QueueOnly
<1>2. CASE StartHandler
  BY <1>2 DEF StartHandler
<1>3. CASE GetDedup
  BY <1>3 DEF GetDedup, HandlerRedisError, queueVars, redisVars, consumerVars, reclaimVars
<1>4. CASE Validate
  BY <1>4 DEF Validate, queueVars, redisVars, consumerVars, reclaimVars
<1>5. CASE TxCommit
  BY <1>5 DEF TxCommit, queueVars, redisVars, consumerVars, reclaimVars
<1>6. CASE TxAlreadyCompleted
  BY <1>6 DEF TxAlreadyCompleted, queueVars, redisVars, consumerVars, reclaimVars
<1>7. CASE TxFail
  BY <1>7 DEF TxFail, queueVars, redisVars, consumerVars, reclaimVars
<1>8. CASE SetDedup
  BY <1>8 DEF SetDedup, HandlerRedisError, queueVars, redisVars, consumerVars, reclaimVars
<1>9. CASE PublishAlready
  BY <1>9 DEF PublishAlready, PublishStatus, EndHandler, HandlerRedisError, queueVars,
     redisVars, consumerVars, reclaimVars
<1>10. CASE SetDedupAlready
  BY <1>10 DEF SetDedupAlready, EndHandler, HandlerRedisError, queueVars, redisVars,
     consumerVars, reclaimVars
<1>11. CASE PublishSuccess
  BY <1>11 DEF PublishSuccess, EndHandler
<1>12. CASE PublishFailed
  BY <1>12 DEF PublishFailed, EndHandler
<1>13. CASE \E t \in Task : KeyExpires(t)
  BY <1>13 DEF KeyExpires
<1>14. CASE WriterCrash
  BY <1>14 DEF WriterCrash
<1>15. CASE WriterStop
  BY <1>15 DEF WriterStop
<1>16. CASE UNCHANGED vars
  BY <1>16 DEF vars
<1> QED
  BY <1>1, <1>2, <1>3, <1>4, <1>5, <1>6, <1>7, <1>8, <1>9, <1>10, <1>11, <1>12,
     <1>13, <1>14, <1>15, <1>16 DEF Next, HandlerStep

\* A message that can no longer be handled stays so.
LEMMA LiveNeverRevives ==
    ASSUME QueueIInv, [QueueNext]_queueVars, NEW m \in Msg, Live(m)'
    PROVE  Live(m)
<1> USE QueueAssumption DEF QueueIInv, QueueTypeOK, OneInFlight, HandsOK, Live,
        redisVars, consumerVars, reclaimVars, historyVars
<1>1. ASSUME NEW k \in Msg, Enqueue(k)
      PROVE  Live(m)
  <2>1. Has(LPush(queue, k), m) <=> m = k \/ Has(queue, m)
    BY LPushFacts
  <2>2. m = k => sent[m] < MaxSend
    BY <1>1 DEF Enqueue
  <2>3. m # k => sent'[m] = sent[m]
    BY <1>1 DEF Enqueue
  <2> QED
    BY <1>1, <2>1, <2>2, <2>3 DEF Enqueue
<1>2. CASE StartupRPop
  <2>1. CASE processing = <<>>
    BY <1>2, <2>1 DEF StartupRPop
  <2>2. CASE processing # <<>>
    <3>1. Has(processing, m) <=> m = RightEnd(processing) \/ Has(processing', m)
      BY <1>2, <2>2, RPopFacts DEF StartupRPop
    <3> QED
      BY <1>2, <2>2, <3>1 DEF StartupRPop
  <2> QED
    BY <2>1, <2>2
<1>3. CASE StartupLPush
  <2>1. Has(queue', m) <=> m = cur \/ Has(queue, m)
    BY <1>3, LPushFacts DEF StartupLPush
  <2> QED
    BY <1>3, <2>1 DEF StartupLPush
<1>4. CASE StartupZRem
  BY <1>4 DEF StartupZRem
<1>5. CASE PopMessage
  <2>1. /\ RightEnd(queue) \in Msg
        /\ Has(queue, m) <=> m = RightEnd(queue) \/ Has(queue', m)
    BY <1>5, RPopFacts DEF PopMessage
  <2>2. Has(processing', m) <=> m = RightEnd(queue) \/ Has(processing, m)
    BY <1>5, <2>1, LPushFacts DEF PopMessage
  <2> QED
    BY <1>5, <2>1, <2>2 DEF PopMessage
<1>6. CASE RegisterLease
  BY <1>6 DEF RegisterLease
<1>7. CASE HandlerReturn
  BY <1>7 DEF HandlerReturn
<1>8. CASE HandlerRedisError
  BY <1>8 DEF HandlerRedisError
<1>9. CASE AckLRem
  <2>1. processing' = IF Has(processing, cur) THEN <<>> ELSE processing
    BY <1>9, LRemShort DEF AckLRem
  <2>2. ~ Has(<<>>, m)
    BY DEF Has
  <2> QED
    BY <1>9, <2>1, <2>2 DEF AckLRem
<1>10. CASE AckZRem
  BY <1>10 DEF AckZRem
<1>11. CASE ReclaimSnapshot
  BY <1>11 DEF ReclaimSnapshot
<1>12. ASSUME NEW k \in Msg, ReclaimLRem(k)
       PROVE  Live(m)
  <2>1. processing' = IF Has(processing, k) THEN <<>> ELSE processing
    BY <1>12, LRemShort DEF ReclaimLRem
  <2>2. ~ Has(<<>>, m)
    BY DEF Has
  <2> QED
    BY <1>12, <2>1, <2>2 DEF ReclaimLRem
<1>13. CASE ReclaimLPush
  <2>1. Has(queue', m) <=> m = rcur \/ Has(queue, m)
    BY <1>13, LPushFacts DEF ReclaimLPush
  <2> QED
    BY <1>13, <2>1 DEF ReclaimLPush
<1>14. CASE ReclaimZRem
  BY <1>14 DEF ReclaimZRem
<1>15. CASE ReclaimError
  BY <1>15 DEF ReclaimError
<1>16. ASSUME NEW k \in Msg, LeaseExpires(k)
       PROVE  Live(m)
  BY <1>16 DEF LeaseExpires
<1>17. CASE Crash
  BY <1>17 DEF Crash, ProcessExits
<1>18. CASE StopOutsideHandler
  BY <1>18 DEF StopOutsideHandler, ProcessExits
<1>19. CASE StopInHandler
  BY <1>19 DEF StopInHandler
<1>20. CASE Restart
  BY <1>20 DEF Restart
<1>21. CASE UNCHANGED queueVars
  BY <1>21 DEF queueVars
<1> QED
  BY <1>1, <1>2, <1>3, <1>4, <1>5, <1>6, <1>7, <1>8, <1>9, <1>10, <1>11, <1>12,
     <1>13, <1>14, <1>15, <1>16, <1>17, <1>18, <1>19, <1>20, <1>21
  DEF QueueNext, ConsumerStep, ReclaimStep, Environment
-----------------------------------------------------------------------------
(* The vault *)

\* The vault changes only by a commit of the task the handler works for.
LEMMA VaultChange ==
    ASSUME WriterIInv, [Next]_vars
    PROVE  UNCHANGED vaultVars \/ (pc = "handle" /\ Commit)
<1> USE DEF WriterIInv, HandlerOK, vaultVars, keyVars, handlerVars
<1>1. CASE HandlerStep
  BY <1>1 DEF HandlerStep, GetDedup, Validate, TxCommit, TxAlreadyCompleted, TxFail,
     SetDedup, PublishAlready, SetDedupAlready, PublishSuccess, PublishFailed
<1>2. CASE WriterStop
  BY <1>2 DEF WriterStop, StopInHandler
<1> QED
  BY <1>1, <1>2 DEF Next, QueueOnly, StartHandler, KeyExpires, WriterCrash, vars

\* A task that is about to be committed was never applied: its message is live, so
\* its row cannot have been pruned.
LEMMA CommitIsFirst ==
    ASSUME WriterIInv, pc = "handle", Commit
    PROVE  /\ cur \in Msg
           /\ task \in Task
           /\ effects[task] = 0
           /\ effects' = [effects EXCEPT ![task] = 1]
<1>1. cur \in Msg /\ task \in Task
  BY WriterAssumption DEF WriterIInv, QueueIInv, HandsOK, task
<1>2. ~ Prunable(task)
  BY <1>1 DEF Prunable, Live, task
<1>3. effects[task] \in Nat /\ effects[task] <= 1
  BY <1>1 DEF WriterIInv, LedgerOK, TypeOK
<1>4. effects[task] # 1
  BY <1>1, <1>2 DEF WriterIInv, LedgerOK, Commit
<1>5. effects[task] = 0
  BY <1>3, <1>4
<1> QED
  BY <1>1, <1>5 DEF Commit

\* A row of the ledger stands for exactly one effect after every step, and a pruned
\* one for a task that cannot come back.
LEMMA LedgerStep ==
    ASSUME WriterIInv, [Next]_vars
    PROVE  /\ LedgerOK'
           /\ (effects \in [Task -> Nat])'
           /\ (ledger \in SUBSET Task)'
           /\ \A t \in Task : effects[t] = 1 => effects'[t] = 1
<1>1. /\ effects \in [Task -> Nat]
      /\ ledger \in SUBSET Task
  BY DEF WriterIInv, TypeOK
<1>2. ASSUME NEW t \in Task, Prunable(t)
      PROVE  Prunable(t)'
  <2>1. \A m \in Msg : Live(m)' => Live(m)
    BY WriterStepIsQueueStep, LiveNeverRevives DEF WriterIInv
  <2> QED
    BY <1>2, <2>1 DEF Prunable
<1>3. CASE UNCHANGED vaultVars
  BY <1>1, <1>2, <1>3 DEF WriterIInv, LedgerOK, vaultVars
<1>4. CASE pc = "handle" /\ Commit
  <2>1. /\ task \in Task
        /\ effects[task] = 0
        /\ effects' = [effects EXCEPT ![task] = 1]
    BY <1>4, CommitIsFirst
  <2>2. PICK old \in SUBSET {t \in ledger : Prunable(t)} :
           ledger' = (ledger \ old) \cup {task}
    BY <1>4 DEF Commit
  <2>3. ASSUME NEW t \in Task
        PROVE  /\ effects'[t] <= 1
               /\ t \in ledger' => effects'[t] = 1
               /\ effects'[t] = 1 => t \in ledger' \/ Prunable(t)'
               /\ effects[t] = 1 => effects'[t] = 1
    <3>1. /\ effects[t] <= 1
          /\ t \in ledger => effects[t] = 1
          /\ effects[t] = 1 => t \in ledger \/ Prunable(t)
      BY DEF WriterIInv, LedgerOK
    <3>2. CASE t = task
      BY <1>1, <2>1, <2>2, <3>2
    <3>3. CASE t # task
      <4>1. effects'[t] = effects[t]
        BY <1>1, <2>1, <3>3
      <4>2. t \in ledger' => t \in ledger
        BY <2>2, <3>3
      <4>3. t \in ledger => t \in ledger' \/ Prunable(t)
        BY <2>2
      <4> QED
        BY <3>1, <4>1, <4>2, <4>3, <1>2
    <3> QED
      BY <3>2, <3>3
  <2> QED
    BY <1>1, <2>1, <2>2, <2>3 DEF LedgerOK
<1> QED
  BY <1>3, <1>4, VaultChange
-----------------------------------------------------------------------------
(* The handler and the keys of a task *)

\* Where the handler is after a step, and what that says about its task.
LEMMA HandlerStepOK ==
    ASSUME WriterIInv, [Next]_vars
    PROVE  HandlerOK' /\ (hpc \in HandlerPC)'
<1>1. QueueIInv' /\ \A t \in Task : effects[t] = 1 => effects'[t] = 1
  BY WriterStepIsQueueStep, QueueStepOK, LedgerStep DEF WriterIInv
<1>2. pc = "handle" => cur \in Msg /\ task \in Task
  BY WriterAssumption DEF WriterIInv, QueueIInv, HandsOK, task
<1> USE DEF HandlerOK, TypeOK, HandlerPC, handlerVars, aroundHandler, consumerVars, task
<1>3. CASE QueueOnly
  <2>1. (pc # "handle" /\ pc' # "handle") \/ (pc = "handle" /\ pc' = "handle" /\ cur' = cur)
    BY <1>3 DEF QueueOnly, ConsumerStep, ReclaimStep, Environment, StartupRPop,
       StartupLPush, StartupZRem, PopMessage, AckLRem, AckZRem, ReclaimSnapshot,
       ReclaimLRem, ReclaimLPush, ReclaimZRem, Enqueue, LeaseExpires, ReclaimError,
       StopOutsideHandler, ProcessExits, Restart
  <2> QED
    BY <1>3, <2>1 DEF QueueOnly, WriterIInv
<1>4. CASE StartHandler
  BY <1>2, <1>4, WriterAssumption DEF StartHandler, RegisterLease, FirstStep, WriterIInv,
     QueueIInv, HandsOK
<1>5. CASE GetDedup
  <2>1. task \in dedup => effects[task] = 1
    BY <1>2, <1>5 DEF GetDedup, WriterIInv, SuccessMeansApplied
  <2> QED
    BY <1>5, <2>1 DEF GetDedup, WriterIInv, vaultVars
<1>6. CASE Validate
  BY <1>6 DEF Validate, WriterIInv
<1>7. CASE TxCommit
  <2>1. pc = "handle" /\ Commit
    BY <1>7 DEF TxCommit, WriterIInv
  <2>2. task \in Task /\ effects' = [effects EXCEPT ![task] = 1]
    BY <2>1, CommitIsFirst
  <2>3. effects'[task] = 1
    BY <2>2 DEF WriterIInv
  <2> QED
    BY <1>7, <2>1, <2>3 DEF TxCommit
<1>8. CASE TxAlreadyCompleted
  BY <1>2, <1>8 DEF TxAlreadyCompleted, WriterIInv, LedgerOK, vaultVars
<1>9. CASE TxFail
  BY <1>9 DEF TxFail, WriterIInv
<1>10. CASE SetDedup
  BY <1>10 DEF SetDedup, WriterIInv, vaultVars
<1>11. CASE PublishAlready
  BY <1>11 DEF PublishAlready, EndHandler, HandlerReturn, WriterIInv, vaultVars
<1>12. CASE SetDedupAlready
  BY <1>12 DEF SetDedupAlready, EndHandler, HandlerReturn, WriterIInv, vaultVars
<1>13. CASE PublishSuccess \/ PublishFailed
  BY <1>13 DEF PublishSuccess, PublishFailed, EndHandler, HandlerReturn
<1>14. CASE \E t \in Task : KeyExpires(t)
  BY <1>14 DEF KeyExpires, queueVars, WriterIInv, vaultVars
<1>15. CASE WriterCrash
  BY <1>15 DEF WriterCrash, Crash, ProcessExits
<1>16. CASE WriterStop
  BY <1>16 DEF WriterStop, StopInHandler
<1>17. CASE UNCHANGED vars
  BY <1>17 DEF vars, queueVars, WriterIInv
<1> QED
  BY <1>3, <1>4, <1>5, <1>6, <1>7, <1>8, <1>9, <1>10, <1>11, <1>12, <1>13, <1>14,
     <1>15, <1>16, <1>17 DEF Next, HandlerStep

\* How the two Redis keys of the tasks can change: the task the handler works for
\* becomes a success only when it is applied.
LEMMA KeyChange ==
    ASSUME WriterIInv, [Next]_vars
    PROVE  /\ \/ status' = status
              \/ /\ pc = "handle"
                 /\ task \in Task
                 /\ \/ effects[task] = 1 /\ status' = [status EXCEPT ![task] = "success"]
                    \/ status' = [status EXCEPT ![task] = "failed"]
              \/ \E t \in Task : status' = [status EXCEPT ![t] = "none"]
           /\ \/ dedup' \subseteq dedup
              \/ /\ pc = "handle"
                 /\ task \in Task
                 /\ effects[task] = 1
                 /\ dedup' = dedup \cup {task}
<1>1. pc = "handle" => cur \in Msg /\ task \in Task
  BY WriterAssumption DEF WriterIInv, QueueIInv, HandsOK, task
<1>2. hpc # "none" => pc = "handle"
  BY DEF WriterIInv, HandlerOK
<1>3. hpc \in {"publish_seen", "set_dedup", "publish_success", "publish_already",
               "set_dedup_already"} => effects[task] = 1
  BY DEF WriterIInv, HandlerOK
<1>4. CASE SetDedup \/ SetDedupAlready
  BY <1>1, <1>2, <1>3, <1>4 DEF SetDedup, SetDedupAlready
<1>5. CASE PublishAlready \/ PublishSuccess
  BY <1>1, <1>2, <1>3, <1>5 DEF PublishAlready, PublishSuccess, PublishStatus
<1>6. CASE PublishFailed
  BY <1>1, <1>2, <1>6 DEF PublishFailed, PublishStatus
<1>7. CASE GetDedup \/ Validate \/ TxCommit \/ TxAlreadyCompleted \/ TxFail
  BY <1>7 DEF GetDedup, Validate, TxCommit, TxAlreadyCompleted, TxFail, keyVars
<1>8. CASE \E t \in Task : KeyExpires(t)
  BY <1>8 DEF KeyExpires
<1>9. CASE QueueOnly \/ StartHandler \/ WriterCrash \/ WriterStop \/ UNCHANGED vars
  BY <1>9 DEF QueueOnly, StartHandler, WriterCrash, WriterStop, vars, handlerVars, keyVars
<1> QED
  BY <1>4, <1>5, <1>6, <1>7, <1>8, <1>9 DEF Next, HandlerStep

\* No step shows a success or sets a dedup key for a task that was not applied.
LEMMA KeyStepOK ==
    ASSUME WriterIInv, [Next]_vars
    PROVE  /\ SuccessMeansApplied'
           /\ (dedup \in SUBSET Task)'
           /\ (status \in [Task -> {"none", "success", "failed"}])'
<1>1. \A t \in Task : effects[t] = 1 => effects'[t] = 1
  BY LedgerStep
<1>2. /\ dedup \in SUBSET Task
      /\ status \in [Task -> {"none", "success", "failed"}]
      /\ SuccessMeansApplied
  BY DEF WriterIInv, TypeOK
<1>3. /\ (dedup \in SUBSET Task)'
      /\ (status \in [Task -> {"none", "success", "failed"}])'
  BY <1>2, KeyChange
<1>4. ASSUME NEW t \in Task, status'[t] = "success"
      PROVE  status[t] = "success" \/ effects[t] = 1
  BY <1>2, <1>4, KeyChange
<1>5. ASSUME NEW t \in Task, t \in dedup'
      PROVE  t \in dedup \/ effects[t] = 1
  BY <1>5, KeyChange
<1> QED
  BY <1>1, <1>2, <1>3, <1>4, <1>5 DEF SuccessMeansApplied
-----------------------------------------------------------------------------
(* The inductive invariant *)

\* The invariant holds on an empty vault.
LEMMA WriterInitOK == Init => WriterIInv
<1> SUFFICES ASSUME Init
             PROVE  WriterIInv
  OBVIOUS
<1>1. QueueIInv
  BY QueueInitOK DEF Init
<1>2. effects = [t \in Task |-> 0] /\ status = [t \in Task |-> "none"] /\ pc = "down"
  BY DEF Init, QueueInit
<1>3. TypeOK
  BY <1>1, <1>2 DEF Init, TypeOK, HandlerPC, QueueIInv
<1>4. HandlerOK
  BY <1>2 DEF Init, HandlerOK
<1>5. LedgerOK
  BY <1>2 DEF Init, LedgerOK
<1>6. SuccessMeansApplied
  BY <1>2 DEF Init, SuccessMeansApplied
<1> QED
  BY <1>1, <1>3, <1>4, <1>5, <1>6 DEF WriterIInv

\* Every step of the writer keeps the invariant.
LEMMA WriterStepOK ==
    ASSUME WriterIInv, [Next]_vars
    PROVE  WriterIInv'
<1>1. QueueIInv'
  BY WriterStepIsQueueStep, QueueStepOK DEF WriterIInv
<1>2. TypeOK'
  BY <1>1, LedgerStep, HandlerStepOK, KeyStepOK DEF TypeOK, QueueIInv
<1> QED
  BY <1>1, <1>2, LedgerStep, HandlerStepOK, KeyStepOK DEF WriterIInv

\* The inductive invariant of the writer, which the theorems below are read off.
LEMMA WriterInvariant == Spec => []WriterIInv
<1>1. Init => WriterIInv
  BY WriterInitOK
<1>2. WriterIInv /\ [Next]_vars => WriterIInv'
  BY WriterStepOK
<1> QED
  BY <1>1, <1>2, PTL DEF Spec
-----------------------------------------------------------------------------
(* Theorems *)

\* Every variable of the SQL path keeps its type.
THEOREM WriterTypes == Spec => []TypeOK
<1>1. WriterIInv => TypeOK
  BY DEF WriterIInv
<1> QED
  BY <1>1, WriterInvariant, PTL

\* However often a task is sent, redelivered or retried, its effect is committed at
\* most once.
THEOREM WriterAtMostOnce == Spec => []AtMostOnceEffect
<1>1. WriterIInv => AtMostOnceEffect
  BY DEF WriterIInv, LedgerOK, AtMostOnceEffect
<1> QED
  BY <1>1, WriterInvariant, PTL

\* A caller that reads "success" can rely on the effect being in the vault.
THEOREM WriterSuccessMeansApplied == Spec => []SuccessMeansApplied
<1>1. WriterIInv => SuccessMeansApplied
  BY DEF WriterIInv
<1> QED
  BY <1>1, WriterInvariant, PTL

\* The caller of a message that ends without its effect is shown "failed", unless
\* Redis failed in that very step.
THEOREM WriterNoSilentRejection == Spec => NoSilentRejection
<1> DEFINE Answered == HandlerStep /\ pc' # "handle" /\ effects[task] = 0
                         => status'[task] = "failed" \/ failures' # failures
<1>1. WriterIInv /\ [Next]_vars => [Answered]_vars
  <2> SUFFICES ASSUME WriterIInv, HandlerStep, pc' # "handle", effects[task] = 0
               PROVE  status'[task] = "failed" \/ failures' # failures
    OBVIOUS
  <2>1. /\ hpc # "none" => pc = "handle"
        /\ hpc \in {"publish_seen", "set_dedup", "publish_success", "publish_already",
                    "set_dedup_already"} => effects[task] = 1
    BY DEF WriterIInv, HandlerOK
  <2>2. ~(GetDedup \/ Validate \/ TxCommit \/ TxAlreadyCompleted \/ TxFail \/ SetDedup)
    <3>1. ASSUME GetDedup \/ Validate \/ TxCommit \/ TxAlreadyCompleted \/ TxFail \/ SetDedup
          PROVE  hpc # "none" /\ pc' = pc
      BY <3>1 DEF GetDedup, Validate, TxCommit, TxAlreadyCompleted, TxFail, SetDedup,
         aroundHandler, consumerVars
    <3> QED
      BY <2>1, <3>1
  <2>3. ~(PublishAlready \/ SetDedupAlready \/ PublishSuccess)
    BY <2>1 DEF PublishAlready, SetDedupAlready, PublishSuccess
  <2>4. PublishFailed
    BY <2>2, <2>3 DEF HandlerStep
  <2>5. hpc = "publish_failed" /\ PublishStatus("failed")
    BY <2>4 DEF PublishFailed
  <2>6. cur \in Msg /\ failures \in Nat /\ status \in [Task -> {"none", "success", "failed"}]
    BY <2>1, <2>5, QueueAssumption DEF WriterIInv, QueueIInv, TypeOK, QueueTypeOK, HandsOK
  <2>7. task \in Task
    BY <2>6, WriterAssumption DEF task
  <2> QED
    BY <2>5, <2>6, <2>7 DEF PublishStatus, RedisFails
<1> QED
  BY <1>1, WriterInvariant, PTL DEF Spec, NoSilentRejection

\* The SQL path implements the reliable queue: everything proved of the queue with
\* an abstract handler holds with execute_write as the handler.
THEOREM WriterImplementsQueue == Spec => QueueSpec
<1>1. Init => QueueInit
  BY DEF Init
<1>2. WriterIInv /\ [Next]_vars => [QueueNext]_queueVars
  BY WriterStepIsQueueStep
<1> QED
  BY <1>1, <1>2, WriterInvariant, PTL DEF Spec, QueueSpec

\* In particular no message of the SQL queue is lost silently.
THEOREM WriterNoSilentLoss == Spec => []NoSilentLoss
BY WriterImplementsQueue, QueueNoSilentLoss, PTL

\* The SQL path has one message in flight, and its acknowledgement can only remove
\* the consumer's own.
THEOREM WriterOneInFlight == Spec => []OneInFlight
BY WriterImplementsQueue, QueueOneInFlight, PTL

\* Redelivery of an SQL message moves it and never multiplies it.
THEOREM WriterCopiesNeverMultiply == Spec => []CopiesNeverMultiply
BY WriterImplementsQueue, QueueCopiesNeverMultiply, PTL

\* The SQL path delivers: its messages are kept until execute_write has run to its
\* end on them or their loss is on record.
THEOREM WriterDelivers == Spec => Delivers
BY WriterImplementsQueue, QueueDelivers, PTL

\* The writer implements the contract callers rely on: a commit is an Apply, a
\* publish shows a result, an expiry forgets it, everything else is a stutter.
THEOREM WriterImplementsContract == Spec => ImplementsContract
<1> DEFINE done == {t \in Task : effects[t] > 0}
<1>1. Init => Contract!Init
  BY DEF Init, Contract!Init
<1>2. WriterIInv /\ [Next]_vars => [Contract!Next]_Contract!contractVars
  <2> SUFFICES ASSUME WriterIInv, [Next]_vars
               PROVE  [Contract!Next]_Contract!contractVars
    OBVIOUS
  <2>1. effects \in [Task -> Nat]
    BY DEF WriterIInv, TypeOK
  <2>2. CASE pc = "handle" /\ Commit /\ status' = status
    <3>1. /\ task \in Task
          /\ effects[task] = 0
          /\ effects' = [effects EXCEPT ![task] = 1]
      BY <2>2, CommitIsFirst
    <3>2. task \notin done /\ done' = done \cup {task}
      BY <2>1, <3>1
    <3>3. Contract!Next
      BY <2>2, <3>1, <3>2 DEF Contract!Next, Contract!Apply
    <3> QED
      BY <3>3
  <2>3. CASE vaultVars' = vaultVars
    <3>1. done' = done
      BY <2>3 DEF vaultVars
    <3>2. CASE status' = status
      <4>1. effects' = effects
        BY <2>3 DEF vaultVars
      <4>2. Contract!contractVars' = Contract!contractVars
        BY <3>2, <4>1 DEF Contract!contractVars
      <4> QED
        BY <4>2
    <3>3. ASSUME task \in Task, effects[task] = 1,
                 status' = [status EXCEPT ![task] = "success"]
          PROVE  Contract!Next
      <4>1. task \in done
        BY <3>3
      <4> QED
        BY <3>1, <3>3, <4>1 DEF Contract!Next, Contract!ShowSuccess
    <3>4. ASSUME task \in Task, status' = [status EXCEPT ![task] = "failed"]
          PROVE  Contract!Next
      BY <3>1, <3>4 DEF Contract!Next, Contract!ShowFailed
    <3>5. ASSUME NEW t \in Task, status' = [status EXCEPT ![t] = "none"]
          PROVE  Contract!Next
      BY <3>1, <3>5 DEF Contract!Next, Contract!Forget
    <3>6. \/ status' = status
          \/ /\ task \in Task
             /\ \/ effects[task] = 1 /\ status' = [status EXCEPT ![task] = "success"]
                \/ status' = [status EXCEPT ![task] = "failed"]
          \/ \E t \in Task : status' = [status EXCEPT ![t] = "none"]
      BY KeyChange
    <3> QED
      BY <3>2, <3>3, <3>4, <3>5, <3>6
  <2>4. vaultVars' = vaultVars \/ (pc = "handle" /\ Commit /\ status' = status)
    <3>1. CASE HandlerStep
      BY <3>1 DEF HandlerStep, GetDedup, Validate, TxCommit, TxAlreadyCompleted, TxFail,
         SetDedup, PublishAlready, SetDedupAlready, PublishSuccess, PublishFailed,
         WriterIInv, HandlerOK, keyVars
    <3>2. CASE WriterStop
      BY <3>2 DEF WriterStop, StopInHandler, keyVars
    <3> QED
      BY <3>1, <3>2 DEF Next, QueueOnly, StartHandler, KeyExpires, WriterCrash, vars,
         vaultVars, handlerVars
  <2> QED
    BY <2>2, <2>3, <2>4
<1> QED
  BY <1>1, <1>2, WriterInvariant, PTL DEF Spec, ImplementsContract, Contract!Spec
=============================================================================
