--------------------------- MODULE ReliableQueue ---------------------------
(***************************************************************************)
(* One reliable queue of the DB-Writer (services/db-writer/db_writer_ops   *)
(* .py): the Redis list that producers LPUSH to, its ":processing" list,   *)
(* the lease ZSET, the consumer task (run_reliable_queue_loop) and the     *)
(* background task that requeues expired leases                            *)
(* (run_processing_reclaim_loop).  Both tasks live in one asyncio process  *)
(* that may crash at any await, be stopped by a signal (which cancels the  *)
(* tasks) and is restarted by its supervisor.  Every step is one Redis     *)
(* command: between two of them the other task, a producer, the clock or   *)
(* a crash may come in.                                                    *)
(*                                                                         *)
(* The handler is abstract here (HandlerReturn); DbWriter and StateDelta   *)
(* say what it does for the SQL queue and for the state-delta queues.      *)
(***************************************************************************)
EXTENDS RedisList

CONSTANTS
    Msg,           \* the message texts; the lease ZSET and LREM key on the text
    NoMsg,         \* "no message in hand"
    MaxSend,       \* bound: how often a producer enqueues one text
    MaxFailures,   \* bound: crashes of the process and Redis errors that are caught
    MaxStops       \* bound: graceful stops (SIGINT, or a sibling loop that raised)

ASSUME QueueAssumption ==
    /\ NoMsg \notin Msg
    /\ MaxSend \in Nat
    /\ MaxFailures \in Nat
    /\ MaxStops \in Nat

VARIABLES
    queue,        \* source list
    processing,   \* ":processing" list
    lease,        \* ZSET message -> deadline, seen as none / live / expired
    pc,           \* where the consumer task is
    cur,          \* the message the consumer task holds
    rpc,          \* where the reclaim task is
    rcur,         \* the message the reclaim task is moving
    snapshot,     \* the expired messages the reclaim task still has to visit
    stopping,     \* the consumer was cancelled and runs its finally block
    sent,         \* history: how often each text was enqueued
    failures,     \* history: failures so far
    stops,        \* history: graceful stops so far
    settled,      \* history: texts whose handler ran to its end
    dropped       \* history: texts lost in one of the windows described below

redisVars == <<queue, processing, lease>>
consumerVars == <<pc, cur, stopping>>
reclaimVars == <<rpc, rcur, snapshot>>
historyVars == <<sent, failures, stops, settled, dropped>>
queueVars == <<queue, processing, lease, pc, cur, stopping, rpc, rcur, snapshot,
               sent, failures, stops, settled, dropped>>

ConsumerPC == {"down", "startup_rpop", "startup_lpush", "startup_zrem", "idle",
               "lease", "handle", "ack_lrem", "ack_zrem"}
ReclaimPC == {"off", "sleep", "lrem", "lpush", "zrem"}
LeaseState == {"none", "live", "expired"}

QueueInit ==
    /\ queue = <<>>
    /\ processing = <<>>
    /\ lease = [m \in Msg |-> "none"]
    /\ pc = "down"
    /\ cur = NoMsg
    /\ stopping = FALSE
    /\ rpc = "off"
    /\ rcur = NoMsg
    /\ snapshot = {}
    /\ sent = [m \in Msg |-> 0]
    /\ failures = 0
    /\ stops = 0
    /\ settled = {}
    /\ dropped = {}
-----------------------------------------------------------------------------
(* Producers *)

\* Variant: a producer without a bound on its retries.
EnqueueUnbounded(m) ==
    /\ sent' = [sent EXCEPT ![m] = @ + 1]
    /\ sent[m] <= MaxSend
    /\ queue' = LPush(queue, m)
    /\ UNCHANGED <<processing, lease, consumerVars, reclaimVars,
                   failures, stops, settled, dropped>>

\* enqueue_typed_command and friends: LPUSH of one message, whether the writer
\* runs or not.  A producer may repeat a message (a retry with its task_id).
Enqueue(m) ==
    /\ sent[m] < MaxSend
    /\ sent' = [sent EXCEPT ![m] = @ + 1]
    /\ queue' = LPush(queue, m)
    /\ UNCHANGED <<processing, lease, consumerVars, reclaimVars,
                   failures, stops, settled, dropped>>
-----------------------------------------------------------------------------
(* reclaim_processing_on_startup: RPOP, LPUSH and ZREM are three commands. *)

StartupRPop ==
    /\ pc = "startup_rpop"
    /\ \/ /\ processing = <<>>
          /\ pc' = "idle"
          /\ UNCHANGED <<processing, cur>>
       \/ /\ processing # <<>>
          /\ cur' = RightEnd(processing)
          /\ processing' = WithoutRightEnd(processing)
          /\ pc' = "startup_lpush"
    /\ UNCHANGED <<queue, lease, stopping, reclaimVars, historyVars>>

StartupLPush ==
    /\ pc = "startup_lpush"
    /\ queue' = LPush(queue, cur)
    /\ pc' = "startup_zrem"
    /\ UNCHANGED <<processing, lease, cur, stopping, reclaimVars, historyVars>>

StartupZRem ==
    /\ pc = "startup_zrem"
    /\ lease' = [lease EXCEPT ![cur] = "none"]
    /\ cur' = NoMsg
    /\ pc' = "startup_rpop"
    /\ UNCHANGED <<queue, processing, stopping, reclaimVars, historyVars>>
-----------------------------------------------------------------------------
(* run_reliable_queue_loop *)

\* Variant: BRPOP, which keeps no copy in ":processing".
PopUnreliably ==
    /\ pc = "idle"
    /\ queue # <<>>
    /\ cur' = RightEnd(queue)
    /\ queue' = WithoutRightEnd(queue)
    /\ pc' = "lease"
    /\ UNCHANGED <<processing, lease, stopping, reclaimVars, historyVars>>

\* BRPOPLPUSH: one atomic command.
PopMessage ==
    /\ pc = "idle"
    /\ queue # <<>>
    /\ cur' = RightEnd(queue)
    /\ queue' = WithoutRightEnd(queue)
    /\ processing' = LPush(processing, RightEnd(queue))
    /\ pc' = "lease"
    /\ UNCHANGED <<lease, stopping, reclaimVars, historyVars>>

RegisterLease ==
    /\ pc = "lease"
    /\ lease' = [lease EXCEPT ![cur] = "live"]
    /\ pc' = "handle"
    /\ UNCHANGED <<queue, processing, cur, stopping, reclaimVars, historyVars>>

\* The handler returned, or raised an exception that is not a cancellation:
\* in both cases the finally block acknowledges the message.
\* Its last Redis command may have failed and been caught.
HandlerReturn ==
    /\ pc = "handle"
    /\ settled' = settled \cup {cur}
    /\ pc' = "ack_lrem"
    /\ failures' \in {failures, failures + 1}
    /\ failures' <= MaxFailures
    /\ UNCHANGED <<redisVars, cur, stopping, reclaimVars, sent, stops, dropped>>

\* A Redis error inside the handler that the handler catches.
HandlerRedisError ==
    /\ pc = "handle"
    /\ failures < MaxFailures
    /\ failures' = failures + 1
    /\ UNCHANGED <<redisVars, consumerVars, reclaimVars, sent, stops, settled, dropped>>

AckLRem ==
    /\ pc = "ack_lrem"
    /\ processing' = LRem(processing, cur)
    /\ pc' = "ack_zrem"
    /\ UNCHANGED <<queue, lease, cur, stopping, reclaimVars, historyVars>>

AckZRem ==
    /\ pc = "ack_zrem"
    /\ lease' = [lease EXCEPT ![cur] = "none"]
    /\ cur' = NoMsg
    /\ pc' = IF stopping THEN "down" ELSE "idle"
    /\ stopping' = FALSE
    /\ UNCHANGED <<queue, processing, reclaimVars, historyVars>>
-----------------------------------------------------------------------------
(* reclaim_expired_processing_leases, for this queue *)

\* ZRANGEBYSCORE: the list of expired messages is read once and then walked.
ReclaimSnapshot ==
    /\ rpc = "sleep"
    /\ snapshot' = {m \in Msg : lease[m] = "expired"}
    /\ snapshot' # {}
    /\ rpc' = "lrem"
    /\ UNCHANGED <<redisVars, consumerVars, rcur, historyVars>>

\* Variant: requeues without looking at what LREM returned.
ReclaimUnchecked(m) ==
    /\ rpc = "lrem"
    /\ m \in snapshot
    /\ snapshot' = snapshot \ {m}
    /\ rcur' = m
    /\ processing' = LRem(processing, m)
    /\ rpc' = "lpush"
    /\ UNCHANGED <<queue, lease, consumerVars, historyVars>>

\* The deadlines are abstracted, so any order of the snapshot is possible.
ReclaimLRem(m) ==
    /\ rpc = "lrem"
    /\ m \in snapshot
    /\ snapshot' = snapshot \ {m}
    /\ rcur' = m
    /\ processing' = LRem(processing, m)
    /\ rpc' = IF Has(processing, m) THEN "lpush" ELSE "zrem"
    /\ UNCHANGED <<queue, lease, consumerVars, historyVars>>

ReclaimLPush ==
    /\ rpc = "lpush"
    /\ queue' = LPush(queue, rcur)
    /\ rpc' = "zrem"
    /\ UNCHANGED <<processing, lease, rcur, snapshot, consumerVars, historyVars>>

ReclaimZRem ==
    /\ rpc = "zrem"
    /\ lease' = [lease EXCEPT ![rcur] = "none"]
    /\ rcur' = NoMsg
    /\ rpc' = IF snapshot = {} THEN "sleep" ELSE "lrem"
    /\ UNCHANGED <<queue, processing, snapshot, consumerVars, historyVars>>

\* A message that only the memory of one of the two tasks holds: it was removed
\* from ":processing" and not yet pushed back.
InHand ==
    (IF pc = "startup_lpush" THEN {cur} ELSE {}) \cup
    (IF rpc = "lpush" THEN {rcur} ELSE {})

\* A Redis error in the reclaim task is caught and logged; the cycle is abandoned
\* where it is and the process goes on.
ReclaimError ==
    /\ rpc \in {"lrem", "lpush", "zrem"}
    /\ failures < MaxFailures
    /\ failures' = failures + 1
    /\ dropped' = dropped \cup (IF rpc = "lpush" THEN {rcur} ELSE {})
    /\ rpc' = "sleep"
    /\ rcur' = NoMsg
    /\ snapshot' = {}
    /\ UNCHANGED <<redisVars, consumerVars, sent, stops, settled>>
-----------------------------------------------------------------------------
(* Time, crashes and stops *)

LeaseExpires(m) ==
    /\ lease[m] = "live"
    /\ lease' = [lease EXCEPT ![m] = "expired"]
    /\ UNCHANGED <<queue, processing, consumerVars, reclaimVars, historyVars>>

\* The memory of the process is gone.
ProcessExits ==
    /\ pc' = "down"
    /\ cur' = NoMsg
    /\ stopping' = FALSE
    /\ rpc' = "off"
    /\ rcur' = NoMsg
    /\ snapshot' = {}

\* SIGKILL, out of memory, or a Redis error in the consumer outside the handler,
\* which leaves the loop, the gather and the process.
Crash ==
    /\ pc # "down"
    /\ failures < MaxFailures
    /\ failures' = failures + 1
    /\ ProcessExits
    /\ dropped' = dropped \cup InHand
    /\ UNCHANGED <<redisVars, sent, stops, settled>>

\* SIGINT, or another loop of the gather raising: every task is cancelled at the
\* await where it stands.
StopOutsideHandler ==
    /\ pc \notin {"down", "handle"}
    /\ ~stopping
    /\ stops < MaxStops
    /\ stops' = stops + 1
    /\ ProcessExits
    /\ dropped' = dropped \cup InHand
    /\ UNCHANGED <<redisVars, sent, failures, settled>>

\* Cancelled inside the handler: the finally block acknowledges the message
\* although its handler did not finish.
StopInHandler ==
    /\ pc = "handle"
    /\ stops < MaxStops
    /\ stops' = stops + 1
    /\ stopping' = TRUE
    /\ pc' = "ack_lrem"
    /\ rpc' = "off"
    /\ rcur' = NoMsg
    /\ snapshot' = {}
    /\ dropped' = dropped \cup InHand \cup {cur}
    /\ UNCHANGED <<redisVars, cur, sent, failures, settled>>

\* Variant: starts without reclaim_processing_on_startup.
RestartWithoutReclaim ==
    /\ pc = "down"
    /\ pc' = "idle"
    /\ rpc' = "sleep"
    /\ UNCHANGED <<redisVars, cur, stopping, rcur, snapshot, historyVars>>

\* The supervisor starts the process again; gather starts both tasks.
Restart ==
    /\ pc = "down"
    /\ pc' = "startup_rpop"
    /\ rpc' = "sleep"
    /\ UNCHANGED <<redisVars, cur, stopping, rcur, snapshot, historyVars>>
-----------------------------------------------------------------------------
\* The queue machinery, without the handler.
ConsumerStep ==
    \/ StartupRPop \/ StartupLPush \/ StartupZRem
    \/ PopMessage \/ AckLRem \/ AckZRem

ReclaimStep ==
    \/ ReclaimSnapshot
    \/ \E m \in Msg : ReclaimLRem(m)
    \/ ReclaimLPush
    \/ ReclaimZRem

Environment ==
    \/ \E m \in Msg : Enqueue(m) \/ LeaseExpires(m)
    \/ ReclaimError
    \/ StopOutsideHandler
    \/ Restart

QueueNext ==
    \/ ConsumerStep
    \/ RegisterLease
    \/ HandlerReturn
    \/ HandlerRedisError
    \/ ReclaimStep
    \/ Environment
    \/ Crash
    \/ StopInHandler

\* asyncio runs every task that is ready, PM2 restarts the process, and a
\* handler ends.  Nothing obliges a lease to expire or a producer to send.
QueueFairness ==
    /\ WF_queueVars(ConsumerStep)
    /\ WF_queueVars(RegisterLease)
    /\ WF_queueVars(HandlerReturn)
    /\ WF_queueVars(ReclaimStep)
    /\ WF_queueVars(Restart)

QueueSpec == QueueInit /\ [][QueueNext]_queueVars
FairQueueSpec == QueueSpec /\ QueueFairness
-----------------------------------------------------------------------------
(* Properties *)

\* Every variable of the queue machinery has its type.
QueueTypeOK ==
    /\ queue \in Seq(Msg)
    /\ processing \in Seq(Msg)
    /\ lease \in [Msg -> LeaseState]
    /\ pc \in ConsumerPC
    /\ cur \in Msg \cup {NoMsg}
    /\ stopping \in BOOLEAN
    /\ rpc \in ReclaimPC
    /\ rcur \in Msg \cup {NoMsg}
    /\ snapshot \in SUBSET Msg
    /\ sent \in [Msg -> 0..MaxSend]
    /\ failures \in 0..MaxFailures
    /\ stops \in 0..MaxStops
    /\ settled \in SUBSET Msg
    /\ dropped \in SUBSET Msg

\* The ":processing" list never holds more than the one message the consumer is
\* working on, and nothing while the consumer is idle: what an earlier process
\* left there is drained before the first pop, and ack_processing_message can
\* only remove the consumer's own message, never another one.
OneInFlight ==
    /\ Len(processing) <= 1
    /\ pc \in {"idle", "ack_zrem"} => processing = <<>>
    /\ pc \in {"lease", "handle", "ack_lrem"} /\ processing # <<>>
          => processing = <<cur>>

\* Loss accounting: a message a producer sent is in the queue, in ":processing",
\* in the hands of a task that is moving it, or its handler ran to the end; the
\* only exceptions are the windows that "dropped" records (a crash, stop or Redis
\* error between removal and LPUSH, and a cancellation inside the handler).
NoSilentLoss ==
    \A m \in Msg : sent[m] > 0 =>
        \/ Has(queue, m)
        \/ Has(processing, m)
        \/ m \in InHand
        \/ m \in settled
        \/ m \in dropped

\* Redelivery moves a message, it never multiplies it: the copies of a message
\* that Redis and the two tasks hold are at most as many as were sent.
CopiesNeverMultiply ==
    \A m \in Msg :
        Occurrences(queue, m) + Occurrences(processing, m)
          + (IF pc = "startup_lpush" /\ cur = m THEN 1 ELSE 0)
          + (IF rpc = "lpush" /\ rcur = m THEN 1 ELSE 0) <= sent[m]

\* Delivery: whatever crashes, stops and expiries happen on the way, a message
\* that was sent is eventually handled to the end or falls in a loss window.
EventuallySettled ==
    \A m \in Msg : (sent[m] > 0) ~> (m \in settled \cup dropped)

\* The queue as its producers see it.
Promise == INSTANCE Delivery WITH
    Work <- Msg,
    accepted <- {m \in Msg : sent[m] > 0},
    kept <- {m \in Msg : Has(queue, m) \/ Has(processing, m) \/ m \in InHand},
    done <- settled,
    lost <- dropped

\* Every step of the consumer, the reclaim task, a producer, the clock or a crash
\* is a step that Delivery allows: a message leaves Redis and the hands of the two
\* tasks only when it was handled or its loss is on record, only sent messages are
\* handled, and no requeue brings back a message that was gone.
Delivers == Promise!Spec

\* What a task holds while it works on a message: with the two invariants above
\* this is inductive.  A message is acknowledged only when it was handled or when
\* its cancellation is on record; a process that is down or stopping has no
\* reclaim task.
HandsOK ==
    /\ pc = "down" \/ stopping => rpc = "off"
    /\ stopping => pc \in {"ack_lrem", "ack_zrem"}
    /\ pc \notin {"down", "startup_rpop", "idle"} => cur \in Msg
    /\ rpc \in {"lpush", "zrem"} => rcur \in Msg
    /\ pc = "ack_lrem" => cur \in settled \cup dropped

\* DB_WRITER_CONTRACT.md: the caller does not lose the message by a crash of the
\* writer.  Every message that was sent is in Redis, in the hands of a running
\* task, or was handled.
NoLossOnCrash ==
    \A m \in Msg : sent[m] > 0 =>
        \/ Has(queue, m)
        \/ Has(processing, m)
        \/ m \in InHand \cup {cur}
        \/ m \in settled
=============================================================================
