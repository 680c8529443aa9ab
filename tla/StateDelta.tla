------------------------------ MODULE StateDelta ------------------------------
(***************************************************************************)
(* A state-delta queue of the DB-Writer: the reliable queue of             *)
(* ReliableQueue with one of the state-delta handlers (context_injection_  *)
(* handler.py, loop_state_delta_handler.py, and the reports, visual and    *)
(* vlm handlers, which share one shape).  A handler writes its delta as    *)
(* one or more statements that DuckDB commits one by one, so it may fail   *)
(* half way; it then puts the message back itself, sends it to the dead    *)
(* letter queue, or gives it up.                                           *)
(***************************************************************************)
EXTENDS ReliableQueue

CONSTANTS
    Parts,        \* how many statements write one message (chunks or updates)
    MaxQueue      \* bound: a message is requeued only while the list is shorter

ASSUME DeltaAssumption ==
    /\ Parts \in Nat \ {0}
    /\ MaxQueue \in Nat

VARIABLES
    handler,     \* which of the handlers serves this queue; it never changes
    dpc,         \* where the handler is
    part,        \* the next part to write
    stored,      \* the parts of each message that have a row in the vault
    announced,   \* messages with NEEDS_EMBEDDING events in Redis
    dlq,         \* the messages in "<queue>:dlq"
    refused,     \* history: a delivery was refused (payload, path or grant)
    swallowed    \* history: a Redis error was logged and the message given up

deltaVars == <<handler, dpc, part, stored, announced, dlq, refused, swallowed>>
vars == <<queueVars, deltaVars>>

aroundHandler == <<redisVars, consumerVars, reclaimVars, sent, stops, settled, dropped>>

HandlerPC == {"none", "validate", "write", "publish", "requeue", "dlq"}

Handlers == {"context", "loop", "other"}

Init ==
    /\ QueueInit
    /\ handler \in Handlers
    /\ dpc = "none"
    /\ part = 1
    /\ stored = [m \in Msg |-> {}]
    /\ announced = {}
    /\ dlq = {}
    /\ refused = {}
    /\ swallowed = {}

\* The reports, visual and vlm handlers write a single upsert.
Last == IF handler = "other" THEN 1 ELSE Parts

Complete(m) == stored[m] = 1..Last
-----------------------------------------------------------------------------
StartHandler ==
    /\ RegisterLease
    /\ dpc' = "validate"
    /\ part' = 1
    /\ UNCHANGED <<handler, stored, announced, dlq, refused, swallowed>>

EndHandler == HandlerReturn /\ dpc' = "none"

RedisFails ==
    /\ failures < MaxFailures
    /\ failures' = failures + 1

\* A payload that does not validate, a path that is not the user's, a missing
\* grant: logged, and the handler returns.  Each delivery may go either way,
\* because grants change and an unreadable ACL database counts as granted.
Refuse ==
    /\ dpc = "validate"
    /\ refused' = refused \cup {cur}
    /\ EndHandler
    /\ UNCHANGED <<handler, failures, part, stored, announced, dlq, swallowed>>

Accept ==
    /\ dpc = "validate"
    /\ dpc' = "write"
    /\ UNCHANGED <<handler, aroundHandler, failures, part, stored, announced, dlq,
                   refused, swallowed>>

\* One chunk, inserted under a fresh row id by a connection of its own, or one
\* UPDATE or upsert: committed at once.
WritePart ==
    /\ dpc = "write"
    /\ stored' = [stored EXCEPT ![cur] = @ \cup {part}]
    /\ part' = part + 1
    /\ part < Last
    /\ UNCHANGED <<handler, aroundHandler, failures, dpc, announced, dlq, refused, swallowed>>

\* Variant: keeps counting past the last part.
WritePast ==
    /\ dpc = "write"
    /\ stored' = [stored EXCEPT ![cur] = @ \cup {part}]
    /\ part' = part + 1
    /\ EndHandler
    /\ UNCHANGED <<handler, failures, announced, dlq, refused, swallowed>>

\* The last part.  Only the context handler has events to publish.
WriteLastPart ==
    /\ dpc = "write"
    /\ part = Last
    /\ stored' = [stored EXCEPT ![cur] = @ \cup {part}]
    /\ \/ handler = "context" /\ dpc' = "publish" /\ UNCHANGED aroundHandler
       \/ EndHandler
    /\ UNCHANGED <<handler, failures, part, announced, dlq, refused, swallowed>>

\* Another process keeps the vault locked past the retry budget of 60 s: the
\* context and loop handlers put the message back, the others give it up.
VaultLocked ==
    /\ dpc = "write"
    /\ dpc' = IF handler \in {"context", "loop"} THEN "requeue" ELSE "dlq"
    /\ UNCHANGED <<handler, aroundHandler, failures, part, stored, announced, dlq,
                   refused, swallowed>>

WriteFails ==
    /\ dpc = "write"
    /\ dpc' = "dlq"
    /\ UNCHANGED <<handler, aroundHandler, failures, part, stored, announced, dlq,
                   refused, swallowed>>

\* _publish_needs_embedding for the rows stored without a vector; a Redis error
\* is swallowed.
PublishNeedsEmbedding ==
    /\ dpc = "publish"
    /\ \/ announced' = announced \cup {cur} /\ UNCHANGED failures
       \/ RedisFails /\ UNCHANGED announced
    /\ EndHandler
    /\ UNCHANGED <<handler, part, stored, dlq, refused, swallowed>>

\* Variant: a locked vault is taken for a refusal, the message is not put back.
RequeueForgotten ==
    /\ dpc = "requeue"
    /\ EndHandler
    /\ UNCHANGED <<handler, failures, part, stored, announced, dlq, refused, swallowed>>

\* RPUSH, so that the retry is the next message popped.  The handler then returns
\* and the loop acknowledges the copy in ":processing".
Requeue ==
    /\ dpc = "requeue"
    /\ Len(queue) < MaxQueue
    /\ queue' = RPush(queue, cur)
    /\ settled' = settled \cup {cur}
    /\ pc' = "ack_lrem"
    /\ dpc' = "none"
    /\ UNCHANGED <<handler, processing, lease, cur, stopping, reclaimVars, sent, failures, stops,
                   dropped, part, stored, announced, dlq, refused, swallowed>>

\* RPUSH failed: the loop handler still tries the DLQ, the context handler logs.
RequeueFails ==
    /\ dpc = "requeue"
    /\ RedisFails
    /\ \/ /\ handler = "loop"
          /\ dpc' = "dlq"
          /\ UNCHANGED <<aroundHandler, swallowed>>
       \/ /\ handler = "context"
          /\ EndHandler
          /\ swallowed' = swallowed \cup {cur}
    /\ UNCHANGED <<handler, part, stored, announced, dlq, refused>>

\* push_dlq: LPUSH, and a Redis error is swallowed.
PushDlq ==
    /\ dpc = "dlq"
    /\ \/ /\ dlq' = dlq \cup {cur}
          /\ UNCHANGED <<failures, swallowed>>
       \/ /\ RedisFails
          /\ swallowed' = swallowed \cup {cur}
          /\ UNCHANGED dlq
    /\ EndHandler
    /\ UNCHANGED <<handler, part, stored, announced, refused>>

DeltaStep ==
    \/ Refuse \/ Accept \/ WritePart \/ WriteLastPart \/ VaultLocked \/ WriteFails
    \/ PublishNeedsEmbedding \/ Requeue \/ RequeueFails \/ PushDlq
-----------------------------------------------------------------------------
(* Crashes and stops *)

DeltaCrash ==
    /\ Crash
    /\ dpc' = "none"
    /\ UNCHANGED <<handler, part, stored, announced, dlq, refused, swallowed>>

\* The await of the handler is cancelled; its thread goes on and may still write
\* some of the remaining parts before the process ends.
DeltaStop ==
    /\ StopInHandler
    /\ dpc' = "none"
    /\ \/ UNCHANGED stored
       \/ /\ dpc \in {"validate", "write"}
          /\ \E last \in part..Last :
                stored' = [stored EXCEPT ![cur] = @ \cup (part..last)]
    /\ UNCHANGED <<handler, part, announced, dlq, refused, swallowed>>

QueueOnly ==
    /\ ConsumerStep \/ ReclaimStep \/ Environment
    /\ UNCHANGED deltaVars

Next == QueueOnly \/ StartHandler \/ DeltaStep \/ DeltaCrash \/ DeltaStop

Spec == Init /\ [][Next]_vars
-----------------------------------------------------------------------------
(* Properties *)

\* Every variable of a state-delta queue has its type.
TypeOK ==
    /\ QueueTypeOK
    /\ handler \in Handlers
    /\ dpc \in HandlerPC
    /\ part \in 1..Parts
    /\ stored \in [Msg -> SUBSET (1..Parts)]
    /\ announced \in SUBSET Msg
    /\ dlq \in SUBSET Msg
    /\ refused \in SUBSET Msg
    /\ swallowed \in SUBSET Msg

\* No delta is left half written in silence: a message that was sent is stored in
\* full, or is still in Redis or in the hands of a task that moves it, or is in
\* the DLQ; the exceptions are the refusals and the loss windows on record.
DeltaAccounted ==
    \A m \in Msg : sent[m] > 0 =>
        \/ Complete(m)
        \/ Has(queue, m) \/ Has(processing, m) \/ m \in InHand
        \/ m \in dlq \cup refused \cup dropped \cup swallowed

\* The queue as the sender of a delta sees it: here the end of the handler is not
\* enough, a delta is done when it is stored in full, in the DLQ, or refused.
DeltaPromise == INSTANCE Delivery WITH
    Work <- Msg,
    accepted <- {m \in Msg : sent[m] > 0},
    kept <- {m \in Msg : Has(queue, m) \/ Has(processing, m) \/ m \in InHand},
    done <- {m \in Msg : Complete(m)} \cup dlq \cup refused,
    lost <- dropped \cup swallowed

\* A delta leaves Redis only when it is stored in full, in the DLQ, refused, or on
\* record as lost: also when its handler failed half way and put it back.
DeltaDelivers == DeltaPromise!Spec
=============================================================================
