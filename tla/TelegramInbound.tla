---------------------------- MODULE TelegramInbound ----------------------------
(***************************************************************************)
(* Updates of a Telegram bot on their way to a turn of the agent: the      *)
(* webhook of the gateway (telegram_inbound_webhook.py), which drops the   *)
(* update it has seen, gathers the photos of an album under a lock and     *)
(* then runs the turn before it answers, in a task of its own, or through  *)
(* a Redis queue (telegram_inbound_queue.py) and its consumer (telegram_   *)
(* inbound_consumer.py).  Telegram sends an update again until it is       *)
(* answered.                                                               *)
(***************************************************************************)
EXTENDS Naturals, Sequences, SequencesExt

CONSTANTS
    Update,
    Photo,        \* the updates that are photos of one album (media_group_id)
    Modes,        \* ways to run the turns: subset of {"inline", "parallel", "queue"}
    Nobody,
    MaxInBatch,   \* photos taken from an album: 3 in the code
    MaxTries,     \* bound: times that Telegram sends an update
    MaxResends,   \* bound: updates that it sends again, in all
    MaxFaults     \* bound: Redis errors and restarts, together

ASSUME TelegramAssumption ==
    /\ Photo \subseteq Update
    /\ Modes \subseteq {"inline", "parallel", "queue"}
    /\ MaxInBatch \in Nat \ {0}
    /\ MaxTries \in Nat \ {0}
    /\ MaxResends \in Nat
    /\ MaxFaults \in Nat

Handler == Update \X (1 .. MaxTries)      \* one run of the webhook each
Of(h) == h[1]

ASSUME NobodyAssumption == Nobody \notin Update /\ Nobody \notin Handler

VARIABLES
    mode,        \* how this gateway runs its turns
    pc,          \* where each run of the webhook is
    acked,       \* the updates that Telegram need not send again
    seen,        \* the dedupe keys
    album,       \* duckclaw:vlm:album:<tenant>:<group>
    albumLock,   \* duckclaw:vlm:album_lock:<tenant>:<group>
    batch,       \* the photos that each run has taken from the album
    queue,       \* duckclaw:telegram_inbound_updates
    consumer,    \* the update in the hands of the consumer
    faults,
    turns,       \* history: turns begun for each update
    batches,     \* history: batches that each photo has been in
    ignored,     \* history: updates that went by without their dedupe key
    exposed,     \* history: photos whose leader left their rows or lost the lock
    lost         \* history: updates that an error or a restart lost

albumVars == <<album, albumLock, batch, batches, exposed>>
queueVars == <<queue, consumer>>
vars == <<mode, pc, acked, seen, albumVars, queueVars, faults, turns, ignored, lost>>

InAlbum == {"lock", "collect", "delete", "unlock"}
Working == {"dedupe", "push", "dispatch", "inline", "task"} \cup InAlbum
PC == {"none", "over"} \cup Working

Goto(h, l) == pc' = [pc EXCEPT ![h] = l]
Fault == faults < MaxFaults /\ faults' = faults + 1
Runs(u) == {h \in Handler : Of(h) = u /\ pc[h] \in Working}

Init ==
    /\ mode \in Modes
    /\ pc = [h \in Handler |-> "none"]
    /\ acked = {}
    /\ seen = {}
    /\ album = <<>>
    /\ albumLock = Nobody
    /\ batch = [h \in Handler |-> {}]
    /\ queue = <<>>
    /\ consumer = Nobody
    /\ faults = 0
    /\ turns = [u \in Update |-> 0]
    /\ batches = [u \in Update |-> 0]
    /\ ignored = {}
    /\ exposed = {}
    /\ lost = {}

\* Telegram has given up on this run, and sent the update again.
Abandoned(h) == \E g \in Handler : Of(g) = Of(h) /\ g[2] > h[2] /\ pc[g] # "none"

\* {"ok": "true"}, in time or not.
Acknowledge(h) == acked' = IF Abandoned(h) THEN acked ELSE acked \cup {Of(h)}

Answer(h) == Goto(h, "over") /\ Acknowledge(h)

-----------------------------------------------------------------------------
(* The webhook (_telegram_webhook_core).                                   *)

\* Telegram sends an update, and again when it had no answer.
Deliver(u, k) ==
    /\ u \notin acked
    /\ pc[<<u, k>>] = "none"
    /\ \A j \in 1 .. (k - 1) : pc[<<u, j>>] # "none"
    /\ k > 1 => Cardinality({h \in Handler : h[2] > 1 /\ pc[h] # "none"}) < MaxResends
    /\ Goto(<<u, k>>, "dedupe")
    /\ UNCHANGED <<mode, acked, seen, albumVars, queueVars, faults, turns, ignored, lost>>

\* Mutant: the key is that of the chat.
SeenInChat(u) == seen # {}

\* Mutant: the key is that of the answer.
Answered(u) == u \in acked

\* SET NX of the key of the update.
Seen(u) == u \in seen

AfterDedupe(u) == IF u \in Photo THEN "push" ELSE "dispatch"

Dedupe(h) ==
    /\ pc[h] = "dedupe"
    /\ \/ Seen(Of(h)) /\ Answer(h) /\ UNCHANGED seen
       \/ /\ ~Seen(Of(h))
          /\ seen' = seen \cup {Of(h)}
          /\ Goto(h, AfterDedupe(Of(h)))
          /\ UNCHANGED acked
    /\ UNCHANGED <<mode, albumVars, queueVars, faults, turns, ignored, lost>>

\* Redis fails: the update is processed all the same.
DedupeFails(h) ==
    /\ pc[h] = "dedupe"
    /\ Fault
    /\ ignored' = ignored \cup {Of(h)}
    /\ Goto(h, AfterDedupe(Of(h)))
    /\ UNCHANGED <<mode, acked, seen, albumVars, queueVars, turns, lost>>

-----------------------------------------------------------------------------
(* _telegram_vlm_collect_album_items.                                      *)

AlbumPush(h) ==
    /\ pc[h] = "push"
    /\ album' = Append(album, Of(h))
    /\ Goto(h, "lock")
    /\ UNCHANGED <<mode, acked, seen, albumLock, batch, batches, exposed, queueVars, faults,
                   turns, ignored, lost>>

\* SET NX: the first one leads, the others leave their photo to it.
AlbumTryLock(h) ==
    /\ pc[h] = "lock"
    /\ \/ albumLock = Nobody /\ albumLock' = h /\ Goto(h, "collect") /\ UNCHANGED acked
       \/ albumLock # Nobody /\ Answer(h) /\ UNCHANGED albumLock
    /\ UNCHANGED <<mode, seen, album, batch, batches, exposed, queueVars, faults, turns,
                   ignored, lost>>

\* The holder of the lock loses it: what it has in hand may be read once more.
LoseLock(h) ==
    /\ albumLock' = Nobody
    /\ exposed' = exposed \cup (IF albumLock \in {h, Nobody} THEN {} ELSE batch[albumLock])

\* Mutant: the leader waits for a full album.
Full == Len(album) >= MaxInBatch

\* Some time later: two equal lengths in a row end the wait, and so does its limit.
Settled == TRUE

AlbumRead(h) ==
    /\ pc[h] = "collect"
    /\ Settled
    /\ LET taken == {u \in Update : \E i \in 1 .. Len(album) : album[i] = u /\
                        Cardinality({album[j] : j \in 1 .. i}) <= MaxInBatch}
       IN /\ batch' = [batch EXCEPT ![h] = taken]
          /\ exposed' = exposed \cup (IF albumLock = h THEN {} ELSE taken)
    /\ Goto(h, "delete")
    /\ UNCHANGED <<mode, acked, seen, album, albumLock, batches, queueVars, faults, turns,
                   ignored, lost>>

\* Mutant: the rows are left to expire.
KeepRows(h) == UNCHANGED album

DeleteRows(h) == album' = <<>>

AlbumDelete(h) ==
    /\ pc[h] = "delete"
    /\ \/ DeleteRows(h) /\ UNCHANGED <<faults, exposed>>
       \/ /\ Fault
          /\ exposed' = exposed \cup batch[h]
          /\ UNCHANGED album
    /\ Goto(h, "unlock")
    /\ UNCHANGED <<mode, acked, seen, albumLock, batch, batches, queueVars, turns, ignored,
                   lost>>

\* The lock is deleted whoever has it, or an error is passed over and it stays.  The
\* leader goes on with its batch to the model that describes it; an empty one ends
\* the webhook.
AlbumUnlock(h) ==
    /\ pc[h] = "unlock"
    /\ \/ LoseLock(h) /\ UNCHANGED faults
       \/ Fault /\ UNCHANGED <<albumLock, exposed>>
    /\ \/ batch[h] # {} /\ Goto(h, "dispatch") /\ UNCHANGED acked
       \/ batch[h] = {} /\ Answer(h)
    /\ batches' = [u \in Update |-> batches[u] + (IF u \in batch[h] THEN 1 ELSE 0)]
    /\ batch' = [batch EXCEPT ![h] = {}]
    /\ UNCHANGED <<mode, seen, album, queueVars, turns, ignored, lost>>

\* Redis fails: the turn runs with the caption alone.  A leader deletes the lock, if
\* Redis lets it.
AlbumFails(h) ==
    /\ pc[h] \in {"push", "lock", "collect"}
    /\ Fault
    /\ \/ pc[h] = "collect" /\ LoseLock(h)
       \/ UNCHANGED <<albumLock, exposed>>
    /\ Goto(h, "dispatch")
    /\ UNCHANGED <<mode, acked, seen, album, batch, batches, queueVars, turns, ignored, lost>>

\* ex=25: the lock of a leader that died or could not delete it.
AlbumLockExpires ==
    /\ albumLock # Nobody
    /\ pc[albumLock] \notin InAlbum
    /\ albumLock' = Nobody
    /\ UNCHANGED <<mode, pc, acked, seen, album, batch, batches, exposed, queueVars, faults,
                   turns, ignored, lost>>

\* Redis or the event loop is so slow that the leader, which looks at the album 32
\* times in 3.2 s, has the lock for longer: nobody renews it.
AlbumLockRunsOut ==
    /\ albumLock # Nobody
    /\ pc[albumLock] \in InAlbum
    /\ Fault
    /\ LoseLock(Nobody)
    /\ UNCHANGED <<mode, pc, acked, seen, album, batch, batches, queueVars, turns, ignored,
                   lost>>

\* expire 180: the rows that nobody came to read.
AlbumExpires ==
    /\ album # <<>>
    /\ \A h \in Handler : pc[h] \notin InAlbum
    /\ album' = <<>>
    /\ UNCHANGED <<mode, pc, acked, seen, albumLock, batch, batches, exposed, queueVars, faults,
                   turns, ignored, lost>>

-----------------------------------------------------------------------------
(* The turn: before the answer, in a task, or through the queue.           *)

BeginTurn(u) == turns' = [turns EXCEPT ![u] = @ + 1]

Inline(h) ==
    /\ pc[h] = "dispatch" /\ mode = "inline"
    /\ BeginTurn(Of(h))
    /\ Goto(h, "inline")
    /\ UNCHANGED <<mode, acked, seen, albumVars, queueVars, faults, ignored, lost>>

Parallel(h) ==
    /\ pc[h] = "dispatch" /\ mode = "parallel"
    /\ BeginTurn(Of(h))
    /\ Goto(h, "task")
    /\ Acknowledge(h)
    /\ UNCHANGED <<mode, seen, albumVars, queueVars, faults, ignored, lost>>

\* The turn is over, well or with an error that goes to the user.
TurnEnds(h) ==
    /\ \/ pc[h] = "inline" /\ Answer(h)
       \/ pc[h] = "task" /\ Goto(h, "over") /\ UNCHANGED acked
    /\ UNCHANGED <<mode, seen, albumVars, queueVars, faults, turns, ignored, lost>>

\* enqueue_telegram_update.
Enqueue(h) ==
    /\ pc[h] = "dispatch" /\ mode = "queue"
    /\ queue' = <<Of(h)>> \o queue
    /\ Answer(h)
    /\ UNCHANGED <<mode, seen, albumVars, consumer, faults, turns, ignored, lost>>

\* Redis fails: the error is logged, the update answered.
EnqueueFails(h) ==
    /\ pc[h] = "dispatch" /\ mode = "queue"
    /\ Fault
    /\ Answer(h)
    /\ lost' = lost \cup {Of(h)}
    /\ UNCHANGED <<mode, seen, albumVars, queueVars, turns, ignored>>

\* Mutant: the job is read and left in the queue.
Peek == UNCHANGED queue

Pop == queue' = Front(queue)

\* BRPOP in a thread; the job is in no other place from here on.
Dequeue ==
    /\ consumer = Nobody
    /\ queue # <<>>
    /\ consumer' = Last(queue)
    /\ Pop
    /\ UNCHANGED <<mode, pc, acked, seen, albumVars, faults, turns, ignored, lost>>

\* telegram_invoke_agent_chat_and_reply; whatever it raises is logged.
Consume ==
    /\ consumer # Nobody
    /\ BeginTurn(consumer)
    /\ consumer' = Nobody
    /\ UNCHANGED <<mode, pc, acked, seen, albumVars, queue, faults, ignored, lost>>

\* The gateway dies with its requests, its tasks and its consumer.
Restart ==
    /\ Fault
    /\ lost' = lost \cup {Of(h) : h \in {g \in Handler : pc[g] \in Working}}
                    \cup ({consumer} \ {Nobody})
    /\ pc' = [h \in Handler |-> IF pc[h] \in Working THEN "over" ELSE pc[h]]
    /\ consumer' = Nobody
    /\ batch' = [h \in Handler |-> {}]
    /\ UNCHANGED <<mode, acked, seen, album, albumLock, batches, exposed, queue, turns, ignored>>

WebhookStep(h) ==
    \/ Dedupe(h) \/ AlbumPush(h) \/ AlbumTryLock(h) \/ AlbumRead(h) \/ AlbumDelete(h)
    \/ AlbumUnlock(h) \/ Inline(h) \/ Parallel(h) \/ TurnEnds(h) \/ Enqueue(h)
WebhookFault(h) == DedupeFails(h) \/ AlbumFails(h) \/ EnqueueFails(h)
ConsumerStep == Dequeue \/ Consume
RedisStep == AlbumLockExpires \/ AlbumExpires

Next ==
    \/ \E u \in Update, k \in 1 .. MaxTries : Deliver(u, k)
    \/ \E h \in Handler : WebhookStep(h) \/ WebhookFault(h)
    \/ ConsumerStep
    \/ RedisStep \/ AlbumLockRunsOut
    \/ Restart

Spec == Init /\ [][Next]_vars

\* The event loop runs its handlers and its consumer, turns end, keys expire.
FairSpec ==
    /\ Spec
    /\ \A h \in Handler : WF_vars(WebhookStep(h))
    /\ WF_vars(ConsumerStep) /\ WF_vars(RedisStep)

-----------------------------------------------------------------------------
\* Every variable has its type; an update is in the queue or has its turn once for
\* each time it was sent at most.
TypeOK ==
    /\ mode \in Modes
    /\ pc \in [Handler -> PC]
    /\ acked \subseteq Update
    /\ seen \subseteq Update
    /\ album \in Seq(Photo)
    /\ albumLock \in Handler \cup {Nobody}
    /\ batch \in [Handler -> SUBSET Photo]
    /\ queue \in Seq(Update)
    /\ consumer \in Update \cup {Nobody}
    /\ faults \in 0 .. MaxFaults
    /\ turns \in [Update -> 0 .. MaxTries]
    /\ batches \in [Update -> Nat]
    /\ ignored \subseteq Update
    /\ exposed \subseteq Photo
    /\ lost \subseteq Update
    /\ \A u \in Update : Cardinality({i \in DOMAIN queue : queue[i] = u}) + turns[u] <= MaxTries

\* However often Telegram sends an update and whichever way its turn runs, the
\* update has one turn, unless Redis did not answer when the update was to be
\* checked (telegram_inbound_webhook.py:1119-1140).
OneTurn == \A u \in Update \ ignored : turns[u] <= 1

\* A photo is described once: it is in the batch of one leader only, though every
\* photo of the album starts a webhook that may lead, rows and lock outlive their
\* leader, and a leader deletes the lock whoever has it.  The exceptions: a leader
\* read the photo without the lock, lost the lock with it in hand, or could not
\* delete its row (telegram_inbound_webhook.py:724-776).
OneBatch == \A u \in Photo \ (ignored \cup exposed) : batches[u] <= 1

\* A text that Telegram will not send again has its turn or is on its way to it,
\* unless an error or a restart is to blame (telegram_inbound_webhook.py:1119-1140,
\* 1433-1480, telegram_inbound_consumer.py:14-56).
TextIsCarried ==
    \A u \in acked \ (Photo \cup lost) :
        turns[u] > 0 \/ Runs(u) # {} \/ consumer = u \/ \E i \in DOMAIN queue : queue[i] = u

\* The texts as the bot's users see them: a text is handed over when it is sent
\* for the first time, and done when its turn has begun.
Promise == INSTANCE Delivery WITH
    Work <- Update \ Photo,
    accepted <- {u \in Update \ Photo : \E h \in Handler : Of(h) = u /\ pc[h] # "none"},
    kept <- {u \in Update \ Photo :
                Runs(u) # {} \/ consumer = u \/ \E i \in DOMAIN queue : queue[i] = u},
    done <- {u \in Update \ Photo : turns[u] > 0},
    lost <- lost \ Photo

\* Whatever Telegram sends again and the dedupe key drops, the last run, job or
\* consumer of a text goes only when the text has had its turn or is on record as
\* lost.
TextsDelivered == Promise!Spec

\* What the gateway has begun with comes to an end: no webhook waits for ever for
\* a leader, no job stays in the queue, and no lock or row of the album is left.
ComesToRest ==
    <>[](/\ \A h \in Handler : pc[h] \notin Working
         /\ queue = <<>> /\ consumer = Nobody
         /\ albumLock = Nobody /\ album = <<>>)
=============================================================================
