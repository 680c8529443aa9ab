# A verification development for DuckClaw

DuckClaw runs agents on top of DuckDB vaults. A DuckDB file admits one writing process, so every
write of every process goes through Redis to one process, the **DB-Writer**; documents are indexed
by another, the **Knowledge-Indexer**; turns of a chat run in threads of the **API gateway**, started
by people, by Telegram or by the **heartbeat**. What a user is told ("saved", "indexed",
"interrupted"), and that a chat answers at all, depends on lists, leases, locks, flags and retries
across threads and processes. These modules model that core; paths below are relative to the
repository, those of the agents to `packages/agents/src/duckclaw/`.

## 1. Inventory

| Component | State | Operations | What makes it correct |
|---|---|---|---|
| Reliable queue, `services/db-writer/db_writer_ops.py` | list, `:processing` list, lease ZSET per queue | LPUSH by producers; BRPOPLPUSH, lease, ack; startup reclaim; reclaim of expired leases every 30 s | a message is where its state says, is not lost in silence, is not multiplied, is handled in the end |
| SQL write path, `services/db-writer/main.py` | vault rows, `admin_write_ledger`, dedup key, `task_status:<id>` | `execute_write`: dedup, path and ACL check, transaction, status | effect at most once; "success" only for what was applied; always an answer |
| Producers, `duckclaw/db_write_queue.py`, `gateway_enqueue.py` | none | enqueue, poll the status, retry with the same task id | what a poll says may be relied on |
| State-delta handlers, `services/db-writer/*_handler.py` | vault rows, `<queue>:dlq`, `needs_embedding` list | write in parts, requeue when the vault is locked, dead-letter list | a delta is not left half written without a trace |
| Knowledge jobs, `duckclaw/knowledge_sync_queue.py`, `routers/admin_domains/knowledge.py` | job list, status per job | request (row, job, progress, row again), dequeue, wait for the row, requeue, final status | a job ends once, "completed" means indexed |
| Knowledge-Indexer, `services/knowledge-indexer/main.py`, `forge/rag/knowledge_auto_sync.py` | `_sync_lock`, `_last_fingerprint`, worker threads | folder ingest and sync, upload, single file, auto-sync poll | one holder of the lock, one way to leak it; documents find their row |
| Typed write handlers, `duckclaw/write_handlers/` | hub tables | upserts | row before documents |
| Worker invocation, `manager/manager_nodes_invoke.py`, `workers/worker_invoke.py` | vault locks, slots, cancel and interrupt flags | invoke node, thread with a wall-clock limit, delegation, replanning, cleanup | one worker per vault, nothing kept on any path, no interruption without a cause, an end |
| Chat turns, `core/chat_locks.py`, `chat_graph_runner.py`, `chat_history_persist.py`, `chat_session.py` | session lock with a lease, history with a cap, BUSY mark, cancel flag, an environment variable | prepare, lock or skip it, compact, graph in a thread with a tool that folds the history, persist, abort of a stream | an exchange is lost only to a writer with an old history, no chat BUSY for ever, the flag reaches its graph |
| Telegram inbound, `routers/telegram_inbound_webhook.py`, `core/telegram_inbound_consumer.py` | dedupe keys, album list and lock, queue | dedupe, album batch, inline, parallel or queued turn | one turn per update, one batch per photo of a leader with its lock, no text dropped |
| Loop ticker, `services/heartbeat/main.py`, `commands/loop.py` | keys of `agent_config`, in-flight tasks, BUSY mark | poll, guard flag, catch-up, delivery, outcome, `/loop` | the flag comes down, a loop that is on goes on |
| HITL decisions, worker graph cache, vaults and grants, migrations, OAuth, agent graphs, console | | | see section 5 |

Components meet in Redis, in the vault and in the keys of one process. The DB-Writer is under the
indexer (its hub rows) and under the ticker (every key it writes); a turn of the chat goes through
ChatTurn's task, whose graph is WorkerInvoke's thread; a Telegram update or a tick of the loop is
one way for a turn to begin. Hard behaviours: two tasks of the DB-Writer touch one list command by
command; a stop or an abort cancels at any await while a thread goes on; leases and locks expire
under their holder; a flag of a chat is read by turns it was not meant for; a key is written through a
queue and read from the vault; every process is killed and restarted. `PROJECT.json` lists each
hazard at its line with the properties that watch it, or the reason why none does.

## 2. Modules

    RedisList ---- ReliableQueue ---- DbWriter ------ MCDbWriter
             \            |   \            \---- WriteContract  (refined by DbWriter)
              \           |    \---- StateDelta ---- MCStateDelta
               \          \---- MCReliableQueue
                \---- KnowledgeSync ---- MCKnowledgeSync
    WorkerInvoke ---- MCWorkerInvoke         ChatTurn ---- MCChatTurn
    TelegramInbound ---- MCTelegramInbound   LoopTicks ---- MCLoopTicks
    Delivery  (refined by ReliableQueue, DbWriter, StateDelta, KnowledgeSync, TelegramInbound)

with one proof module for each component: `ReliableQueue_proofs`, `DbWriter_proofs`,
`StateDelta_proofs`, `KnowledgeSync_proofs`, `WorkerInvoke_proofs`, `ChatTurn_proofs`,
`TelegramInbound_proofs`, `LoopTicks_proofs`.

* **RedisList**: the list commands. LPUSH adds on the left, RPOP takes from the right.
* **ReliableQueue**: one queue, its consumer task and the reclaim task. Each action is one Redis
  command, because another task, a producer, the clock or a crash may come between any two awaits.
  `pc` and `rpc` are the places in `run_reliable_queue_loop` (after `reclaim_processing_on_startup`)
  and in `reclaim_expired_processing_leases`; `cur` and `rcur` their local variables, `snapshot` the
  expired messages read once and then walked. The handler is one abstract action.
* **DbWriter** extends it with `execute_write`: `hpc` is the place in it; `effects` and `ledger` are
  in the vault, `dedup` and `status` in Redis. A transaction is one step, since nothing of it shows
  before COMMIT.
* **WriteContract**: the abstract promise to a caller; `ImplementsContract` maps `effects` and
  `status` to it.
* **Delivery**: the abstract promise of every queue to whoever hands it work. Four variables: what was
  accepted, what some place keeps a copy of, what is done, what is on record as lost. Work may be done
  twice; it is never done or kept without having been handed over, and its last copy goes only when it
  is done or its loss on record. The mappings differ in what counts as done:

  | Refined by | work | kept | done | lost |
  |---|---|---|---|---|
  | `ReliableQueue!Delivers`, and through it `DbWriter` | messages sent | the two lists, the hands of consumer and reclaim | the handler came to its end | `dropped` |
  | `StateDelta!DeltaDelivers` | deltas sent | the same | stored in full, in the DLQ, or refused: not by a requeue | `dropped`, `swallowed` |
  | `KnowledgeSync!Delivers` | jobs pushed | the job list, a worker | a final status | lost with a worker |
  | `TelegramInbound!TextsDelivered` | texts sent | a run of the webhook, the queue, the consumer | its turn began | `lost` |
* **StateDelta** extends the queue with the state-delta handlers. They differ in how many parts they
  write and in what they do when the vault stays locked; `handler` picks one and never changes.
* **KnowledgeSync**: the gateway's requests, the job list and statuses, the worker threads and the
  poller around `_sync_lock`, and the commands on their way to the DB-Writer. `gateway`, `wpc` and
  `poller.pc` are places in the code; `seen` is what `update_job_progress` has read and will write.
  The place `root` is between the acquire of the lock and the `try` whose `finally` releases it
  (`knowledge_auto_sync.py:446-457`): the lookup of the folder there may raise what is not caught, and
  `leaked` records that the lock stayed taken.
* **WorkerInvoke**: the threads that run the manager graph of a turn, at the invoke node. A step is what
  runs between two points where another thread can matter: a checkpoint that reads the flags, an
  acquire or release, the end of a wait. `Timeout` and `DelegateTimeout` are the wall-clock limits,
  which raise the interrupt flag of the chat; `Replan` sends the turn back to its plan.
* **ChatTurn**: the asyncio task of a turn, `pc`, from await to await, and the thread of its graph,
  `thread`, which outlives a cancelled task. The session lock has a lease and a bounded wait
  (`GiveUp`), and the turns of `LockFree` (`skip_session_lock`: loop, wall cron, the Telegram summary)
  take none (`SkipLock`). A history is the sequence of the turns whose exchange it holds, the oldest
  first. `base` is `history_for_model`: what a task has read of it, before it asks for the lock, or what
  the client sent (`FindHistory`), which the turn writes back with its own exchange after the lock.
  `Capped` drops the oldest at the cap, a compaction leaves any newest part (`LeavesOf`: a fold, or the
  trim when the fold fails), and the tool `summarize_chat_context` reads, asks a model and writes in the
  thread of the graph (`FoldReads`, `FoldWrites`, `drawn`).
* **TelegramInbound**: each run of the webhook of an update, command by command, the consumer of the
  queue, and Telegram, which sends an update again that was not answered. The lock of an album may
  expire under its leader (`AlbumLockRunsOut`), and whoever leaves removes it, its own or not (`LoseLock`).
* **LoopTicks**: pollers, the task of a cycle, the turns of the chat and the user's side; `cfg` is what
  the vault holds, `writes` what the DB-Writer has not applied yet, `todo` what a task has still to
  write. The gateway is an author of its own: it touches the loop when it has persisted the turn of a
  cycle (`Gate`, `GatewayTouches`), before the task of the cycle gets its answer. Points in time are ages in intervals of the loop, up to twice the interval.

Variables marked *history* have no counterpart in the code: they count bounds and record what
happened. Definitions called a variant or a mutant are not part of a specification: each is the
operation it stands before with a plausible bug, and is what `PROJECT.json` "mutants" substitutes
to show that a property can tell.

### Correspondence, where it is not literal

* Lease deadlines of the queue are `none`, `live` or `expired`. A live lease may expire whenever it
  likes: the default is 120 s, and a handler waits up to 60 s for a locked vault, per connection.
* A stop (SIGINT, or a loop of the `gather` that raises) cancels tasks at an await. Inside a handler
  the `finally` block still acknowledges the message, and the thread that `asyncio.to_thread` runs
  may still commit or not: `WriterStop` and `DeltaStop` choose.
* A Redis error counts as a failure: caught inside a handler or the reclaim task, fatal elsewhere.
* `_ledger_prune` removes rows of tasks none of whose messages is still alive (`Prunable`): rows are
  14 days old by default, and messages are assumed not to stay in Redis that long. The Redis keys
  may expire at any time.
* An invalid state-delta payload, a foreign path or a missing grant is a refusal that each delivery
  may meet or not (grants change, an unreadable ACL database counts as granted). Notifications that
  nothing in the repository keeps as state are left out.
* A document and its chunks are one command, and the commands reach the hub in the order they were
  sent: reordering by a reclaim is `ReliableQueue`'s subject. A command the writer gives up is
  `CommandFails`. A registration without ingestion has no job and is not modelled.
* `set_job_status` reads the old status for its progress field only, and is one write here. The
  worker's own `update_job_progress` is one step although it is a GET and a SET: only the gateway's
  late writes could come between, and the SET would hide them as if they had come before.
* A worker graph is what it returns, raises or delegates; each of its nodes starts with a checkpoint
  that reads the flags, so it may stop at any time once one is up. The two flags are one of a chat
  each; a flag in the memory of the process and its Redis key are one.
* An exchange of a turn is kept whole or not at all in a history. The summary of the exchanges that a
  compaction drops goes to the vault and is not modelled, nor whether it was saved there. A compacted
  history becomes the base of the save only if the result of the turn carries it, which is decided at the
  compaction (`CompactHistory`) and not later. What a client sends is one exchange it has been shown.
* Redis is configured and answers in ChatTurn: without it nobody takes a lock (`chat_locks.py:19-21`) and
  histories come from a table of the gateway (`chat_history.py:190-205`).
* In LoopTicks time passes only while no poll and no write is under way: an interval is a minute or
  more, a poll a fraction of it, a write is waited for at most 30 s. The reads of one poll are one
  instant. Turns of a chat may overlap, since a turn waits for the chat lock only so long.

## 3. What is checked

| Run | Instance | Shows |
|---|---|---|
| `queue` | 2 texts sent twice each, 2 failures, 1 stop, fair; 477,327 states | `OneInFlight`, `CopiesNeverMultiply`, `Delivers`, `EventuallySettled` |
| `writer` | typed, legacy and malformed message of one task, 1 failure, 1 stop; 3.2 million states | `AtMostOnceEffect`, `SuccessMeansApplied`, `NoSilentRejection`, `ImplementsContract` |
| `state_delta` | one text sent twice, 2 parts, each handler, 1 failure, 1 stop; 680,673 states | `DeltaDelivers` for the real handlers |
| `knowledge_jobs` | 2 requests for one source, 2 workers, 1 failure; 1,021,620 states | `LockMatchesHolder`, `OneCopyOfJob`, `Delivers`, `CompletedMeansReadied`, `DocumentsFindRow` |
| `knowledge_poll` | 1 worker, 1 failure, fair: 2 jobs that need the lock, or 1 job beside 1 poll and deactivations; 784,386 states | `EventuallyEnded`, `LockMatchesHolder` beside the poller |
| `invoke` | 2 turns of one chat, the first may delegate to the vault of the second, 2 plans each, 1 request to cancel, fair; 113,560 states | `VaultExclusive`, `NothingHeld`, `InterruptedForACause`, `TurnEnds` |
| `chat` | a console turn with the folding tool, a public stream with a client's history and a heartbeat turn without the lock, of one chat that keeps 2 exchanges, 1 fault, aborts at any await, fair; 293,202 states | `SerializedWhileGuarded`, `LostOnlyByOverlap`, `BusyOnlyAfterAbort`, `CancelReachesGraph`, `MisplacedOnlyByOverlap`, `ComesToRest` |
| `telegram` | an album of 2 photos and a text, 1 resend, 1 fault (the album lock may run out), each way to run a turn, fair; 484,983 states | `OneTurn`, `OneBatch`, `TextIsCarried`, `ComesToRest` |
| `loop` | 1 poller, 1 command or user turn, 2 faults, late confirmations, the gateway's own touch, fair; 1,573,816 states | `NothingLeftPending`, `KeepsTicking` |
| `queue_crash_loss` | 1 message, 1 crash | the documentation's "no message is lost by a crash" does not hold |
| `writer_confirmation` | 2 messages, 1 failure | a confirmed task can be reported as failed later |
| `knowledge_stuck` | 1 registration, no failure | a source can stay "indexing" after its job ended |

`Delivers` and `DeltaDelivers` are refinements of Delivery, step by step; the accounting invariants
(`NoSilentLoss`, `DeltaAccounted`, `JobAccounted`) follow from them alone, which is proved too.

Each passing run but `knowledge_poll` has the type invariant of its module too. The last three runs
are disagreements between the code and its own documents; the findings quote both. In
`queue_crash_loss` the message is in no Redis list between RPOP or LREM and LPUSH. In
`writer_confirmation` a redelivery meets an error before the dedup key or the ledger answers for it.
In `knowledge_stuck` the worker is faster than the gateway's second upsert; the auto-sync poller does
not repair the row after a normal ingest, because the fingerprint it remembers is up to date (that
run therefore has no polls), and a new synchronisation does.

### Bounds

*Queue and writer.* Two texts are enough for one message to come between the steps on another, and
two sends for a copy of a message to be in the queue while another is in `:processing`, which is
where LREM and ZREM by value could go wrong. Two failures allow a crash during the recovery from a
crash. Three messages of one task cover every pair of message kinds that share an id.

*Knowledge.* Two jobs and two threads contend for the lock and the list; `MaxWait` is 0 in `knowledge_jobs`
(a job whose row is absent fails at once) and 1 in `knowledge_poll`, standing for the 20 attempts
of the code. In `knowledge_poll` one thread is enough for a job to find the lock taken, by the poller or
leaked by the job before it; two commands on their way let the gateway's and the worker's overlap. `MaxPolls` bounds
the poller, which could otherwise take the lock each time a job tries it: a job is put back every
time, the code has no fairness there. The two threads of `knowledge_jobs` are interchangeable and the
run states no liveness, so it uses symmetry; no other run does.

*Invocation.* Two turns with a delegation between their vaults make every wait of one for the other;
two plans make a flag, a slot or a lock outlive an attempt; limits may pass any number of times.

*Chat.* Three turns differ in all that the code asks of a turn: who streams it, whether it is the
heartbeat's, whether it takes the lock, whether it is the console's, who sends its history. Two exchanges
per history make the third reach the cap. One fault at a time, but aborts as often as there are turns.

*Telegram.* Two photos make a leader and a follower; a resend meets every place of the first run.

*Loop.* One request beside the poller and two faults cover a restart during the recovery from a
failed write; the write queue holds two before an author goes on, which is a confirmation that comes
late. There is one poller. Two of them, the heartbeat and a ticker embedded in the gateway, can both
read the loop before either raised its flag and both post; with two the instance is too large for
the liveness run.

### Deadlock

TLC's check for deadlock is off in every run: with nothing sent, or every turn over and the bounds
used up, the systems rest. That nobody waits for ever is what `EventuallySettled`,
`EventuallyEnded`, `TurnEnds`, `ComesToRest` and `KeepsTicking` say.

### Fairness

* `queue`: the consumer's steps, its lease, the end of a handler, the reclaim task and a restart are
  weakly fair: asyncio runs every task that is ready, a handler has timeouts for its locks, and the
  supervisor restarts the process. Nobody has to send, and no lease has to expire.
* `knowledge_poll`, `knowledge_stuck`: a request that has begun, each thread, the poller once it has
  begun, and the writer are weakly fair. `EventuallyEnded` excepts jobs lost with a process, a lock
  that was leaked, after which every job that needs it is put back uncounted
  (`knowledge_sync_queue.py:375-377`) until the process restarts, and the
  case that every worker task is gone: a Redis error in BRPOP ends a worker's task, and the process,
  which waits for a signal only, is not restarted.
* `invoke`: the thread of each turn goes on, and a graph returns in the end (the recursion limit of
  LangGraph). Nobody has to cancel and no limit has to pass. `TurnEnds` excepts a lock kept by a turn
  whose audit raised.
* `chat`: the event loop takes a turn into the lock and on, a graph ends, so does the tool in it, and a
  lease expires.
* `telegram`: webhooks, consumer and the expiry of Redis keys. Telegram need not send again.
* `loop`: the writer, the poller, the task of a cycle, turns that have begun and the expiry of the BUSY
  mark are weakly fair. The passing of time is strongly fair: it is disabled whenever a write is under
  way, and there is no last moment.

### What the instances leave out

These are behaviours of the code that no document of the repository rules out. They are in the
modules unless said otherwise, and each is why a property has the exception it has.

* A late ZREM of the reclaim (`db_writer_ops.py:195`) may remove the lease of a message that was
  delivered again: a handler that hangs is then not seen by `reclaim_expired_processing_leases`.
* A refused delta is acknowledged and does not reach the dead-letter list. A locked vault with an
  expired lease yields another copy of a delta on each round, so `CopiesNeverMultiply` is a property of
  the queue with a handler that does not requeue.
* Delegations in a circle: two turns that each hold the vault the other's worker delegates to wait
  for each other without a limit (`worker_invoke.py:304`). `DelegateVault` allows it, the instance goes
  in one direction; `VaultExclusive` and `NothingHeld` are proved for circles too.
* The limit of a delegate raises the flag its caller reads, and so may interrupt the caller.
* A turn whose audit raises keeps the lock of its vault (`manager_invoke_helpers.py:432`): `leaked`.
* The lookup of a new source's folder may leak `_sync_lock` (`knowledge_auto_sync.py:446-457` releases it
  for ValueError and FileNotFoundError only): `leaked`, which only a restart of the indexer repairs.
* A turn reads the history before it asks for the lock and writes it back after it gave the lock away, so
  it may write over another's exchange although both had the lock; a turn without it, and a client that
  sends an older history, may do so too: `stale`, `behind`. A report may land in the vault of another
  turn of the console when two overlap, and the report of a graph that outlived its aborted task goes
  where the variable points by then (`custom_reports_bridge.py:190`).
* The override that `summarize_chat_context` leaves for the end of its turn
  (`chat_history_compact_context.py:1-6`: "no re-inflar Redis") is a context variable set in a copied
  context (`worker_invoke.py:172-174`), which `chat_invoke_finalize.py:158-167` does not see: the turn
  saves its old base over what the tool folded. The tests call both in one context. In the model no save
  reads the override.
* An album lock lives 25 s and nothing ends its leader by then; a leader that ends late, or fails, removes
  the lock of the next one. `OneBatch` excepts the photos that a leader had in hand without the lock or
  could not delete: `exposed`. A photo that arrives between the LRANGE and the DELETE of a leader is in
  no batch.
* A text is lost with the gateway that had popped it, or when Redis fails on the way: `lost`.
* Neither `/loop off` nor a new schedule resets the catch-up flag. `/loop --delta` writes the interval
  before the mode, so a poll in between takes the loop for one of the clock; and it does not look
  whether its touch was written, so a loop of the idle mode may be left without an anchor and never
  tick: `KeepsTicking` asks for one.

## 4. What is proved

Eight modules are checked by TLAPS, for every value of the constants under the named assumptions
of the modules (`QueueAssumption`, `WriterAssumption`, `DeltaAssumption`, `KnowledgeAssumption`,
`InvokeAssumption`, `ChatAssumption`, `TelegramAssumption`, `NobodyAssumption`, `LoopAssumption`, `UserAssumption`): any
messages, jobs, turns, updates, pollers and any bounds. The lemmas at the head of `ReliableQueue_proofs`
and `KnowledgeSync_proofs` say what the list commands do to the contents, the length and the count of an
element.

* **Delivery.** `QueueDelivers`, `WriterDelivers`, `DeltaImplementsDelivery`, `KnowledgeDelivers` and
  `TelegramTextsDelivered`: five refinements of one abstract specification. Each is an initial-state fact
  and a step fact, with one lemma per kind of step: which actions accept, which finish, which may lose,
  and that all others release only what is settled. The type and accounting invariants are not enough:
  Delivery also forbids to finish or lose what was never handed over, or to bring it back, which needs
  `HeldWasSent` (`HeldWasPushed` for jobs, `HeldTextWasSent` for texts) - whatever is in a list or in a
  task's hands had been sent. The writer's follows from the queue's through `WriterImplementsQueue`. The
  other way round, `DeliversMeansNoSilentLoss`, `DeltaDeliversMeansAccounted` and
  `KnowledgeDeliversMeansAccounted` draw the accounting invariants from the abstract specification alone.

* **Queue.** `QueueInvariant`: `[](QueueTypeOK /\ OneInFlight /\ HandsOK)`. `OneInFlight` alone is not
  inductive: that an ack leaves `:processing` empty needs that the consumer holds a message at that
  point, and that a restart finds no reclaim task; `HandsOK` says this. From it `QueueTypes`,
  `QueueOneInFlight`, `QueueNoSilentLoss` (a message accounted for stays so) and
  `QueueCopiesNeverMultiply`, which counts the copies in the lists and in the hands of the two tasks
  (`Copies`) through every step: a list of one element loses with LREM what the task takes.
* **SQL path.** `WriterImplementsQueue`: each step of `DbWriter` is a step or a stutter of the queue,
  which carries the queue's results over (`WriterNoSilentLoss`, `WriterOneInFlight`,
  `WriterCopiesNeverMultiply`, `WriterDelivers`). `WriterTypes`, `WriterAtMostOnce`,
  `WriterSuccessMeansApplied` and the action property `WriterNoSilentRejection` from `WriterIInv`,
  which adds where the handler may be and `LedgerOK` (a task with a live message and an effect has its
  ledger row). The point is pruning: a row may go
  once no message of its task is alive, so one needs `LiveNeverRevives`. `WriterImplementsContract`:
  the writer implements `WriteContract`; the step condition is `CommitIsFirst`.
* **State deltas.** `DeltaTypesOK`, `DeltaOneInFlight` and `DeltaNoneLost` from `DeltaIInv`: the queue's invariant with
  handlers that push back before they acknowledge, `HandlerOK` (what each place of a handler has written),
  and `KeptOK` (a message whose ack has begun is kept elsewhere, which is what makes the accounting
  inductive).
* **Knowledge.** `KnowledgeTypes`, `KnowledgeLockMatchesHolder`, `KnowledgeOneCopyOfJob`,
  `KnowledgeJobAccounted`, `KnowledgeCompletedMeansReadied`, `KnowledgeDocumentsFindRow` from
  `KnowledgeIInv`. Its parts restate the properties without counting: `OneHolder` (the lock is taken iff
  somebody holds it or it was leaked, not both, and two holders are one), `OneCopy`; `Readied` covers what a gateway has read and
  will write late; `RowsFound` says that whoever may send documents has found the row, and rows stay.
* **Invocation.** `InvokeTypes`, `InvokeNothingHeld`, `InvokeVaultExclusive`, `InvokeInterruptedForACause`
  from `InvokeIInv`, which adds `FlagsExplained`: a flag that an open turn could read was raised after
  the turn began, because `Begin` clears both.
* **Chat.** `ChatTypes`, `ChatSerializedWhileGuarded`, `ChatCancelReachesGraph`, `ChatBusyOnlyAfterAbort`,
  `ChatMisplacedOnlyByOverlap` and the action property `ChatLostOnlyByOverlap` from `ChatIInv`: who has the
  lock and who has no claim to it, which threads may run without a task, whose mark and flag it is, what
  value the variable has while no two turns overlapped (`EnvOK`), and that a base, or what a tool has
  drawn, is the stored history or what a compaction left of it unless it is recorded as old (`BaseOK`).
* **Telegram.** `TelegramOneTurn`, `TelegramTextIsCarried` and `TelegramOneBatch` from `TelegramIInv`: an
  update is in one place of the way to its turn (`OnePlaceEach`), one that was seen is carried, since
  its next copy is answered on the strength of that (`SeenIsCarried`), only a leader at its DELETE or at
  its unlock has photos in hand (`LeaderOK`), and a photo in a row of the album, or with a leader, was in no
  batch unless it is `exposed` (`OneLeaderEach`).
  The type invariant, `TelegramTypeCorrect`, is not inductive because of the turns it bounds by
  `MaxTries`: `CountOK` counts, for each update, its copies in the queue, its turns and the consumer
  against the handlers that have passed the webhook (`Passed`), each of which adds one at most.
* **Loop.** `LoopTypeCorrect` and `LoopNothingLeftPending` from `LoopIInv`. The flag is written through a
  queue, so `Pursued` speaks of the vault and of each write on its way: as long as nothing went wrong,
  whatever raises the flag is followed in the queue by a write that lowers it, or some poller, cycle or
  list of writes to make (`todo`) is still going to lower it (`Pursues`). It needs `TasksOK`: a task has
  writes to make only when it has its answer, and a poller guards a cycle only when its last one is over.

**Only model-checked**: liveness under fairness (`EventuallySettled`, `EventuallyEnded`, `TurnEnds`,
both `ComesToRest`, `KeepsTicking`), which is out of the prover's reach. Every safety property, action
property and refinement that a run checks is a theorem. `TextsDelivered` is proved; no run lists it, as
`TextIsCarried` already watches the same loss in the run of the bot. The runs that expect a violation refute
a document, so there is nothing to prove.

## 5. Not modelled

* **Schema migrations**: idempotent DDL of one process at its start.
* **Vaults and grants**: path resolution and access control are pure functions of data. Where a check
  may fail, DbWriter and StateDelta let it.
* **HITL decisions**: their steps are calls of git and of a pull-request service; the one conditional
  update is an effect of the SQL write path.
* **Worker graph cache**: its vault locks are in WorkerInvoke; what becomes of a handle that is closed
  in use is DuckDB's behaviour, not in the source.
* **Agent graphs and tools** (sandbox, report engine, model providers, image ingestion): the largest part
  of the lines. What they do is what a language model, a container or a remote service answers;
  their locks, limits and flags are in WorkerInvoke and ChatTurn. The rest is formatting and prompts.
* **OAuth connectors**: one lock around a refresh; the rest is HTTP.
* **Console, operations, desktop; the other gateway endpoints**: user interface, process management and
  I/O without state of their own.
* Of modelled components: goals, alerts with their cooldowns and the homeostasis of the heartbeat;
  commands that the Telegram webhook answers itself, voice notes and outbound messages; conversation
  metadata; `DUCKCLAW_CHAT_PARALLEL_INVOCATIONS` and `DUCKCLAW_KNOWLEDGE_SYNC_MAX_FILES`, which are not set by
  default; the path lock of the SQL path, which one queue takes alone while the state-delta handlers go
  without (`loop_state_delta_handler.py:153`); the gateway without Redis, where no turn takes the session
  lock (`chat_locks.py:19-21`) and no update is looked up (`telegram_inbound_webhook.py:1120`), nor is one
  without an `update_id`; `/loop on` and `/loop on --delta` with their immediate tick
  (`commands/loop.py:222-272, 1433-1451`).

## 6. Plan

Done: all modules of section 2, and a proof of each safety property, action property and refinement.

1. The locks as refinements of one abstract mutual exclusion: the indexer's `_sync_lock`, the vault locks of
   WorkerInvoke, and the session lock of ChatTurn while its lease lasts.
2. The composition of ChatTurn with WorkerInvoke: the graph of a turn as the invoke node's thread, which
   joins the cancel flag of the one with the interrupt flag of the other.
3. A second poller beside the first in LoopTicks under TLC: the proof covers it, the liveness run does not.
