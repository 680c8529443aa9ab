------------------------------ MODULE DbWriter ------------------------------
(***************************************************************************)
(* The SQL queue of the DB-Writer: the reliable queue of ReliableQueue     *)
(* with execute_write (services/db-writer/main.py) as its handler, the     *)
(* DuckDB vault it writes (the effect of each task and the durable         *)
(* admin_write_ledger) and the two Redis keys of a task: the soft dedup    *)
(* key and task_status, which callers poll.                                *)
(*                                                                         *)
(* A DuckDB transaction is one step: only its COMMIT is visible, and the   *)
(* single consumer of the queue is the only one that writes the ledger.    *)
(* The per-path lock is never contended by a single consumer and is left   *)
(* out.                                                                    *)
(***************************************************************************)
EXTENDS ReliableQueue

CONSTANTS
    Task,     \* task ids
    TaskOf,   \* the task_id a message carries (or the one salvaged from bad JSON)
    Kind      \* typed (has command_type), legacy (query only) or malformed JSON

ASSUME WriterAssumption ==
    /\ TaskOf \in [Msg -> Task]
    /\ Kind \in [Msg -> {"typed", "legacy", "malformed"}]

VARIABLES
    hpc,       \* where execute_write is
    effects,   \* how often the effect of a task was committed (in the vault)
    ledger,    \* the tasks the ledger has as completed (in the vault)
    dedup,     \* the tasks whose dedup:task:<id> key exists (in Redis)
    status     \* task_status:<id> (in Redis)

vaultVars == <<effects, ledger>>
keyVars == <<dedup, status>>
handlerVars == <<hpc, effects, ledger, dedup, status>>
vars == <<queueVars, handlerVars>>

\* The variables of the queue that a step inside the handler leaves alone.
aroundHandler == <<redisVars, consumerVars, reclaimVars, sent, stops, settled, dropped>>

HandlerPC == {"none", "get_dedup", "validate", "tx", "publish_seen",
              "set_dedup", "publish_success", "publish_already",
              "set_dedup_already", "publish_failed"}

task == TaskOf[cur]

Init ==
    /\ QueueInit
    /\ hpc = "none"
    /\ effects = [t \in Task |-> 0]
    /\ ledger = {}
    /\ dedup = {}
    /\ status = [t \in Task |-> "none"]
-----------------------------------------------------------------------------
(* The lifetime of a copy of a message *)

\* A message that may still be handled: it can be sent again, Redis holds it,
\* or a task has it in hand.
Live(m) ==
    \/ sent[m] < MaxSend
    \/ Has(queue, m)
    \/ Has(processing, m)
    \/ cur = m
    \/ rpc = "lpush" /\ rcur = m

\* _ledger_prune deletes rows older than the retention (14 days by default).
\* A message does not stay in Redis that long: only rows of tasks without a live
\* message are old enough.
Prunable(t) == \A m \in Msg : TaskOf[m] = t => ~Live(m)
-----------------------------------------------------------------------------
(* execute_write and _handle_typed_command *)

\* _handle_typed_command comes first; a message without command_type falls through
\* to the legacy path, and json.loads may fail.
FirstStep == [typed |-> "get_dedup", legacy |-> "validate", malformed |-> "publish_failed"]

\* The loop registers the lease and calls the handler, which parses the message.
StartHandler ==
    /\ RegisterLease
    /\ hpc' = FirstStep[Kind[cur]]
    /\ UNCHANGED <<vaultVars, keyVars>>

EndHandler == HandlerReturn /\ hpc' = "none"

\* A Redis error inside the handler, bounded like the other failures.
RedisFails ==
    /\ failures < MaxFailures
    /\ failures' = failures + 1

\* Variant: claims the dedup key when the task is first seen, not when it is done.
ClaimDedup ==
    /\ hpc = "get_dedup"
    /\ IF task \in dedup
       THEN hpc' = "publish_seen" /\ UNCHANGED dedup
       ELSE hpc' = "validate" /\ dedup' = dedup \cup {task}
    /\ UNCHANGED <<aroundHandler, failures, vaultVars, status>>

\* _is_duplicate_task: a Redis error counts as "not seen".
GetDedup ==
    /\ hpc = "get_dedup"
    /\ \/ /\ task \in dedup
          /\ hpc' = "publish_seen"
          /\ UNCHANGED failures
       \/ /\ task \notin dedup
          /\ hpc' = "validate"
          /\ UNCHANGED failures
       \/ /\ RedisFails
          /\ hpc' = "validate"
    /\ UNCHANGED <<aroundHandler, vaultVars, keyVars>>

\* Variant: a rejected message returns without a word to the caller.
ValidateSilently ==
    /\ hpc = "validate"
    /\ \/ /\ hpc' = "tx"
          /\ UNCHANGED <<aroundHandler, failures>>
       \/ EndHandler /\ UNCHANGED failures
    /\ UNCHANGED <<vaultVars, keyVars>>

\* _validate_target_db_path and the ACL checks of the legacy path: grants change
\* and the ACL database may be unreadable, so each delivery may go either way.
Validate ==
    /\ hpc = "validate"
    /\ hpc' \in {"tx", "publish_failed"}
    /\ UNCHANGED <<aroundHandler, failures, vaultVars, keyVars>>

\* Variant: relies on the soft dedup key and does not ask the ledger.
CommitWithoutLedgerCheck ==
    /\ effects' = [effects EXCEPT ![task] = @ + 1]
    /\ \E old \in SUBSET {t \in ledger : Prunable(t)} :
          ledger' = (ledger \ old) \cup {task}

\* The effect, the ledger row and (at most hourly) the prune of old rows.
Commit ==
    /\ task \notin ledger
    /\ effects' = [effects EXCEPT ![task] = @ + 1]
    /\ \E old \in SUBSET {t \in ledger : Prunable(t)} :
          ledger' = (ledger \ old) \cup {task}

TxCommit ==
    /\ hpc = "tx"
    /\ Commit
    /\ hpc' = IF Kind[cur] = "typed" THEN "set_dedup" ELSE "publish_success"
    /\ UNCHANGED <<aroundHandler, failures, keyVars>>

TxAlreadyCompleted ==
    /\ hpc = "tx"
    /\ task \in ledger
    /\ hpc' = "publish_already"
    /\ UNCHANGED <<aroundHandler, failures, vaultVars, keyVars>>

\* Variant: the exception of a transaction is swallowed.
TxFailSwallowed ==
    /\ hpc = "tx"
    /\ hpc' = "publish_success"
    /\ UNCHANGED <<aroundHandler, failures, vaultVars, keyVars>>

\* The file stays locked for the whole retry budget, a migration fails, the
\* command raises or there is no query: rolled back, reported as failed.
TxFail ==
    /\ hpc = "tx"
    /\ hpc' = "publish_failed"
    /\ UNCHANGED <<aroundHandler, failures, vaultVars, keyVars>>

\* SET dedup:task:<id>.  It is outside the inner try: when Redis fails, the outer
\* "except Exception" of execute_write reports the committed task as failed.
SetDedup ==
    /\ hpc = "set_dedup"
    /\ \/ /\ dedup' = dedup \cup {task}
          /\ hpc' = "publish_success"
          /\ UNCHANGED failures
       \/ /\ RedisFails
          /\ hpc' = "publish_failed"
          /\ UNCHANGED dedup
    /\ UNCHANGED <<aroundHandler, vaultVars, status>>

\* _publish_task_status: SETEX, and a Redis error is swallowed.
PublishStatus(s) ==
    \/ /\ status' = [status EXCEPT ![task] = s]
       /\ UNCHANGED failures
    \/ /\ RedisFails
       /\ UNCHANGED status

\* The ledger said "already completed": publish first, then SET dedup.
PublishAlready ==
    /\ hpc = "publish_already"
    /\ PublishStatus("success")
    /\ \/ /\ Kind[cur] = "typed"
          /\ hpc' = "set_dedup_already"
          /\ UNCHANGED aroundHandler
       \/ /\ Kind[cur] # "typed"
          /\ EndHandler
    /\ UNCHANGED <<vaultVars, dedup>>

SetDedupAlready ==
    /\ hpc = "set_dedup_already"
    /\ \/ /\ dedup' = dedup \cup {task}
          /\ EndHandler
          /\ UNCHANGED failures
       \/ /\ RedisFails
          /\ hpc' = "publish_failed"
          /\ UNCHANGED <<aroundHandler, dedup>>
    /\ UNCHANGED <<vaultVars, status>>

PublishSuccess ==
    /\ hpc \in {"publish_seen", "publish_success"}
    /\ PublishStatus("success")
    /\ EndHandler
    /\ UNCHANGED <<vaultVars, dedup>>

\* Variant: answers with a status no caller knows.
PublishError ==
    /\ hpc = "publish_failed"
    /\ PublishStatus("error")
    /\ EndHandler
    /\ UNCHANGED <<vaultVars, dedup>>

PublishFailed ==
    /\ hpc = "publish_failed"
    /\ PublishStatus("failed")
    /\ EndHandler
    /\ UNCHANGED <<vaultVars, dedup>>

HandlerStep ==
    \/ GetDedup \/ Validate \/ TxCommit \/ TxAlreadyCompleted \/ TxFail \/ SetDedup
    \/ PublishAlready \/ SetDedupAlready \/ PublishSuccess \/ PublishFailed
-----------------------------------------------------------------------------
(* Time, crashes and stops *)

\* TTL of 60 s on task_status and 120 s on the dedup key.
KeyExpires(t) ==
    /\ \/ /\ t \in dedup
          /\ dedup' = dedup \ {t}
          /\ UNCHANGED status
       \/ /\ status[t] # "none"
          /\ status' = [status EXCEPT ![t] = "none"]
          /\ UNCHANGED dedup
    /\ UNCHANGED <<queueVars, hpc, vaultVars>>

\* An uncommitted transaction is gone with the process.
WriterCrash ==
    /\ Crash
    /\ hpc' = "none"
    /\ UNCHANGED <<vaultVars, keyVars>>

\* CancelledError is not an Exception: nothing is reported.  The thread of a
\* transaction is not cancelled: it may still commit before the process ends.
WriterStop ==
    /\ StopInHandler
    /\ hpc' = "none"
    /\ \/ UNCHANGED vaultVars
       \/ hpc = "tx" /\ Commit
    /\ UNCHANGED keyVars

QueueOnly ==
    /\ ConsumerStep \/ ReclaimStep \/ Environment
    /\ UNCHANGED handlerVars

Next ==
    \/ QueueOnly
    \/ StartHandler
    \/ HandlerStep
    \/ \E t \in Task : KeyExpires(t)
    \/ WriterCrash
    \/ WriterStop

Spec == Init /\ [][Next]_vars
-----------------------------------------------------------------------------
(* Properties *)

\* Every variable of the SQL path has its type.
TypeOK ==
    /\ QueueTypeOK
    /\ hpc \in HandlerPC
    /\ effects \in [Task -> Nat]
    /\ ledger \in SUBSET Task
    /\ dedup \in SUBSET Task
    /\ status \in [Task -> {"none", "success", "failed"}]

\* Exactly-once effect on top of an at-least-once queue: crashes, expired leases,
\* repeated sends, expired dedup keys and a pruned ledger never make the writer
\* apply a task twice.
AtMostOnceEffect == \A t \in Task : effects[t] <= 1

\* Neither a poll that reads "success" nor the soft dedup key (which makes a later
\* delivery answer "already processed") exists for a task that was not applied.
SuccessMeansApplied ==
    \A t \in Task : status[t] = "success" \/ t \in dedup => effects[t] = 1

\* Why a task cannot be applied twice: a row of the ledger stands for exactly one
\* effect, and once it is pruned no message can bring the task back; past the
\* transaction the handler works for an applied task.
LedgerOK ==
    \A t \in Task :
        /\ effects[t] <= 1
        /\ t \in ledger => effects[t] = 1
        /\ effects[t] = 1 => t \in ledger \/ Prunable(t)

HandlerOK ==
    /\ hpc # "none" <=> pc = "handle"
    /\ hpc \in {"publish_seen", "set_dedup", "publish_success", "publish_already",
                "set_dedup_already"} => effects[task] = 1

\* No handler ends silently: when a message is done and its task is not applied,
\* the caller is shown "failed", unless Redis failed in that very step.
NoSilentRejection ==
    [][HandlerStep /\ pc' # "handle" /\ effects[task] = 0
          => status'[task] = "failed" \/ failures' # failures]_vars

\* The writer implements the contract callers rely on.
Contract == INSTANCE WriteContract WITH
    applied <- {t \in Task : effects[t] > 0},
    shown <- status

ImplementsContract == Contract!Spec

\* execute_write promises an idempotent confirmation: once a task was reported as
\* a success, a later delivery of it does not report it as failed.
ConfirmationIdempotent ==
    [][\A t \in Task : status[t] = "success" => status'[t] # "failed"]_vars
=============================================================================
