----------------------------- MODULE KnowledgeSync -----------------------------
(***************************************************************************)
(* Indexing of knowledge sources, from the request in the gateway to the   *)
(* row in the hub database: the endpoints of routers/admin_domains/        *)
(* knowledge.py, the job list and job status in Redis (knowledge_sync_     *)
(* queue.py), the worker threads and the auto-sync poller of the           *)
(* Knowledge-Indexer process, which share one non-blocking lock            *)
(* (knowledge_auto_sync.py), and the write commands that both processes    *)
(* send to the DB-Writer, which applies them one by one.                   *)
(*                                                                         *)
(* A source's documents and their chunks are one command here, and their   *)
(* content is left out.  Every job of the model is one request that may    *)
(* be made; its id is fresh.                                               *)
(***************************************************************************)
EXTENDS RedisList

CONSTANTS
    Source,
    Job,
    Worker,        \* the indexer's threads (DUCKCLAW_KNOWLEDGE_INDEXER_MAX_INFLIGHT)
    Requests,      \* the requests that may be made: each gives every job its kind,
                   \* "none" when nobody makes that request
    SourceOf,      \* the source of a job
    NoJob,
    NoSource,
    Deletable,     \* for each of the requests, the sources an administrator may deactivate
    MaxWait,       \* SOURCE_WAIT_MAX_ATTEMPTS
    MaxCmds,       \* bound: commands on their way to the DB-Writer
    MaxPolls,      \* bound, for each of the requests: cycles of the auto-sync poller
    MaxFailures    \* bound: crashes, Redis errors and commands the writer gives up

Creates == {"create", "upload"}

ASSUME KnowledgeAssumption ==
    /\ Requests \in SUBSET [Job -> {"create", "upload", "sync", "file", "none"}]
    /\ SourceOf \in [Job -> Source]
    /\ \A kinds \in Requests : \A i, j \in Job :
          kinds[i] \in Creates /\ kinds[j] \in Creates /\ SourceOf[i] = SourceOf[j] => i = j
    /\ NoJob \notin Job
    /\ NoSource \notin Source
    /\ MaxWait \in Nat
    /\ Deletable \in [Requests -> SUBSET Source]
    /\ MaxCmds \in Nat \ {0}
    /\ MaxPolls \in [Requests -> Nat]
    /\ MaxFailures \in Nat

VARIABLES
    kind,        \* the request behind each job
    gateway,     \* where the request of each job is in the gateway
    seen,        \* the job status that the request's update_job_progress has read
    jobs,        \* duckclaw:knowledge_sync_jobs
    waits,       \* source_wait_attempts carried by each job
    jobStatus,   \* duckclaw:knowledge_sync_status:<job>
    cmds,        \* commands on their way to the DB-Writer, first one first
    row,         \* admin_knowledge_sources: the status, "inactive" or "absent"
    documents,   \* the sources with active documents
    wpc,         \* where each worker thread is
    wjob,        \* the job it has
    poller,      \* the auto-sync poller: where it is and what it has read
    locked,      \* _sync_lock
    leaked,      \* history: the lock was left taken by an exception
    fresh,       \* the sources whose folder matches _last_fingerprint
    polls,       \* history: poll cycles so far
    failures,    \* history: failures so far
    pushed,      \* history: jobs that reached the list
    readied,     \* history: jobs whose "ready" command was sent
    ended,       \* history: jobs a worker gave a final status
    lost         \* history: jobs that were in the hands of a crashed worker

gatewayVars == <<kind, gateway, seen>>
redisVars == <<jobs, waits, jobStatus>>
hubVars == <<row, documents>>
workerVars == <<wpc, wjob>>
lockVars == <<locked, leaked, fresh>>
pollVars == <<poller, polls>>
historyVars == <<failures, pushed, readied, ended, lost>>
vars == <<gatewayVars, redisVars, cmds, hubVars, workerVars, lockVars, pollVars, historyVars>>

SourceStatus == {"indexing", "ready", "failed"}
JobStatus == {"none", "queued", "running", "completed", "failed"}
GatewayPC == {"new", "push", "queued", "read", "write", "announce", "done"}
Working ==
    {"start", "read", "requeue", "enter", "root", "indexing", "docs", "ready", "complete", "skip"}
WorkerPC == Working \cup {"idle", "requeued", "fail", "dead"}
PollerPC == {"idle", "enter", "decide", "docs", "ready"}

SourceCmd(s, status) == [op |-> "source", source |-> s, status |-> status]
DocsCmd(s) == [op |-> "documents", source |-> s, status |-> "none"]
DeactivateCmd(s) == [op |-> "deactivate", source |-> s, status |-> "none"]
Command ==
    [op : {"source", "documents", "deactivate"}, source : Source,
     status : SourceStatus \cup {"none"}]

\* get_knowledge_source returns active rows only.
Active(s) == row[s] \in SourceStatus

\* folder_ingest and folder_sync: the source is a folder and progress is published.
FolderJob(j) == kind[j] \in {"create", "sync"}

\* A source with a folder on the server; an upload has none.
FolderSource(s) == \A j \in Job : SourceOf[j] = s => kind[j] # "upload"

NotPolling == [pc |-> "idle", source |-> NoSource, status |-> "none", existing |-> FALSE]

\* A source that no request registers was registered and indexed before.
Existing == {s \in Source : \A j \in Job : SourceOf[j] = s => kind[j] \notin Creates}

Init ==
    /\ kind \in Requests
    /\ gateway = [j \in Job |-> "new"]
    /\ seen = [j \in Job |-> "none"]
    /\ jobs = <<>>
    /\ waits = [j \in Job |-> 0]
    /\ jobStatus = [j \in Job |-> "none"]
    /\ cmds = <<>>
    /\ row = [s \in Source |-> IF s \in Existing THEN "ready" ELSE "absent"]
    /\ documents = Existing
    /\ wpc = [k \in Worker |-> "idle"]
    /\ wjob = [k \in Worker |-> NoJob]
    /\ poller = NotPolling
    /\ locked = FALSE
    /\ leaked = FALSE
    /\ fresh = {}
    /\ polls = 0
    /\ failures = 0
    /\ pushed = {}
    /\ readied = {}
    /\ ended = {}
    /\ lost = {}

Fails ==
    /\ failures < MaxFailures
    /\ failures' = failures + 1

Send(c) ==
    /\ Len(cmds) < MaxCmds
    /\ cmds' = Append(cmds, c)
-----------------------------------------------------------------------------
(* The gateway: one request per job *)

GatewayAt(j, from, to) ==
    /\ gateway[j] = from
    /\ gateway' = [gateway EXCEPT ![j] = to]
    /\ UNCHANGED kind

\* create_knowledge_source and upload_knowledge_files enqueue the row of the new
\* source before the job.
RegisterSource(j) ==
    /\ kind[j] \in Creates
    /\ GatewayAt(j, "new", "push")
    /\ Send(SourceCmd(SourceOf[j], "indexing"))
    /\ UNCHANGED <<seen, redisVars, hubVars, workerVars, lockVars, pollVars, historyVars>>

\* sync_knowledge_source and sync_file_after_write read an active row first.
RequestSync(j) ==
    /\ kind[j] \in {"sync", "file"}
    /\ Active(SourceOf[j])
    /\ FolderSource(SourceOf[j])
    /\ GatewayAt(j, "new", "push")
    /\ UNCHANGED <<seen, redisVars, cmds, hubVars, workerVars, lockVars, pollVars, historyVars>>

\* _push_job: LPUSH first ...
PushJob(j) ==
    /\ GatewayAt(j, "push", "queued")
    /\ jobs' = LPush(jobs, j)
    /\ pushed' = pushed \cup {j}
    /\ UNCHANGED <<seen, waits, jobStatus, cmds, hubVars, workerVars, lockVars, pollVars,
                   failures, readied, ended, lost>>

\* ... then the status.
SetQueued(j) ==
    /\ GatewayAt(j, "queued", IF kind[j] = "file" THEN "done" ELSE "read")
    /\ jobStatus' = [jobStatus EXCEPT ![j] = "queued"]
    /\ UNCHANGED <<seen, jobs, waits, cmds, hubVars, workerVars, lockVars, pollVars, historyVars>>

\* update_job_progress is a GET and a SET.
ReadProgress(j) ==
    /\ GatewayAt(j, "read", "write")
    /\ seen' = [seen EXCEPT ![j] = jobStatus[j]]
    /\ UNCHANGED <<redisVars, cmds, hubVars, workerVars, lockVars, pollVars, historyVars>>

\* A progress report turns "queued", or no status at all, into "running".
Progressed(status) == IF status \in {"none", "queued"} THEN "running" ELSE status

WriteProgress(j) ==
    /\ GatewayAt(j, "write", "announce")
    /\ jobStatus' = [jobStatus EXCEPT ![j] = Progressed(seen[j])]
    /\ seen' = [seen EXCEPT ![j] = "none"]
    /\ UNCHANGED <<jobs, waits, cmds, hubVars, workerVars, lockVars, pollVars, historyVars>>

\* The row again, now with the id of the job.
AnnounceIndexing(j) ==
    /\ GatewayAt(j, "announce", "done")
    /\ Send(SourceCmd(SourceOf[j], "indexing"))
    /\ UNCHANGED <<seen, redisVars, hubVars, workerVars, lockVars, pollVars, historyVars>>

\* A Redis error or a crash of the gateway ends the request where it is.
RequestFails(j) ==
    /\ gateway[j] \notin {"new", "done"}
    /\ Fails
    /\ gateway' = [gateway EXCEPT ![j] = "done"]
    /\ UNCHANGED <<kind, seen, redisVars, cmds, hubVars, workerVars, lockVars, pollVars, readied, ended,
                   lost, pushed>>

\* deactivate_knowledge_source, for a source that an administrator sees.
Deactivate(s) ==
    /\ Active(s)
    /\ DeactivateCmd(s) \notin {cmds[i] : i \in 1..Len(cmds)}
    /\ Send(DeactivateCmd(s))
    /\ UNCHANGED <<gatewayVars, redisVars, hubVars, workerVars, lockVars, pollVars, historyVars>>

GatewayStep(j) ==
    \/ RegisterSource(j) \/ RequestSync(j) \/ PushJob(j) \/ SetQueued(j)
    \/ ReadProgress(j) \/ WriteProgress(j) \/ AnnounceIndexing(j)
-----------------------------------------------------------------------------
(* A worker thread of the indexer: run_knowledge_indexer_cycle *)

WorkerAt(k, from, to) ==
    /\ wpc[k] = from
    /\ wpc' = [wpc EXCEPT ![k] = to]

\* BRPOP: from here on only the memory of the process has the job.
Dequeue(k) ==
    /\ WorkerAt(k, "idle", "start")
    /\ jobs # <<>>
    /\ wjob' = [wjob EXCEPT ![k] = RightEnd(jobs)]
    /\ jobs' = WithoutRightEnd(jobs)
    /\ UNCHANGED <<gatewayVars, waits, jobStatus, cmds, hubVars, lockVars, pollVars, historyVars>>

SetRunning(k) ==
    /\ WorkerAt(k, "start", "read")
    /\ jobStatus' = [jobStatus EXCEPT ![wjob[k]] = "running"]
    /\ UNCHANGED <<gatewayVars, jobs, waits, cmds, hubVars, wjob, lockVars, pollVars, historyVars>>

\* Mutant: one wait too many.
ReadSourceOnceMore(k) ==
    /\ wpc[k] = "read"
    /\ \/ /\ Active(SourceOf[wjob[k]])
          /\ WorkerAt(k, "read", "enter")
          /\ UNCHANGED waits
       \/ /\ ~Active(SourceOf[wjob[k]])
          /\ waits[wjob[k]] <= MaxWait
          /\ WorkerAt(k, "read", "requeue")
          /\ waits' = [waits EXCEPT ![wjob[k]] = @ + 1]
    /\ UNCHANGED <<gatewayVars, jobs, jobStatus, cmds, hubVars, wjob, lockVars, pollVars,
                   historyVars>>

\* Mutant: the payload is put back as it came, so the attempts are never counted.
ReadSourceUncounted(k) ==
    /\ WorkerAt(k, "read", IF Active(SourceOf[wjob[k]]) THEN "enter" ELSE "requeue")
    /\ UNCHANGED waits
    /\ UNCHANGED <<gatewayVars, jobs, jobStatus, cmds, hubVars, wjob, lockVars, pollVars,
                   historyVars>>

\* Mutant: goes on without the row.
ReadSourceUnchecked(k) ==
    /\ WorkerAt(k, "read", "enter")
    /\ UNCHANGED waits
    /\ UNCHANGED <<gatewayVars, jobs, jobStatus, cmds, hubVars, wjob, lockVars, pollVars,
                   historyVars>>

\* The row may still be on its way through the DB-Writer.
ReadSource(k) ==
    /\ wpc[k] = "read"
    /\ \/ /\ Active(SourceOf[wjob[k]])
          /\ WorkerAt(k, "read", "enter")
          /\ UNCHANGED waits
       \/ /\ ~Active(SourceOf[wjob[k]])
          /\ waits[wjob[k]] < MaxWait
          /\ WorkerAt(k, "read", "requeue")
          /\ waits' = [waits EXCEPT ![wjob[k]] = @ + 1]
       \/ /\ ~Active(SourceOf[wjob[k]])
          /\ waits[wjob[k]] = MaxWait
          /\ WorkerAt(k, "read", "fail")
          /\ UNCHANGED waits
    /\ UNCHANGED <<gatewayVars, jobs, jobStatus, cmds, hubVars, wjob, lockVars, pollVars,
                   historyVars>>

\* Mutant: the return after the requeue is missing.
RequeueAndGoOn(k) ==
    /\ WorkerAt(k, "requeue", "enter")
    /\ jobs' = LPush(jobs, wjob[k])
    /\ UNCHANGED <<gatewayVars, waits, jobStatus, cmds, hubVars, wjob, lockVars, pollVars,
                   historyVars>>

\* _requeue_knowledge_sync_job: LPUSH, then the status.
Requeue(k) ==
    /\ WorkerAt(k, "requeue", "requeued")
    /\ jobs' = LPush(jobs, wjob[k])
    /\ UNCHANGED <<gatewayVars, waits, jobStatus, cmds, hubVars, wjob, lockVars, pollVars,
                   historyVars>>

SetRequeued(k) ==
    /\ WorkerAt(k, "requeued", "idle")
    /\ jobStatus' = [jobStatus EXCEPT ![wjob[k]] = "queued"]
    /\ wjob' = [wjob EXCEPT ![k] = NoJob]
    /\ UNCHANGED <<gatewayVars, jobs, waits, cmds, hubVars, lockVars, pollVars, historyVars>>

\* A single-file sync takes no lock; the others try it without blocking and put
\* the job back when another thread has it.  A folder that is registered is looked
\* up under the lock, but before the block that releases it.
Enter(k) ==
    /\ wpc[k] = "enter"
    /\ \/ /\ kind[wjob[k]] = "file"
          /\ WorkerAt(k, "enter", "docs")
          /\ UNCHANGED locked
       \/ /\ kind[wjob[k]] # "file"
          /\ ~locked
          /\ WorkerAt(k, "enter", IF kind[wjob[k]] = "create" THEN "root" ELSE "indexing")
          /\ locked' = TRUE
       \/ /\ kind[wjob[k]] # "file"
          /\ locked
          /\ WorkerAt(k, "enter", "requeue")
          /\ UNCHANGED locked
    /\ UNCHANGED <<gatewayVars, redisVars, cmds, hubVars, wjob, leaked, fresh, pollVars, historyVars>>

\* validate_knowledge_ingest_root finds the folder of a new source.
ValidateRoot(k) ==
    /\ WorkerAt(k, "root", "indexing")
    /\ UNCHANGED <<gatewayVars, redisVars, cmds, hubVars, wjob, lockVars, pollVars, historyVars>>

\* Mutant: nothing to index counts as success.
FindNothingQuietly(k) ==
    /\ \/ WorkerAt(k, "enter", "complete") /\ UNCHANGED locked
       \/ /\ WorkerAt(k, "root", "complete") \/ WorkerAt(k, "indexing", "complete")
          /\ locked' = FALSE
    /\ UNCHANGED <<gatewayVars, redisVars, cmds, hubVars, wjob, leaked, fresh, pollVars, historyVars>>

\* The folder or the staged files are gone, or hold nothing to index: found out
\* before the lock is taken or under it.  The ValueError and FileNotFoundError of
\* a folder that is looked up release the lock by hand.
FindNothing(k) ==
    /\ \/ WorkerAt(k, "enter", "skip") /\ UNCHANGED locked
       \/ /\ WorkerAt(k, "root", "skip") \/ WorkerAt(k, "indexing", "skip")
          /\ locked' = FALSE
    /\ UNCHANGED <<gatewayVars, redisVars, cmds, hubVars, wjob, leaked, fresh, pollVars, historyVars>>

SendIndexing(k) ==
    /\ WorkerAt(k, "indexing", "docs")
    /\ Send(SourceCmd(SourceOf[wjob[k]], "indexing"))
    /\ UNCHANGED <<gatewayVars, redisVars, hubVars, wjob, lockVars, pollVars, historyVars>>

\* ingest_folder_paths: progress and documents; a file of a folder that does not
\* parse is skipped, one that was uploaded or written raises.
SendDocuments(k) ==
    /\ WorkerAt(k, "docs", "ready")
    /\ \/ Send(DocsCmd(SourceOf[wjob[k]]))
       \/ FolderJob(wjob[k]) /\ UNCHANGED cmds
    /\ jobStatus' = IF FolderJob(wjob[k])
                    THEN [jobStatus EXCEPT ![wjob[k]] = Progressed(@)]
                    ELSE jobStatus
    /\ UNCHANGED <<gatewayVars, jobs, waits, hubVars, wjob, lockVars, pollVars, historyVars>>

\* The last command; folder jobs remember the fingerprint, and the lock is
\* released on return.
SendReady(k) ==
    /\ WorkerAt(k, "ready", "complete")
    /\ Send(SourceCmd(SourceOf[wjob[k]], "ready"))
    /\ readied' = readied \cup {wjob[k]}
    /\ fresh' = IF FolderJob(wjob[k]) THEN fresh \cup {SourceOf[wjob[k]]} ELSE fresh
    /\ locked' = IF kind[wjob[k]] = "file" THEN locked ELSE FALSE
    /\ UNCHANGED <<gatewayVars, redisVars, hubVars, wjob, leaked, pollVars, failures, ended, lost,
                   pushed>>

\* The final status of a job.
Finish(k, status) ==
    /\ jobStatus' = [jobStatus EXCEPT ![wjob[k]] = status]
    /\ ended' = ended \cup {wjob[k]}
    /\ wjob' = [wjob EXCEPT ![k] = NoJob]

Complete(k) ==
    /\ WorkerAt(k, "complete", "idle")
    /\ Finish(k, "completed")
    /\ UNCHANGED <<gatewayVars, jobs, waits, cmds, hubVars, lockVars, pollVars, failures, readied,
                   lost, pushed>>

\* _enqueue_source_error_status; its own failure is logged.
MarkSourceFailed(k) ==
    /\ WorkerAt(k, "skip", "fail")
    /\ \/ Send(SourceCmd(SourceOf[wjob[k]], "failed")) /\ UNCHANGED failures
       \/ Fails /\ UNCHANGED cmds
    /\ UNCHANGED <<gatewayVars, redisVars, hubVars, wjob, lockVars, pollVars, pushed, readied,
                   ended, lost>>

FailJob(k) ==
    /\ WorkerAt(k, "fail", "idle")
    /\ Finish(k, "failed")
    /\ UNCHANGED <<gatewayVars, jobs, waits, cmds, hubVars, lockVars, pollVars, failures, readied,
                   lost, pushed>>

\* The threads that hold the lock by hand or by a finally block.
HoldsLock(k) == wpc[k] \in {"root", "indexing", "docs", "ready"} /\ kind[wjob[k]] # "file"

Raising == WorkerPC \ {"idle", "skip", "fail", "dead"}

\* Mutant: no finally block.
RaiseHoldingLock(k) ==
    /\ wpc[k] \in Raising
    /\ Fails
    /\ wpc' = [wpc EXCEPT ![k] = "fail"]
    /\ UNCHANGED <<gatewayVars, redisVars, cmds, hubVars, wjob, lockVars, pollVars, readied,
                   ended, lost, pushed>>

\* Mutant: the exception is logged and the job forgotten.
RaiseLogged(k) ==
    /\ wpc[k] \in Raising
    /\ Fails
    /\ wpc' = [wpc EXCEPT ![k] = "idle"]
    /\ wjob' = [wjob EXCEPT ![k] = NoJob]
    /\ locked' = IF HoldsLock(k) THEN FALSE ELSE locked
    /\ UNCHANGED <<gatewayVars, redisVars, cmds, hubVars, leaked, fresh, pollVars, readied,
                   ended, lost, pushed>>

\* A Redis error, a locked hub database, a file that cannot be read: the finally
\* block releases the lock and "except Exception" fails the job, not the source.
\* The lookup of a new source's folder is before the try of that block: when it
\* raises anything but ValueError and FileNotFoundError (a PermissionError, an
\* OSError of a mount that is gone), the lock stays taken.
Raise(k) ==
    /\ wpc[k] \in Raising
    /\ Fails
    /\ wpc' = [wpc EXCEPT ![k] = "fail"]
    /\ locked' = IF HoldsLock(k) /\ wpc[k] # "root" THEN FALSE ELSE locked
    /\ leaked' = (leaked \/ wpc[k] = "root")
    /\ UNCHANGED <<gatewayVars, redisVars, cmds, hubVars, wjob, fresh, pollVars, readied, ended,
                   lost, pushed>>

\* A Redis error in BRPOP or in the status written by the except block leaves
\* the thread's loop: the task is gone, the process stays up.
WorkerDies(k) ==
    /\ wpc[k] \in {"idle", "fail"}
    /\ Fails
    /\ wpc' = [wpc EXCEPT ![k] = "dead"]
    /\ wjob' = [wjob EXCEPT ![k] = NoJob]
    /\ lost' = lost \cup ({wjob[k]} \ {NoJob})
    /\ UNCHANGED <<gatewayVars, redisVars, cmds, hubVars, lockVars, pollVars, pushed, readied,
                   ended>>

WorkerStep(k) ==
    \/ Dequeue(k) \/ SetRunning(k) \/ ReadSource(k) \/ Requeue(k) \/ SetRequeued(k)
    \/ Enter(k) \/ ValidateRoot(k) \/ FindNothing(k) \/ SendIndexing(k) \/ SendDocuments(k) \/ SendReady(k)
    \/ Complete(k) \/ MarkSourceFailed(k) \/ FailJob(k)
-----------------------------------------------------------------------------
(* run_auto_sync_poll: one source of one cycle *)

\* A cycle starts when the list is empty, but jobs may come before it gets to the
\* source.  The row and its documents are read before the lock is tried.
PollSource(s) ==
    /\ poller.pc = "idle"
    /\ polls < MaxPolls[kind]
    /\ polls' = polls + 1
    /\ ~locked
    /\ Active(s)
    /\ FolderSource(s)
    /\ poller' = [pc |-> "enter", source |-> s, status |-> row[s], existing |-> s \in documents]
    /\ UNCHANGED <<gatewayVars, redisVars, cmds, hubVars, workerVars, lockVars, historyVars>>

PollEnter ==
    /\ poller.pc = "enter"
    /\ \/ /\ locked
          /\ poller' = NotPolling
          /\ UNCHANGED locked
       \/ /\ ~locked
          /\ poller' = [poller EXCEPT !.pc = "decide"]
          /\ locked' = TRUE
    /\ UNCHANGED <<gatewayVars, redisVars, cmds, hubVars, workerVars, leaked, fresh, polls,
                   historyVars>>

\* The folder cannot be listed, or its fingerprint is the last one, or its files
\* are those of the documents: a row that was read as "indexing" is recovered in
\* the last case only.
PollNothingToDo ==
    /\ poller.pc = "decide"
    /\ poller' = NotPolling
    /\ locked' = FALSE
    /\ \/ UNCHANGED <<cmds, fresh>>
       \/ /\ poller.source \notin fresh
          /\ poller.existing
          /\ fresh' = fresh \cup {poller.source}
          /\ IF poller.status = "indexing"
             THEN Send(SourceCmd(poller.source, "ready"))
             ELSE UNCHANGED cmds
    /\ UNCHANGED <<gatewayVars, redisVars, hubVars, workerVars, leaked, polls, historyVars>>

PollIndexing ==
    /\ poller.pc = "decide"
    /\ poller.source \notin fresh
    /\ poller' = [poller EXCEPT !.pc = "docs"]
    /\ Send(SourceCmd(poller.source, "indexing"))
    /\ UNCHANGED <<gatewayVars, redisVars, hubVars, workerVars, lockVars, polls, historyVars>>

PollDocuments ==
    /\ poller.pc = "docs"
    /\ poller' = [poller EXCEPT !.pc = "ready"]
    /\ Send(DocsCmd(poller.source)) \/ UNCHANGED cmds
    /\ UNCHANGED <<gatewayVars, redisVars, hubVars, workerVars, lockVars, polls, historyVars>>

PollReady ==
    /\ poller.pc = "ready"
    /\ poller' = NotPolling
    /\ Send(SourceCmd(poller.source, "ready"))
    /\ fresh' = fresh \cup {poller.source}
    /\ locked' = FALSE
    /\ UNCHANGED <<gatewayVars, redisVars, hubVars, workerVars, leaked, polls, historyVars>>

\* Mutant: an early return past the finally block.
PollFailsHoldingLock ==
    /\ poller.pc \in {"decide", "docs", "ready"}
    /\ Fails
    /\ poller' = NotPolling
    /\ UNCHANGED <<gatewayVars, redisVars, cmds, hubVars, workerVars, lockVars, polls, readied,
                   ended, lost, pushed>>

\* Logged; the finally block releases the lock.
PollFails ==
    /\ poller.pc \in {"decide", "docs", "ready"}
    /\ Fails
    /\ poller' = NotPolling
    /\ locked' = FALSE
    /\ UNCHANGED <<gatewayVars, redisVars, cmds, hubVars, workerVars, leaked, fresh, polls, readied,
                   ended, lost, pushed>>

PollStep == PollEnter \/ PollNothingToDo \/ PollIndexing \/ PollDocuments \/ PollReady

\* Seen by a later poll only.
FolderChanges(s) ==
    /\ s \in fresh
    /\ polls < MaxPolls[kind]
    /\ fresh' = fresh \ {s}
    /\ UNCHANGED <<gatewayVars, redisVars, cmds, hubVars, workerVars, locked, leaked, pollVars,
                   historyVars>>

\* The indexer is killed and started again by its supervisor.
IndexerRestarts ==
    /\ Fails
    /\ wpc' = [k \in Worker |-> "idle"]
    /\ wjob' = [k \in Worker |-> NoJob]
    /\ lost' = lost \cup ({wjob[k] : k \in Worker} \ {NoJob})
    /\ poller' = NotPolling
    /\ locked' = FALSE
    /\ leaked' = FALSE
    /\ fresh' = {}
    /\ UNCHANGED <<gatewayVars, redisVars, cmds, hubVars, polls, readied, ended, pushed>>
-----------------------------------------------------------------------------
(* The DB-Writer: write_handlers/knowledge.py *)

\* An upsert: the row is active again whatever it was.
ApplySource(c) ==
    /\ c.op = "source"
    /\ row' = [row EXCEPT ![c.source] = c.status]
    /\ UNCHANGED documents

\* _require_knowledge_source raises when there is no row.
ApplyDocuments(c) ==
    /\ c.op = "documents"
    /\ documents' = IF row[c.source] = "absent" THEN documents ELSE documents \cup {c.source}
    /\ UNCHANGED row

ApplyDeactivate(c) ==
    /\ c.op = "deactivate"
    /\ row' = IF row[c.source] = "absent" THEN row ELSE [row EXCEPT ![c.source] = "inactive"]
    /\ documents' = documents \ {c.source}

ApplyCommand ==
    /\ cmds # <<>>
    /\ ApplySource(Head(cmds)) \/ ApplyDocuments(Head(cmds)) \/ ApplyDeactivate(Head(cmds))
    /\ cmds' = Tail(cmds)
    /\ UNCHANGED <<gatewayVars, redisVars, workerVars, lockVars, pollVars, historyVars>>

\* The hub stays locked past the writer's budget: reported as failed, not retried.
CommandFails ==
    /\ cmds # <<>>
    /\ Fails
    /\ cmds' = Tail(cmds)
    /\ UNCHANGED <<gatewayVars, redisVars, hubVars, workerVars, lockVars, pollVars, readied, ended,
                   lost, pushed>>
-----------------------------------------------------------------------------
Failure ==
    \/ \E j \in Job : RequestFails(j)
    \/ \E k \in Worker : Raise(k) \/ WorkerDies(k)
    \/ PollFails
    \/ IndexerRestarts
    \/ CommandFails

Next ==
    \/ \E j \in Job : GatewayStep(j)
    \/ \E s \in Deletable[kind] : Deactivate(s)
    \/ \E s \in Source : PollSource(s) \/ FolderChanges(s)
    \/ \E k \in Worker : WorkerStep(k)
    \/ PollStep
    \/ ApplyCommand
    \/ Failure

\* A request that has begun goes on, the threads of the indexer run, and the
\* DB-Writer consumes its queue.  Nobody has to make a request.
Fairness ==
    /\ \A j \in Job : WF_vars(gateway[j] # "new" /\ GatewayStep(j))
    /\ \A k \in Worker : WF_vars(WorkerStep(k))
    /\ WF_vars(PollStep)
    /\ WF_vars(ApplyCommand)

Spec == Init /\ [][Next]_vars
FairSpec == Spec /\ Fairness
-----------------------------------------------------------------------------
(* Properties *)

\* Every variable has its type.
TypeOK ==
    /\ kind \in Requests
    /\ gateway \in [Job -> GatewayPC]
    /\ seen \in [Job -> JobStatus]
    /\ jobs \in Seq(Job)
    /\ waits \in [Job -> 0..MaxWait]
    /\ jobStatus \in [Job -> JobStatus]
    /\ cmds \in Seq(Command)
    /\ row \in [Source -> SourceStatus \cup {"absent", "inactive"}]
    /\ documents \in SUBSET Source
    /\ wpc \in [Worker -> WorkerPC]
    /\ wjob \in [Worker -> Job \cup {NoJob}]
    /\ poller \in [pc : PollerPC, source : Source \cup {NoSource},
                   status : SourceStatus \cup {"none"}, existing : BOOLEAN]
    /\ locked \in BOOLEAN
    /\ leaked \in BOOLEAN
    /\ fresh \in SUBSET Source
    /\ polls \in 0..MaxPolls[kind]
    /\ failures \in 0..MaxFailures
    /\ pushed \in SUBSET Job
    /\ readied \in SUBSET Job
    /\ ended \in SUBSET Job
    /\ lost \in SUBSET Job

\* The lock is never shared, and there is one way to leak it: it is taken exactly
\* while one thread, a worker or the poller, indexes folders or uploads, or since an
\* exception in the lookup of a new source's folder, after which nobody has it.
LockMatchesHolder ==
    Cardinality({k \in Worker : HoldsLock(k)})
      + (IF poller.pc \in {"decide", "docs", "ready"} THEN 1 ELSE 0)
      + (IF leaked THEN 1 ELSE 0)
    = (IF locked THEN 1 ELSE 0)

\* A job is never worked on twice at a time: it is once in the list or in the
\* hands of one worker.
OneCopyOfJob ==
    \A j \in Job :
        Occurrences(jobs, j) + Cardinality({k \in Worker : wjob[k] = j /\ wpc[k] \in Working}) <= 1

\* A job that was pushed is in the list, with a worker, ended, or lost with one.
JobAccounted ==
    \A j \in pushed :
        Has(jobs, j) \/ j \in ended \cup lost \/ \E k \in Worker : wjob[k] = j

\* The job list as the gateway sees it: a job is handed over when it is pushed, and
\* done when it has a final status.
Promise == INSTANCE Delivery WITH
    Work <- Job,
    accepted <- pushed,
    kept <- {j \in Job : Has(jobs, j) \/ \E k \in Worker : wjob[k] = j},
    done <- ended,
    lost <- lost

\* From the push on the list or a worker holds the job until it has a final status
\* or is on record as lost with its worker, and only jobs that were pushed are
\* worked on: BRPOP, the retries and the requeues never let one slip.
Delivers == Promise!Spec

\* A poll that reads "completed" may rely on the source: its "ready" command was
\* sent, whatever the gateway's late progress update writes over.
CompletedMeansReadied == \A j \in Job : jobStatus[j] = "completed" => j \in readied

\* The row of a source is in the hub before documents are sent for it, so the
\* writer never rejects them, even when the worker's own "indexing" is lost.
DocumentsFindRow ==
    \A i \in 1..Len(cmds) : cmds[i].op = "documents" => row[cmds[i].source] # "absent"

\* The jobs that were pushed end, however often one is put back for a source without
\* a row or for a lock that another thread has, but for those lost with their worker;
\* unless every worker is gone, or the lock was leaked and the indexer not restarted.
EventuallyEnded ==
    []<>(\/ pushed \subseteq ended \cup lost
         \/ leaked
         \/ \A k \in Worker : wpc[k] = "dead")

\* _enqueue_source_error_status: "para no dejar INDEXANDO colgado".  No source is
\* shown as being indexed for ever.
NotStuckIndexing == \A s \in Source : []<>(row[s] # "indexing")
=============================================================================
