------------------------- MODULE KnowledgeSync_proofs -------------------------
(***************************************************************************)
(* For any sources, requests, jobs and worker threads, and any number of   *)
(* polls and failures: a job is worked on once at a time and never         *)
(* forgotten, the lock of the indexer has one holder, or none when it is   *)
(* free or was leaked by the lookup of a folder, and no document is sent   *)
(* before its source has a row.                                            *)
(***************************************************************************)
EXTENDS KnowledgeSync, SequenceTheorems, FiniteSetTheorems, FunctionTheorems, TLAPS

-----------------------------------------------------------------------------
(* The Redis lists *)

\* LPUSH: the new list holds the pushed message and what it held before.
LEMMA LPushFacts ==
    ASSUME NEW S, NEW list \in Seq(S), NEW m \in S
    PROVE  /\ LPush(list, m) \in Seq(S)
           /\ Len(LPush(list, m)) = Len(list) + 1
           /\ LPush(<<>>, m) = <<m>>
           /\ \A x : Has(LPush(list, m), x) <=> x = m \/ Has(list, x)
<1>1. /\ LPush(list, m) \in Seq(S)
      /\ Len(LPush(list, m)) = Len(list) + 1
      /\ LPush(<<>>, m) = <<m>>
  BY DEF LPush
<1>2. /\ LPush(list, m)[1] = m
      /\ \A i \in 1..Len(list) : LPush(list, m)[i + 1] = list[i]
  BY DEF LPush
<1>3. ASSUME NEW x, Has(LPush(list, m), x)
      PROVE  x = m \/ Has(list, x)
  <2>1. PICK i \in 1..(Len(list) + 1) : LPush(list, m)[i] = x
    BY <1>1, <1>3 DEF Has
  <2>2. CASE i = 1
    BY <2>1, <2>2, <1>2
  <2>3. CASE i # 1
    <3>1. i - 1 \in 1..Len(list) /\ (i - 1) + 1 = i
      BY <2>3
    <3>2. list[i - 1] = x
      BY <3>1, <2>1, <1>2
    <3> QED
      BY <3>1, <3>2 DEF Has
  <2> QED
    BY <2>2, <2>3
<1>4. ASSUME NEW x, x = m \/ Has(list, x)
      PROVE  Has(LPush(list, m), x)
  <2>1. CASE x = m
    BY <2>1, <1>1, <1>2 DEF Has
  <2>2. CASE Has(list, x)
    <3>1. PICK i \in 1..Len(list) : list[i] = x
      BY <2>2 DEF Has
    <3>2. LPush(list, m)[i + 1] = x /\ i + 1 \in 1..(Len(list) + 1)
      BY <3>1, <1>2
    <3> QED
      BY <3>2, <1>1 DEF Has
  <2> QED
    BY <1>4, <2>1, <2>2
<1> QED
  BY <1>1, <1>3, <1>4

\* RPUSH: the same of the other end.
LEMMA RPushFacts ==
    ASSUME NEW S, NEW list \in Seq(S), NEW m \in S
    PROVE  /\ RPush(list, m) \in Seq(S)
           /\ \A x : Has(RPush(list, m), x) <=> x = m \/ Has(list, x)
<1>1. /\ RPush(list, m) \in Seq(S)
      /\ Len(RPush(list, m)) = Len(list) + 1
      /\ RPush(list, m)[Len(list) + 1] = m
      /\ \A i \in 1..Len(list) : RPush(list, m)[i] = list[i]
  BY DEF RPush
<1>2. Len(list) \in Nat
  OBVIOUS
<1>3. \A i \in 1..(Len(list) + 1) : i = Len(list) + 1 \/ i \in 1..Len(list)
  BY <1>2
<1>4. Len(list) + 1 \in 1..(Len(list) + 1) /\ \A i \in 1..Len(list) : i \in 1..(Len(list) + 1)
  BY <1>2
<1>5. ASSUME NEW x
      PROVE  Has(RPush(list, m), x) <=> x = m \/ Has(list, x)
  BY <1>1, <1>3, <1>4 DEF Has
<1> QED
  BY <1>1, <1>5

\* RPOP: the list holds what it held before, but for the message returned.
LEMMA RPopFacts ==
    ASSUME NEW S, NEW list \in Seq(S), list # <<>>
    PROVE  /\ RightEnd(list) \in S
           /\ WithoutRightEnd(list) \in Seq(S)
           /\ Len(WithoutRightEnd(list)) = Len(list) - 1
           /\ \A x : Has(list, x) <=> x = RightEnd(list) \/ Has(WithoutRightEnd(list), x)
<1>1. Len(list) \in Nat /\ Len(list) >= 1
  OBVIOUS
<1>2. /\ RightEnd(list) \in S
      /\ WithoutRightEnd(list) \in Seq(S)
      /\ Len(WithoutRightEnd(list)) = Len(list) - 1
      /\ \A i \in 1..(Len(list) - 1) : WithoutRightEnd(list)[i] = list[i]
  <2>1. 1 \in Int /\ Len(list) - 1 \in Int /\ \A i \in 1..(Len(list) - 1) : list[i] \in S
    BY <1>1
  <2>2. /\ SubSeq(list, 1, Len(list) - 1) \in Seq(S)
        /\ Len(SubSeq(list, 1, Len(list) - 1)) =
              IF 1 <= Len(list) - 1 THEN Len(list) - 1 - 1 + 1 ELSE 0
        /\ \A i \in 1..(Len(list) - 1 - 1 + 1) :
              SubSeq(list, 1, Len(list) - 1)[i] = list[1 + i - 1]
    BY <2>1, SubSeqProperties
  <2>3. RightEnd(list) \in S
    BY <1>1 DEF RightEnd
  <2>4. Len(WithoutRightEnd(list)) = Len(list) - 1
    <3> DEFINE n == Len(list)
               l == Len(SubSeq(list, 1, n - 1))
    <3>1. n \in Nat /\ n >= 1
      BY <1>1
    <3>2. l = IF 1 <= n - 1 THEN n - 1 - 1 + 1 ELSE 0
      BY <2>2
    <3>3. l = Len(WithoutRightEnd(list))
      BY DEF WithoutRightEnd
    <3> HIDE DEF n, l
    <3>4. l = n - 1
      BY <3>1, <3>2
    <3> QED
      BY <3>3, <3>4 DEF n
  <2>5. ASSUME NEW i \in 1..(Len(list) - 1)
        PROVE  WithoutRightEnd(list)[i] = list[i]
    <3>1. i \in 1..(Len(list) - 1 - 1 + 1) /\ 1 + i - 1 = i
      BY <1>1
    <3> QED
      BY <3>1, <2>2 DEF WithoutRightEnd
  <2> QED
    BY <2>2, <2>3, <2>4, <2>5 DEF WithoutRightEnd
<1>3. ASSUME NEW x
      PROVE  Has(list, x) <=> x = RightEnd(list) \/ Has(WithoutRightEnd(list), x)
  <2>1. Has(list, x) <=> (list[Len(list)] = x \/ \E i \in 1..(Len(list) - 1) : list[i] = x)
    BY <1>1 DEF Has
  <2> QED
    BY <1>2, <2>1 DEF Has, RightEnd
<1> QED
  BY <1>2, <1>3

\* An element is in a list once, if at all.
Once(list, x) == \A i, j \in 1..Len(list) : list[i] = x /\ list[j] = x => i = j

\* LPUSH of what the list did not hold, and RPOP, make no second copy.
LEMMA OnceFacts ==
    ASSUME NEW S, NEW list \in Seq(S)
    PROVE  /\ \A m \in S : \A x : Once(list, x) /\ (x # m \/ ~Has(list, x)) => Once(LPush(list, m), x)
           /\ list # <<>> => \A x : Once(list, x) => Once(WithoutRightEnd(list), x)
           /\ list # <<>> => \A x : Once(list, x) /\ x = RightEnd(list)
                                       => ~Has(WithoutRightEnd(list), x)
<1>1. ASSUME NEW m \in S, NEW x, Once(list, x), x # m \/ ~Has(list, x)
      PROVE  Once(LPush(list, m), x)
  <2> DEFINE r == LPush(list, m)
  <2>1. /\ Len(r) = Len(list) + 1 /\ Len(list) \in Nat
        /\ r[1] = m
        /\ \A i \in 2..(Len(list) + 1) : i - 1 \in 1..Len(list) /\ r[i] = list[i - 1]
    BY DEF LPush
  <2> SUFFICES ASSUME NEW i \in 1..Len(r), NEW j \in 1..Len(r), r[i] = x, r[j] = x
               PROVE  i = j
    BY DEF Once
  <2> HIDE DEF r
  <2>2. ASSUME NEW k \in 1..Len(r), r[k] = x, k # 1
        PROVE  k - 1 \in 1..Len(list) /\ list[k - 1] = x /\ k = (k - 1) + 1
    BY <2>1, <2>2
  <2>3. CASE x = m
    <3>1. ~Has(list, x)
      BY <1>1, <2>3
    <3>2. i = 1 /\ j = 1
      BY <2>2, <3>1 DEF Has
    <3> QED
      BY <3>2
  <2>4. CASE x # m
    <3>1. i # 1 /\ j # 1
      BY <2>1, <2>4
    <3>2. i - 1 = j - 1
      BY <1>1, <2>2, <3>1 DEF Once
    <3> QED
      BY <2>2, <3>1, <3>2
  <2> QED
    BY <2>3, <2>4
<1>2. ASSUME list # <<>>
      PROVE  \A x : Once(list, x) => /\ Once(WithoutRightEnd(list), x)
                                     /\ x = RightEnd(list) => ~Has(WithoutRightEnd(list), x)
  <2>1. /\ Len(WithoutRightEnd(list)) = Len(list) - 1 /\ Len(list) \in Nat
        /\ \A i \in 1..(Len(list) - 1) : WithoutRightEnd(list)[i] = list[i]
    BY <1>2, RPopFacts DEF WithoutRightEnd
  <2>2. /\ Len(list) \in 1..Len(list)
        /\ \A i \in 1..(Len(list) - 1) : i \in 1..Len(list) /\ i # Len(list)
    BY <1>2, <2>1
  <2> QED
    BY <2>1, <2>2 DEF Once, Has, RightEnd
<1> QED
  BY <1>1, <1>2

\* An element that is in a list once is counted once.
LEMMA OccurrencesFacts ==
    ASSUME NEW S, NEW list \in Seq(S), NEW x, Once(list, x)
    PROVE  Occurrences(list, x) = IF Has(list, x) THEN 1 ELSE 0
<1> DEFINE at == {i \in 1..Len(list) : list[i] = x}
<1>1. CASE Has(list, x)
  <2>1. PICK i \in 1..Len(list) : at = {i}
    BY <1>1 DEF Has, Once
  <2> QED
    BY <1>1, <2>1, FS_Singleton DEF Occurrences
<1>2. CASE ~Has(list, x)
  <2>1. at = {}
    BY <1>2 DEF Has
  <2> QED
    BY <1>2, <2>1, FS_EmptySet DEF Occurrences
<1> QED
  BY <1>1, <1>2

-----------------------------------------------------------------------------
(* The inductive invariant *)

\* The commands that are sent.
SentCommand ==
    {SourceCmd(s, status) : s \in Source, status \in SourceStatus}
        \cup {DocsCmd(s) : s \in Source} \cup {DeactivateCmd(s) : s \in Source}

\* The jobs, in the gateway, in Redis and in the threads: a thread has one while it
\* works.
JobTypes ==
    /\ kind \in Requests
    /\ gateway \in [Job -> GatewayPC]
    /\ seen \in [Job -> JobStatus]
    /\ jobs \in Seq(Job)
    /\ waits \in [Job -> 0..MaxWait]
    /\ jobStatus \in [Job -> JobStatus]
    /\ wpc \in [Worker -> WorkerPC]
    /\ wjob \in [Worker -> Job \cup {NoJob}]
    /\ \A k \in Worker : IF wpc[k] \in {"idle", "dead"} THEN wjob[k] = NoJob ELSE wjob[k]
         \in Job

\* The commands and the hub.
HubTypes ==
    /\ cmds \in Seq(SentCommand)
    /\ row \in [Source -> SourceStatus \cup {"absent", "inactive"}]
    /\ documents \in SUBSET Source

\* The poller, its lock and its memory.
PollTypes ==
    /\ poller \in [pc : PollerPC, source : Source \cup {NoSource},
                   status : SourceStatus \cup {"none"}, existing : BOOLEAN]
    /\ poller.pc # "idle" => poller.source \in Source
    /\ locked \in BOOLEAN
    /\ leaked \in BOOLEAN
    /\ fresh \in SUBSET Source
    /\ polls \in 0..MaxPolls[kind]

HistoryTypes ==
    /\ failures \in 0..MaxFailures
    /\ pushed \in SUBSET Job
    /\ readied \in SUBSET Job
    /\ ended \in SUBSET Job
    /\ lost \in SUBSET Job

\* A job is in the list or with one worker, and in neither before its request
\* has pushed it.
Works(k, j) == wjob[k] = j /\ wpc[k] \in Working
CopyOK(j) ==
    /\ Once(jobs, j)
    /\ \A k, l \in Worker : Works(k, j) /\ Works(l, j) => k = l
    /\ Has(jobs, j) => \A k \in Worker : ~Works(k, j)
    /\ gateway[j] \in {"new", "push"} => ~Has(jobs, j) /\ \A k \in Worker : ~Works(k, j)
OneCopy == \A j \in Job : CopyOK(j)

\* A job is with a worker that has not put it back yet, or is accounted for.
Handles(k, j) == wjob[k] = j /\ wpc[k] # "requeued"
Kept ==
    \A j \in pushed :
        \/ Has(jobs, j) \/ j \in ended \cup lost
        \/ \E k \in Worker : Handles(k, j)

\* The lock has one holder, and none when it is free or leaked.
PollHolds == poller.pc \in {"decide", "docs", "ready"}
OneHolder ==
    /\ \A k \in Worker : wpc[k] \in {"root", "indexing"} => kind[wjob[k]] # "file"
    /\ \A k, l \in Worker : HoldsLock(k) /\ HoldsLock(l) => k = l
    /\ \A k \in Worker : HoldsLock(k) => ~PollHolds
    /\ leaked => ~PollHolds /\ \A k \in Worker : ~HoldsLock(k)
    /\ locked <=> leaked \/ PollHolds \/ \E k \in Worker : HoldsLock(k)

\* "completed" is written by a worker that has sent "ready", and by a gateway
\* that had read it.
Readied ==
    \A j \in Job :
        /\ jobStatus[j] = "completed" \/ seen[j] = "completed" => j \in readied
        /\ \A k \in Worker : wjob[k] = j /\ wpc[k] = "complete" => j \in readied

\* Whoever may send documents has found the row, and rows stay.
HasRow(s) == row[s] # "absent"
RowsFound ==
    /\ \A s \in Source : Has(cmds, DocsCmd(s)) => HasRow(s)
    /\ \A k \in Worker : wpc[k] \in {"enter", "root", "indexing", "docs", "ready",
         "complete", "skip"}
                             => HasRow(SourceOf[wjob[k]])
    /\ poller.pc # "idle" => HasRow(poller.source)

\* What the other parts take for granted.
Typed == JobTypes /\ HubTypes /\ PollTypes /\ HistoryTypes
KnowledgeIInv == Typed /\ OneCopy /\ Kept /\ OneHolder /\ Readied /\ RowsFound
-----------------------------------------------------------------------------
(* Every step keeps the types *)

\* What the proofs need of the constants.
LEMMA ConstantFacts ==
    /\ SourceOf \in [Job -> Source]
    /\ NoJob \notin Job /\ NoSource \notin Source
    /\ MaxWait \in Nat /\ MaxFailures \in Nat
    /\ \A kinds \in Requests : Deletable[kinds] \subseteq Source /\ MaxPolls[kinds] \in Nat
  BY KnowledgeAssumption

\* The commands and their fields.
LEMMA CommandFacts ==
    /\ \A s \in Source, status \in SourceStatus : SourceCmd(s, status) \in SentCommand
    /\ \A s \in Source : DocsCmd(s) \in SentCommand /\ DeactivateCmd(s) \in SentCommand
    /\ \A c \in SentCommand :
          /\ c \in Command /\ c.source \in Source
          /\ c.op = "source" => c.status \in SourceStatus
          /\ c.op = "documents" => c = DocsCmd(c.source)
    /\ \A s, t \in Source, status \in SourceStatus :
          DocsCmd(s) # SourceCmd(t, status) /\ DocsCmd(s) # DeactivateCmd(t)
    /\ \A s, t \in Source : DocsCmd(s) = DocsCmd(t) => s = t
<1>1. /\ \A s \in Source, status \in SourceStatus : SourceCmd(s, status) \in SentCommand
      /\ \A s \in Source : DocsCmd(s) \in SentCommand /\ DeactivateCmd(s) \in SentCommand
  BY DEF SentCommand
<1>2. ASSUME NEW c \in SentCommand
      PROVE  /\ c \in Command /\ c.source \in Source
             /\ c.op = "source" => c.status \in SourceStatus
             /\ c.op = "documents" => c = DocsCmd(c.source)
  <2>1. ASSUME NEW s \in Source, NEW status \in SourceStatus, c = SourceCmd(s, status)
        PROVE  c \in Command /\ c.source \in Source /\ c.op = "source" /\ c.status \in
             SourceStatus
    BY <2>1 DEF SourceCmd, Command
  <2>2. ASSUME NEW s \in Source, c = DocsCmd(s)
        PROVE  c \in Command /\ c.op = "documents" /\ c.source = s
    BY <2>2 DEF DocsCmd, Command
  <2>3. ASSUME NEW s \in Source, c = DeactivateCmd(s)
        PROVE  c \in Command /\ c.op = "deactivate" /\ c.source = s
    BY <2>3 DEF DeactivateCmd, Command
  <2> QED
    BY <2>1, <2>2, <2>3 DEF SentCommand
<1>3. /\ \A s, t \in Source, status \in SourceStatus :
            DocsCmd(s) # SourceCmd(t, status) /\ DocsCmd(s) # DeactivateCmd(t)
      /\ \A s, t \in Source : DocsCmd(s) = DocsCmd(t) => s = t
  <2>1. \A s \in Source : DocsCmd(s).op = "documents" /\ DocsCmd(s).source = s
    BY DEF DocsCmd
  <2>2. \A s \in Source, status \in SourceStatus : SourceCmd(s, status).op = "source"
    BY DEF SourceCmd
  <2>3. \A s \in Source : DeactivateCmd(s).op = "deactivate"
    BY DEF DeactivateCmd
  <2> QED
    BY <2>1, <2>2, <2>3
<1> QED
  BY <1>1, <1>2, <1>3

\* A command that is sent is the last one of those on their way.
LEMMA SendFacts ==
    ASSUME cmds \in Seq(SentCommand), NEW c \in SentCommand, Send(c)
    PROVE  /\ cmds' \in Seq(SentCommand)
           /\ \A x : Has(cmds', x) <=> x = c \/ Has(cmds, x)
<1>1. cmds' = RPush(cmds, c)
  BY DEF Send, RPush
<1> QED
  BY <1>1, RPushFacts

\* A job that is pushed is the only one that is new to the list.
LEMMA PushFacts ==
    ASSUME jobs \in Seq(Job), NEW j \in Job, jobs' = LPush(jobs, j)
    PROVE  /\ \A i \in Job : Has(jobs', i) <=> i = j \/ Has(jobs, i)
           /\ \A i \in Job : Once(jobs, i) /\ (i # j \/ ~Has(jobs, i)) => Once(jobs', i)
<1>1. \A x : Has(LPush(jobs, j), x) <=> x = j \/ Has(jobs, x)
  BY LPushFacts
<1>2. \A x : Once(jobs, x) /\ (x # j \/ ~Has(jobs, x)) => Once(LPush(jobs, j), x)
  BY OnceFacts
<1>3. \A x : Has(jobs', x) <=> x = j \/ Has(jobs, x)
  BY <1>1
<1> QED
  BY <1>2, <1>3

\* The command that is applied or given up is the first one.
LEMMA HeadFacts ==
    ASSUME cmds \in Seq(SentCommand), cmds # <<>>
    PROVE  /\ Head(cmds) \in SentCommand /\ Has(cmds, Head(cmds))
           /\ Tail(cmds) \in Seq(SentCommand)
           /\ \A x : Has(Tail(cmds), x) => Has(cmds, x)
<1>1. /\ Len(cmds) \in Nat /\ Len(cmds) >= 1 /\ Head(cmds) = cmds[1]
      /\ Tail(cmds) \in Seq(SentCommand) /\ Len(Tail(cmds)) = Len(cmds) - 1
      /\ \A i \in 1..(Len(cmds) - 1) : Tail(cmds)[i] = cmds[i + 1] /\ i + 1 \in
           1..Len(cmds)
  OBVIOUS
<1> QED
  BY <1>1 DEF Has

\* One case per action: the jobs.
LEMMA JobTypesStep == JobTypes /\ [Next]_vars => JobTypes'
<1> SUFFICES ASSUME JobTypes, [Next]_vars PROVE JobTypes'
  OBVIOUS
<1> USE ConstantFacts
    DEF JobTypes, GatewayPC, WorkerPC, Working, JobStatus, gatewayVars, redisVars,
        hubVars, workerVars, lockVars, pollVars, historyVars
<1>0. ASSUME NEW k \in Worker, ValidateRoot(k)
      PROVE  JobTypes'
  BY <1>0 DEF ValidateRoot, WorkerAt
<1>1. ASSUME NEW j \in Job, RegisterSource(j)
      PROVE  JobTypes'
  BY <1>1 DEF RegisterSource, GatewayAt, Send
<1>2. ASSUME NEW j \in Job, RequestSync(j)
      PROVE  JobTypes'
  BY <1>2 DEF RequestSync, GatewayAt
<1>3. ASSUME NEW j \in Job, PushJob(j)
      PROVE  JobTypes'
  BY <1>3, LPushFacts DEF PushJob, GatewayAt
<1>4. ASSUME NEW j \in Job, SetQueued(j)
      PROVE  JobTypes'
  BY <1>4 DEF SetQueued, GatewayAt
<1>5. ASSUME NEW j \in Job, ReadProgress(j)
      PROVE  JobTypes'
  BY <1>5 DEF ReadProgress, GatewayAt
<1>6. ASSUME NEW j \in Job, WriteProgress(j)
      PROVE  JobTypes'
  BY <1>6 DEF WriteProgress, GatewayAt, Progressed
<1>7. ASSUME NEW j \in Job, AnnounceIndexing(j)
      PROVE  JobTypes'
  BY <1>7 DEF AnnounceIndexing, GatewayAt, Send
<1>8. ASSUME NEW j \in Job, RequestFails(j)
      PROVE  JobTypes'
  BY <1>8 DEF RequestFails, Fails
<1>9. ASSUME NEW k \in Worker, Dequeue(k)
      PROVE  JobTypes'
  BY <1>9, RPopFacts DEF Dequeue, WorkerAt
<1>10. ASSUME NEW k \in Worker, SetRunning(k)
      PROVE  JobTypes'
  BY <1>10 DEF SetRunning, WorkerAt
<1>11. ASSUME NEW k \in Worker, ReadSource(k)
      PROVE  JobTypes'
  <2>1. wjob[k] \in Job
    BY <1>11 DEF ReadSource, WorkerAt
  <2>2. PICK to \in {"enter", "requeue", "fail"} : wpc' = [wpc EXCEPT ![k] = to]
    BY <1>11 DEF ReadSource, WorkerAt
  <2>3. waits' \in [Job -> 0..MaxWait] /\ UNCHANGED <<kind, gateway, seen, jobs,
       jobStatus, wjob>>
    BY <1>11, <2>1 DEF ReadSource, WorkerAt
  <2>4. wpc[k] \notin {"idle", "dead"}
    BY <1>11 DEF ReadSource, WorkerAt
  <2> QED
    BY <2>1, <2>2, <2>3, <2>4
<1>12. ASSUME NEW k \in Worker, Requeue(k)
      PROVE  JobTypes'
  BY <1>12, LPushFacts DEF Requeue, WorkerAt
<1>13. ASSUME NEW k \in Worker, SetRequeued(k)
      PROVE  JobTypes'
  BY <1>13 DEF SetRequeued, WorkerAt
<1>14. ASSUME NEW k \in Worker, Enter(k)
      PROVE  JobTypes'
  <2>1. wjob[k] \in Job
    BY <1>14 DEF Enter, WorkerAt
  <2>2. PICK to \in {"docs", "root", "indexing", "requeue"} : wpc' = [wpc EXCEPT ![k] = to]
    BY <1>14 DEF Enter, WorkerAt
  <2>3. UNCHANGED <<kind, gateway, seen, jobs, waits, jobStatus, wjob>>
    BY <1>14, <2>1 DEF Enter, WorkerAt
  <2>4. wpc[k] \notin {"idle", "dead"}
    BY <1>14 DEF Enter, WorkerAt
  <2> QED
    BY <2>1, <2>2, <2>3, <2>4
<1>15. ASSUME NEW k \in Worker, FindNothing(k)
      PROVE  JobTypes'
  <2>1. wjob[k] \in Job
    BY <1>15 DEF FindNothing, WorkerAt
  <2>2. PICK to \in {"skip"} : wpc' = [wpc EXCEPT ![k] = to]
    BY <1>15 DEF FindNothing, WorkerAt
  <2>3. UNCHANGED <<kind, gateway, seen, jobs, waits, jobStatus, wjob>>
    BY <1>15, <2>1 DEF FindNothing, WorkerAt
  <2>4. wpc[k] \notin {"idle", "dead"}
    BY <1>15 DEF FindNothing, WorkerAt
  <2> QED
    BY <2>1, <2>2, <2>3, <2>4
<1>16. ASSUME NEW k \in Worker, SendIndexing(k)
      PROVE  JobTypes'
  BY <1>16 DEF SendIndexing, WorkerAt, Send
<1>17. ASSUME NEW k \in Worker, SendDocuments(k)
      PROVE  JobTypes'
  BY <1>17 DEF SendDocuments, WorkerAt, Send, Progressed
<1>18. ASSUME NEW k \in Worker, SendReady(k)
      PROVE  JobTypes'
  BY <1>18 DEF SendReady, WorkerAt, Send
<1>19. ASSUME NEW k \in Worker, Complete(k)
      PROVE  JobTypes'
  BY <1>19 DEF Complete, WorkerAt, Finish
<1>20. ASSUME NEW k \in Worker, MarkSourceFailed(k)
      PROVE  JobTypes'
  BY <1>20 DEF MarkSourceFailed, WorkerAt, Send, Fails
<1>21. ASSUME NEW k \in Worker, FailJob(k)
      PROVE  JobTypes'
  BY <1>21 DEF FailJob, WorkerAt, Finish
<1>22. ASSUME NEW k \in Worker, Raise(k)
      PROVE  JobTypes'
  BY <1>22 DEF Raise, Raising, WorkerPC, Working, Fails, HoldsLock
<1>23. ASSUME NEW k \in Worker, WorkerDies(k)
      PROVE  JobTypes'
  BY <1>23 DEF WorkerDies, Fails
<1>24. CASE IndexerRestarts
  BY <1>24 DEF IndexerRestarts, NotPolling, Fails
<1>25. CASE \/ \E s \in Deletable[kind] : Deactivate(s)
            \/ \E s \in Source : PollSource(s) \/ FolderChanges(s)
            \/ PollEnter \/ PollNothingToDo \/ PollIndexing \/ PollDocuments \/
                  PollReady \/ PollFails \/ ApplyCommand \/ CommandFails
            \/ UNCHANGED vars
  <2>1. UNCHANGED <<kind, gateway, seen, jobs, waits, jobStatus, wpc, wjob>>
    BY <1>25 DEF Deactivate, Send, PollSource, NotPolling, FolderChanges, PollEnter,
       PollNothingToDo, PollIndexing, PollDocuments, PollReady, PollFails, Fails,
       ApplyCommand, ApplySource, ApplyDocuments, ApplyDeactivate, CommandFails, vars
  <2> QED
    BY <2>1
<1> QED
  BY <1>0, <1>1, <1>2, <1>3, <1>4, <1>5, <1>6, <1>7, <1>8, <1>9, <1>10, <1>11, <1>12, <1>13,
     <1>14, <1>15, <1>16, <1>17, <1>18, <1>19, <1>20, <1>21, <1>22, <1>23, <1>24, <1>25
     DEF Next, GatewayStep, WorkerStep, PollStep, Failure

\* One case per action: the commands and the hub.
LEMMA HubTypesStep == Typed /\ [Next]_vars => HubTypes'
<1> SUFFICES ASSUME Typed, [Next]_vars PROVE HubTypes'
  OBVIOUS
<1> USE ConstantFacts, CommandFacts
    DEF Typed, JobTypes, PollTypes, HubTypes, SourceStatus, gatewayVars, redisVars,
        hubVars, workerVars, lockVars, pollVars, historyVars
<1>1. ASSUME NEW j \in Job, RegisterSource(j)
      PROVE  HubTypes'
  BY <1>1, SendFacts DEF RegisterSource, GatewayAt
<1>2. ASSUME NEW j \in Job, AnnounceIndexing(j)
      PROVE  HubTypes'
  BY <1>2, SendFacts DEF AnnounceIndexing, GatewayAt
<1>3. ASSUME NEW s \in Deletable[kind], Deactivate(s)
      PROVE  HubTypes'
  BY <1>3, SendFacts DEF Deactivate
<1>4. ASSUME NEW k \in Worker, SendIndexing(k)
      PROVE  HubTypes'
  BY <1>4, SendFacts DEF SendIndexing, WorkerAt
<1>5. ASSUME NEW k \in Worker, SendDocuments(k)
      PROVE  HubTypes'
  BY <1>5, SendFacts DEF SendDocuments, WorkerAt, Progressed
<1>6. ASSUME NEW k \in Worker, SendReady(k)
      PROVE  HubTypes'
  BY <1>6, SendFacts DEF SendReady, WorkerAt
<1>7. ASSUME NEW k \in Worker, MarkSourceFailed(k)
      PROVE  HubTypes'
  BY <1>7, SendFacts DEF MarkSourceFailed, WorkerAt, Fails
<1>8. CASE PollNothingToDo
  BY <1>8, SendFacts DEF PollNothingToDo, NotPolling
<1>9. CASE PollIndexing
  BY <1>9, SendFacts DEF PollIndexing
<1>10. CASE PollDocuments
  BY <1>10, SendFacts DEF PollDocuments
<1>11. CASE PollReady
  BY <1>11, SendFacts DEF PollReady, NotPolling
<1>12. CASE ApplyCommand
  <2>1. /\ Head(cmds) \in SentCommand /\ cmds' = Tail(cmds) /\ cmds' \in Seq(SentCommand)
        /\ Head(cmds).source \in Source
    BY <1>12, HeadFacts DEF ApplyCommand
  <2>2. CASE ApplySource(Head(cmds))
    <3>1. Head(cmds).status \in SourceStatus
      BY <2>1, <2>2 DEF ApplySource
    <3> QED
      BY <2>1, <2>2, <3>1 DEF ApplySource
  <2>3. CASE ApplyDocuments(Head(cmds))
    BY <2>1, <2>3 DEF ApplyDocuments
  <2>4. CASE ApplyDeactivate(Head(cmds))
    BY <2>1, <2>4 DEF ApplyDeactivate
  <2> QED
    BY <1>12, <2>2, <2>3, <2>4 DEF ApplyCommand
<1>13. CASE CommandFails
  BY <1>13, HeadFacts DEF CommandFails, Fails
<1>14. CASE \/ \E j \in Job : RequestSync(j) \/ PushJob(j) \/ SetQueued(j) \/
                  ReadProgress(j) \/ WriteProgress(j) \/ RequestFails(j)
            \/ \E s \in Source : PollSource(s) \/ FolderChanges(s)
            \/ \E k \in Worker : Dequeue(k) \/ SetRunning(k) \/ ReadSource(k) \/
                  Requeue(k) \/ SetRequeued(k) \/ Enter(k) \/ ValidateRoot(k) \/ FindNothing(k) \/
                  Complete(k) \/ FailJob(k) \/ Raise(k) \/ WorkerDies(k)
            \/ PollEnter \/ PollFails \/ IndexerRestarts
            \/ UNCHANGED vars
  <2>1. UNCHANGED <<cmds, row, documents>>
    BY <1>14 DEF RequestSync, GatewayAt, PushJob, SetQueued, ReadProgress,
       WriteProgress, Progressed, RequestFails, Fails, PollSource, NotPolling,
       FolderChanges, Dequeue, WorkerAt, SetRunning, ReadSource, Requeue, SetRequeued,
       Enter, ValidateRoot, FindNothing, Complete, Finish, FailJob, Raise, Raising, HoldsLock,
       WorkerDies, PollEnter, PollFails, IndexerRestarts, vars
  <2> QED
    BY <2>1
<1> QED
  BY <1>1, <1>2, <1>3, <1>4, <1>5, <1>6, <1>7, <1>8, <1>9, <1>10, <1>11, <1>12, <1>13,
     <1>14 DEF Next, GatewayStep, WorkerStep, PollStep, Failure

\* No step changes what is requested.
LEMMA KindStep == [Next]_vars => kind' = kind
  BY DEF Next, GatewayStep, WorkerStep, PollStep, Failure, vars, gatewayVars, GatewayAt,
     RegisterSource, RequestSync, PushJob, SetQueued, ReadProgress, WriteProgress,
     AnnounceIndexing, RequestFails, Deactivate, PollSource, FolderChanges, Dequeue,
     SetRunning, ReadSource, Requeue, SetRequeued, Enter, ValidateRoot, FindNothing,
     SendIndexing, SendDocuments, SendReady, Complete, MarkSourceFailed, FailJob, Raise,
     WorkerDies, PollEnter, PollNothingToDo, PollIndexing, PollDocuments, PollReady,
     PollFails, IndexerRestarts, ApplyCommand, CommandFails

\* One case per action: the poller.
LEMMA PollTypesStep == Typed /\ [Next]_vars => PollTypes'
<1> SUFFICES ASSUME Typed, [Next]_vars PROVE PollTypes'
  OBVIOUS
<1>0. kind' = kind /\ MaxPolls[kind] \in Nat
  BY ConstantFacts, KindStep DEF Typed, JobTypes
<1> USE ConstantFacts
    DEF Typed, HubTypes, PollTypes, PollerPC, gatewayVars, redisVars, hubVars,
        workerVars, lockVars, pollVars, historyVars
<1>1. ASSUME NEW s \in Source, PollSource(s)
      PROVE  PollTypes'
  BY <1>0, <1>1 DEF PollSource, Active, SourceStatus
<1>2. ASSUME NEW s \in Source, FolderChanges(s)
      PROVE  PollTypes'
  BY <1>0, <1>2 DEF FolderChanges
<1>3. ASSUME NEW k \in Worker, Enter(k)
      PROVE  PollTypes'
  BY <1>0, <1>3 DEF Enter, WorkerAt
<1>4. ASSUME NEW k \in Worker, FindNothing(k)
      PROVE  PollTypes'
  BY <1>0, <1>4 DEF FindNothing, WorkerAt
<1>5. ASSUME NEW k \in Worker, SendReady(k)
      PROVE  PollTypes'
  <2>1. SourceOf[wjob[k]] \in Source
    BY <1>0, <1>5 DEF SendReady, WorkerAt, JobTypes
  <2>2. /\ fresh' \in SUBSET Source /\ locked' \in BOOLEAN
        /\ UNCHANGED <<poller, polls, leaked>>
    BY <1>5, <2>1 DEF SendReady
  <2> QED
    BY <1>0, <2>2
<1>6. ASSUME NEW k \in Worker, Raise(k)
      PROVE  PollTypes'
  BY <1>0, <1>6 DEF Raise
<1>7. CASE PollEnter
  <2>1. CASE poller' = NotPolling /\ UNCHANGED locked
    BY <1>0, <1>7, <2>1 DEF PollEnter, NotPolling
  <2>2. CASE poller' = [poller EXCEPT !.pc = "decide"] /\ locked' = TRUE
    BY <1>0, <1>7, <2>2 DEF PollEnter
  <2> QED
    BY <1>7, <2>1, <2>2 DEF PollEnter
<1>8. CASE PollNothingToDo
  BY <1>0, <1>8 DEF PollNothingToDo, NotPolling, Send
<1>9. CASE PollIndexing
  BY <1>0, <1>9 DEF PollIndexing, Send
<1>10. CASE PollDocuments
  BY <1>0, <1>10 DEF PollDocuments, Send
<1>11. CASE PollReady
  BY <1>0, <1>11 DEF PollReady, NotPolling, Send
<1>12. CASE PollFails
  BY <1>0, <1>12 DEF PollFails, NotPolling, Fails
<1>13. CASE IndexerRestarts
  BY <1>0, <1>13 DEF IndexerRestarts, NotPolling, Fails
<1>14. CASE \/ \E j \in Job : RegisterSource(j) \/ RequestSync(j) \/ PushJob(j) \/
                  SetQueued(j) \/ ReadProgress(j) \/ WriteProgress(j) \/
                  AnnounceIndexing(j) \/ RequestFails(j)
            \/ \E s \in Deletable[kind] : Deactivate(s)
            \/ \E k \in Worker : Dequeue(k) \/ SetRunning(k) \/ ReadSource(k) \/
                  Requeue(k) \/ SetRequeued(k) \/ ValidateRoot(k) \/ SendIndexing(k)
                  \/ SendDocuments(k) \/ Complete(k) \/ MarkSourceFailed(k) \/ FailJob(k) \/ WorkerDies(k)
            \/ ApplyCommand \/ CommandFails
            \/ UNCHANGED vars
  <2>1. UNCHANGED <<poller, locked, leaked, fresh, polls>>
    BY <1>0, <1>14 DEF RegisterSource, GatewayAt, Send, RequestSync, PushJob, SetQueued,
       ReadProgress, WriteProgress, Progressed, AnnounceIndexing, RequestFails, Fails,
       Deactivate, Dequeue, WorkerAt, SetRunning, ReadSource, Requeue, SetRequeued,
       ValidateRoot, SendIndexing, SendDocuments, Complete, Finish, MarkSourceFailed, FailJob,
       WorkerDies, ApplyCommand, ApplySource, ApplyDocuments, ApplyDeactivate,
       CommandFails, vars
  <2> QED
    BY <1>0, <2>1
<1> QED
  BY <1>1, <1>2, <1>3, <1>4, <1>5, <1>6, <1>7, <1>8, <1>9, <1>10, <1>11, <1>12, <1>13,
     <1>14 DEF Next, GatewayStep, WorkerStep, PollStep, Failure

\* One case per action: the histories.
LEMMA HistoryTypesStep == Typed /\ [Next]_vars => HistoryTypes'
<1> SUFFICES ASSUME Typed, [Next]_vars PROVE HistoryTypes'
  OBVIOUS
<1> USE ConstantFacts
    DEF Typed, JobTypes, HistoryTypes, gatewayVars, redisVars, hubVars, workerVars,
        lockVars, pollVars, historyVars
<1>1. ASSUME NEW j \in Job, PushJob(j)
      PROVE  HistoryTypes'
  BY <1>1 DEF PushJob, GatewayAt
<1>2. ASSUME NEW j \in Job, RequestFails(j)
      PROVE  HistoryTypes'
  BY <1>2 DEF RequestFails, Fails
<1>3. ASSUME NEW k \in Worker, SendReady(k)
      PROVE  HistoryTypes'
  BY <1>3 DEF SendReady, WorkerAt, Send
<1>4. ASSUME NEW k \in Worker, Complete(k)
      PROVE  HistoryTypes'
  BY <1>4 DEF Complete, WorkerAt, Finish
<1>5. ASSUME NEW k \in Worker, MarkSourceFailed(k)
      PROVE  HistoryTypes'
  BY <1>5 DEF MarkSourceFailed, WorkerAt, Send, Fails
<1>6. ASSUME NEW k \in Worker, FailJob(k)
      PROVE  HistoryTypes'
  BY <1>6 DEF FailJob, WorkerAt, Finish
<1>7. ASSUME NEW k \in Worker, Raise(k)
      PROVE  HistoryTypes'
  BY <1>7 DEF Raise, Raising, WorkerPC, Working, Fails, HoldsLock
<1>8. ASSUME NEW k \in Worker, WorkerDies(k)
      PROVE  HistoryTypes'
  BY <1>8 DEF WorkerDies, Fails
<1>9. CASE PollFails
  BY <1>9 DEF PollFails, NotPolling, Fails
<1>10. CASE IndexerRestarts
  BY <1>10 DEF IndexerRestarts, NotPolling, Fails
<1>11. CASE CommandFails
  BY <1>11 DEF CommandFails, Fails
<1>12. CASE \/ \E j \in Job : RegisterSource(j) \/ RequestSync(j) \/ SetQueued(j)
                  \/ ReadProgress(j) \/ WriteProgress(j) \/ AnnounceIndexing(j)
            \/ \E s \in Deletable[kind] : Deactivate(s)
            \/ \E s \in Source : PollSource(s) \/ FolderChanges(s)
            \/ \E k \in Worker : Dequeue(k) \/ SetRunning(k) \/ ReadSource(k) \/
                  Requeue(k) \/ SetRequeued(k) \/ Enter(k) \/ ValidateRoot(k) \/ FindNothing(k) \/
                  SendIndexing(k) \/ SendDocuments(k)
            \/ PollEnter \/ PollNothingToDo \/ PollIndexing \/ PollDocuments \/
                  PollReady \/ ApplyCommand
            \/ UNCHANGED vars
  <2>1. UNCHANGED <<failures, pushed, readied, ended, lost>>
    BY <1>12 DEF RegisterSource, GatewayAt, Send, RequestSync, SetQueued, ReadProgress,
       WriteProgress, Progressed, AnnounceIndexing, Deactivate, PollSource, NotPolling,
       FolderChanges, Dequeue, WorkerAt, SetRunning, ReadSource, Requeue, SetRequeued,
       Enter, ValidateRoot, FindNothing, SendIndexing, SendDocuments, PollEnter, PollNothingToDo,
       PollIndexing, PollDocuments, PollReady, ApplyCommand, ApplySource,
       ApplyDocuments, ApplyDeactivate, vars
  <2> QED
    BY <2>1
<1> QED
  BY <1>1, <1>2, <1>3, <1>4, <1>5, <1>6, <1>7, <1>8, <1>9, <1>10, <1>11, <1>12 DEF Next,
     GatewayStep, WorkerStep, PollStep, Failure
-----------------------------------------------------------------------------
(* A job has one copy and is never forgotten *)

\* One case per action: a job has one copy.
LEMMA OneCopyStep == JobTypes /\ OneCopy /\ [Next]_vars => OneCopy'
<1> SUFFICES ASSUME JobTypes, OneCopy, [Next]_vars PROVE OneCopy'
  OBVIOUS
<1> USE ConstantFacts
    DEF JobTypes, OneCopy, CopyOK, gatewayVars, redisVars, hubVars, workerVars,
        lockVars, pollVars, historyVars
<1>0. ASSUME NEW k \in Worker, ValidateRoot(k)
      PROVE  OneCopy'
  BY <1>0 DEF ValidateRoot, WorkerAt, Works, Working
<1>1. ASSUME NEW j \in Job, RegisterSource(j)
      PROVE  OneCopy'
  BY <1>1 DEF RegisterSource, GatewayAt, Send, Works, Working
<1>2. ASSUME NEW j \in Job, RequestSync(j)
      PROVE  OneCopy'
  BY <1>2 DEF RequestSync, GatewayAt, Works, Working
<1>3. ASSUME NEW j \in Job, PushJob(j)
      PROVE  OneCopy'
  <2>1. ~Has(jobs, j) /\ \A k \in Worker : ~Works(k, j)
    BY <1>3 DEF PushJob, GatewayAt
  <2>2. \A i \in Job : Once(jobs', i) /\ (Has(jobs', i) <=> i = j \/ Has(jobs, i))
    BY <1>3, <2>1, PushFacts DEF PushJob
  <2>3. \A k \in Worker, i \in Job : Works(k, i)' <=> Works(k, i)
    BY <1>3 DEF PushJob, Works
  <2>4. \A i \in Job : gateway'[i] = IF i = j THEN "queued" ELSE gateway[i]
    BY <1>3 DEF PushJob, GatewayAt
  <2>5. ASSUME NEW i \in Job
        PROVE  CopyOK(i)'
    <3>1. CASE i = j
      BY <2>1, <2>2, <2>3, <2>4, <3>1
    <3>2. CASE i # j
      BY <2>2, <2>3, <2>4, <3>2
    <3> QED
      BY <3>1, <3>2
  <2> QED
    BY <2>5
<1>4. ASSUME NEW j \in Job, SetQueued(j)
      PROVE  OneCopy'
  BY <1>4 DEF SetQueued, GatewayAt, Works, Working
<1>5. ASSUME NEW j \in Job, ReadProgress(j)
      PROVE  OneCopy'
  BY <1>5 DEF ReadProgress, GatewayAt, Works, Working
<1>6. ASSUME NEW j \in Job, WriteProgress(j)
      PROVE  OneCopy'
  BY <1>6 DEF WriteProgress, GatewayAt, Progressed, Works, Working
<1>7. ASSUME NEW j \in Job, AnnounceIndexing(j)
      PROVE  OneCopy'
  BY <1>7 DEF AnnounceIndexing, GatewayAt, Send, Works, Working
<1>8. ASSUME NEW j \in Job, RequestFails(j)
      PROVE  OneCopy'
  BY <1>8 DEF RequestFails, Fails, Works, Working
<1>9. ASSUME NEW k \in Worker, Dequeue(k)
      PROVE  OneCopy'
  <2> DEFINE job == RightEnd(jobs)
  <2>1. /\ job \in Job /\ Has(jobs, job) /\ ~Has(jobs', job)
        /\ \A i \in Job : Once(jobs', i) /\ (Has(jobs', i) => Has(jobs, i))
    BY <1>9, RPopFacts, OnceFacts DEF Dequeue
  <2>2. \A l \in Worker, i \in Job : Works(l, i)' <=> (l = k /\ i = job) \/ Works(l, i)
    BY <1>9, <2>1 DEF Dequeue, WorkerAt, Works, Working
  <2>3. UNCHANGED gateway
    BY <1>9 DEF Dequeue
  <2> HIDE DEF job
  <2> QED
    BY <2>1, <2>2, <2>3
<1>10. ASSUME NEW k \in Worker, SetRunning(k)
      PROVE  OneCopy'
  BY <1>10 DEF SetRunning, WorkerAt, Works, Working
<1>11. ASSUME NEW k \in Worker, ReadSource(k)
      PROVE  OneCopy'
  <2>1. \A l \in Worker, i \in Job : Works(l, i)' => Works(l, i)
    BY <1>11 DEF ReadSource, WorkerAt, Works, Working
  <2> QED
    BY <1>11, <2>1 DEF ReadSource
<1>12. ASSUME NEW k \in Worker, Requeue(k)
      PROVE  OneCopy'
  <2>1. wjob[k] \in Job /\ Works(k, wjob[k])
    BY <1>12 DEF Requeue, WorkerAt, Works, Working
  <2>2. ~Has(jobs, wjob[k])
    BY <2>1
  <2>3. \A i \in Job : Once(jobs', i) /\ (Has(jobs', i) <=> i = wjob[k] \/ Has(jobs, i))
    BY <1>12, <2>1, <2>2, PushFacts DEF Requeue
  <2>4. \A l \in Worker, i \in Job : Works(l, i)' <=> l # k /\ Works(l, i)
    BY <1>12 DEF Requeue, WorkerAt, Works, Working
  <2>5. UNCHANGED gateway
    BY <1>12 DEF Requeue
  <2> QED
    BY <2>1, <2>3, <2>4, <2>5
<1>13. ASSUME NEW k \in Worker, SetRequeued(k)
      PROVE  OneCopy'
  BY <1>13 DEF SetRequeued, WorkerAt, Works, Working
<1>14. ASSUME NEW k \in Worker, Enter(k)
      PROVE  OneCopy'
  <2>1. \A l \in Worker, i \in Job : Works(l, i)' <=> Works(l, i)
    <3>1. PICK to \in {"docs", "root", "indexing", "requeue"} : wpc' = [wpc EXCEPT ![k] = to]
      BY <1>14 DEF Enter, WorkerAt
    <3>2. wpc[k] = "enter" /\ wjob' = wjob
      BY <1>14 DEF Enter
    <3> QED
      BY <3>1, <3>2 DEF Works, Working
  <2> QED
    BY <1>14, <2>1 DEF Enter
<1>15. ASSUME NEW k \in Worker, FindNothing(k)
      PROVE  OneCopy'
  BY <1>15 DEF FindNothing, WorkerAt, Works, Working
<1>16. ASSUME NEW k \in Worker, SendIndexing(k)
      PROVE  OneCopy'
  BY <1>16 DEF SendIndexing, WorkerAt, Send, Works, Working
<1>17. ASSUME NEW k \in Worker, SendDocuments(k)
      PROVE  OneCopy'
  BY <1>17 DEF SendDocuments, WorkerAt, Send, Progressed, Works, Working
<1>18. ASSUME NEW k \in Worker, SendReady(k)
      PROVE  OneCopy'
  BY <1>18 DEF SendReady, WorkerAt, Send, Works, Working
<1>19. ASSUME NEW k \in Worker, Complete(k)
      PROVE  OneCopy'
  BY <1>19 DEF Complete, WorkerAt, Finish, Works, Working
<1>20. ASSUME NEW k \in Worker, MarkSourceFailed(k)
      PROVE  OneCopy'
  BY <1>20 DEF MarkSourceFailed, WorkerAt, Send, Fails, Works, Working
<1>21. ASSUME NEW k \in Worker, FailJob(k)
      PROVE  OneCopy'
  BY <1>21 DEF FailJob, WorkerAt, Finish, Works, Working
<1>22. ASSUME NEW k \in Worker, Raise(k)
      PROVE  OneCopy'
  BY <1>22 DEF Raise, Raising, WorkerPC, Working, Fails, HoldsLock, Works, Working
<1>23. ASSUME NEW k \in Worker, WorkerDies(k)
      PROVE  OneCopy'
  BY <1>23 DEF WorkerDies, Fails, Works, Working
<1>24. CASE IndexerRestarts
  BY <1>24 DEF IndexerRestarts, NotPolling, Fails, Works, Working
<1>25. CASE \/ \E s \in Deletable[kind] : Deactivate(s)
            \/ \E s \in Source : PollSource(s) \/ FolderChanges(s)
            \/ PollEnter \/ PollNothingToDo \/ PollIndexing \/ PollDocuments \/
                  PollReady \/ PollFails \/ ApplyCommand \/ CommandFails
            \/ UNCHANGED vars
  <2>1. UNCHANGED <<jobs, wpc, wjob, gateway>>
    BY <1>25 DEF Deactivate, Send, PollSource, NotPolling, FolderChanges, PollEnter,
       PollNothingToDo, PollIndexing, PollDocuments, PollReady, PollFails, Fails,
       ApplyCommand, ApplySource, ApplyDocuments, ApplyDeactivate, CommandFails, vars
  <2> QED
    BY <2>1 DEF Works, Working
<1> QED
  BY <1>0, <1>1, <1>2, <1>3, <1>4, <1>5, <1>6, <1>7, <1>8, <1>9, <1>10, <1>11, <1>12, <1>13,
     <1>14, <1>15, <1>16, <1>17, <1>18, <1>19, <1>20, <1>21, <1>22, <1>23, <1>24, <1>25
     DEF Next, GatewayStep, WorkerStep, PollStep, Failure

\* One case per action: a job that was pushed is accounted for.
LEMMA KeptStep == Typed /\ Kept /\ [Next]_vars => Kept'
<1> SUFFICES ASSUME Typed, Kept, [Next]_vars PROVE Kept'
  OBVIOUS
<1> USE ConstantFacts
    DEF Typed, JobTypes, HistoryTypes, Kept, gatewayVars, redisVars, hubVars,
        workerVars, lockVars, pollVars, historyVars
<1>0. ASSUME NEW k \in Worker, ValidateRoot(k)
      PROVE  Kept'
  BY <1>0 DEF ValidateRoot, WorkerAt, Handles
<1>1. ASSUME NEW j \in Job, PushJob(j)
      PROVE  Kept'
  <2>1. \A i \in Job : Has(jobs', i) <=> i = j \/ Has(jobs, i)
    BY <1>1, PushFacts DEF PushJob
  <2> QED
    BY <1>1, <2>1 DEF PushJob, GatewayAt, Handles
<1>2. ASSUME NEW k \in Worker, Dequeue(k)
      PROVE  Kept'
  <2>1. \A i \in Job : Has(jobs, i) => i = RightEnd(jobs) \/ Has(jobs', i)
    BY <1>2, RPopFacts DEF Dequeue
  <2>2. \A l \in Worker, i \in Job : Handles(l, i) => Handles(l, i)'
    BY <1>2 DEF Dequeue, WorkerAt, Handles
  <2>4. UNCHANGED <<pushed, ended, lost>>
    BY <1>2 DEF Dequeue
  <2>5. ASSUME NEW i \in pushed
        PROVE  Has(jobs', i) \/ i \in ended \cup lost \/ \E l \in Worker : Handles(l, i)'
    <3>1. CASE i = RightEnd(jobs)
      BY <1>2, <3>1 DEF Dequeue, WorkerAt, Handles
    <3>2. CASE i # RightEnd(jobs)
      BY <2>1, <2>2, <2>5, <3>2
    <3> QED
      BY <3>1, <3>2
  <2> QED
    BY <2>4, <2>5
<1>3. ASSUME NEW k \in Worker, SetRunning(k)
      PROVE  Kept'
  BY <1>3 DEF SetRunning, WorkerAt, Handles
<1>4. ASSUME NEW k \in Worker, ReadSource(k)
      PROVE  Kept'
  BY <1>4 DEF ReadSource, WorkerAt, Handles
<1>5. ASSUME NEW k \in Worker, Requeue(k)
      PROVE  Kept'
  <2>1. \A i \in Job : Has(jobs', i) <=> i = wjob[k] \/ Has(jobs, i)
    <3>1. wjob[k] \in Job
      BY <1>5 DEF Requeue, WorkerAt
    <3> QED
      BY <1>5, <3>1, PushFacts DEF Requeue
  <2>2. \A l \in Worker, i \in Job : Handles(l, i) => Handles(l, i)' \/ i = wjob[k]
    BY <1>5 DEF Requeue, WorkerAt, Handles
  <2>3. UNCHANGED <<pushed, ended, lost>>
    BY <1>5 DEF Requeue
  <2> QED
    BY <2>1, <2>2, <2>3
<1>6. ASSUME NEW k \in Worker, SetRequeued(k)
      PROVE  Kept'
  BY <1>6 DEF SetRequeued, WorkerAt, Handles
<1>7. ASSUME NEW k \in Worker, Enter(k)
      PROVE  Kept'
  BY <1>7 DEF Enter, WorkerAt, Handles
<1>8. ASSUME NEW k \in Worker, FindNothing(k)
      PROVE  Kept'
  BY <1>8 DEF FindNothing, WorkerAt, Handles
<1>9. ASSUME NEW k \in Worker, SendIndexing(k)
      PROVE  Kept'
  BY <1>9 DEF SendIndexing, WorkerAt, Send, Handles
<1>10. ASSUME NEW k \in Worker, SendDocuments(k)
      PROVE  Kept'
  BY <1>10 DEF SendDocuments, WorkerAt, Send, Progressed, Handles
<1>11. ASSUME NEW k \in Worker, SendReady(k)
      PROVE  Kept'
  BY <1>11 DEF SendReady, WorkerAt, Send, Handles
<1>12. ASSUME NEW k \in Worker, Complete(k)
      PROVE  Kept'
  BY <1>12 DEF Complete, WorkerAt, Finish, Handles
<1>13. ASSUME NEW k \in Worker, MarkSourceFailed(k)
      PROVE  Kept'
  BY <1>13 DEF MarkSourceFailed, WorkerAt, Send, Fails, Handles
<1>14. ASSUME NEW k \in Worker, FailJob(k)
      PROVE  Kept'
  BY <1>14 DEF FailJob, WorkerAt, Finish, Handles
<1>15. ASSUME NEW k \in Worker, Raise(k)
      PROVE  Kept'
  BY <1>15 DEF Raise, Raising, WorkerPC, Working, Fails, HoldsLock, Handles
<1>16. ASSUME NEW k \in Worker, WorkerDies(k)
      PROVE  Kept'
  BY <1>16 DEF WorkerDies, Fails, Handles
<1>17. CASE IndexerRestarts
  BY <1>17 DEF IndexerRestarts, NotPolling, Fails, Handles
<1>18. CASE \/ \E j \in Job : RegisterSource(j) \/ RequestSync(j) \/ SetQueued(j)
                  \/ ReadProgress(j) \/ WriteProgress(j) \/ AnnounceIndexing(j) \/
                  RequestFails(j)
            \/ \E s \in Deletable[kind] : Deactivate(s)
            \/ \E s \in Source : PollSource(s) \/ FolderChanges(s)
            \/ PollEnter \/ PollNothingToDo \/ PollIndexing \/ PollDocuments \/
                  PollReady \/ PollFails \/ ApplyCommand \/ CommandFails
            \/ UNCHANGED vars
  <2>1. UNCHANGED <<pushed, jobs, ended, lost, wjob, wpc>>
    BY <1>18 DEF RegisterSource, GatewayAt, Send, RequestSync, SetQueued, ReadProgress,
       WriteProgress, Progressed, AnnounceIndexing, RequestFails, Fails, Deactivate,
       PollSource, NotPolling, FolderChanges, PollEnter, PollNothingToDo, PollIndexing,
       PollDocuments, PollReady, PollFails, ApplyCommand, ApplySource, ApplyDocuments,
       ApplyDeactivate, CommandFails, vars
  <2> QED
    BY <2>1 DEF Handles
<1> QED
  BY <1>0, <1>1, <1>2, <1>3, <1>4, <1>5, <1>6, <1>7, <1>8, <1>9, <1>10, <1>11, <1>12, <1>13,
     <1>14, <1>15, <1>16, <1>17, <1>18 DEF Next, GatewayStep, WorkerStep, PollStep,
     Failure
-----------------------------------------------------------------------------
(* The lock, the status and the row *)

\* One case per action: the lock has its one holder.
LEMMA OneHolderStep == Typed /\ OneHolder /\ [Next]_vars => OneHolder'
<1> SUFFICES ASSUME Typed, OneHolder, [Next]_vars PROVE OneHolder'
  OBVIOUS
<1> USE ConstantFacts
    DEF Typed, JobTypes, OneHolder, gatewayVars, redisVars, hubVars, workerVars,
        lockVars, pollVars, historyVars
<1>0. ASSUME NEW k \in Worker, ValidateRoot(k)
      PROVE  OneHolder'
  BY <1>0 DEF ValidateRoot, WorkerAt, HoldsLock, PollHolds
<1>1. ASSUME NEW s \in Source, PollSource(s)
      PROVE  OneHolder'
  BY <1>1 DEF PollSource, NotPolling, HoldsLock, PollHolds
<1>2. ASSUME NEW k \in Worker, Dequeue(k)
      PROVE  OneHolder'
  BY <1>2 DEF Dequeue, WorkerAt, HoldsLock, PollHolds
<1>3. ASSUME NEW k \in Worker, SetRunning(k)
      PROVE  OneHolder'
  BY <1>3 DEF SetRunning, WorkerAt, HoldsLock, PollHolds
<1>4. ASSUME NEW k \in Worker, ReadSource(k)
      PROVE  OneHolder'
  <2>1. \A l \in Worker : HoldsLock(l)' <=> HoldsLock(l)
    BY <1>4 DEF ReadSource, WorkerAt, HoldsLock
  <2>2. \A l \in Worker : wpc'[l] \in {"root", "indexing"} => wpc[l] \in {"root", "indexing"}
    BY <1>4 DEF ReadSource, WorkerAt
  <2>3. UNCHANGED <<kind, wjob, locked, leaked, poller>>
    BY <1>4 DEF ReadSource
  <2> QED
    BY <2>1, <2>2, <2>3 DEF PollHolds
<1>5. ASSUME NEW k \in Worker, Requeue(k)
      PROVE  OneHolder'
  BY <1>5 DEF Requeue, WorkerAt, HoldsLock, PollHolds
<1>6. ASSUME NEW k \in Worker, SetRequeued(k)
      PROVE  OneHolder'
  BY <1>6 DEF SetRequeued, WorkerAt, HoldsLock, PollHolds
<1>7. ASSUME NEW k \in Worker, Enter(k)
      PROVE  OneHolder'
  BY <1>7 DEF Enter, WorkerAt, HoldsLock, PollHolds
<1>8. ASSUME NEW k \in Worker, FindNothing(k)
      PROVE  OneHolder'
  <2>1. \A l \in Worker : HoldsLock(l)' <=> l # k /\ HoldsLock(l)
    BY <1>8 DEF FindNothing, WorkerAt, HoldsLock
  <2>2. \A l \in Worker : wpc'[l] \in {"root", "indexing"} => wpc[l] \in {"root", "indexing"}
    BY <1>8 DEF FindNothing, WorkerAt
  <2>3. UNCHANGED <<kind, wjob, leaked, poller>>
    BY <1>8 DEF FindNothing
  <2>4. IF wpc[k] \in {"root", "indexing"} THEN locked' = FALSE /\ HoldsLock(k)
        ELSE UNCHANGED locked /\ ~HoldsLock(k)
    BY <1>8 DEF FindNothing, WorkerAt, HoldsLock
  <2> QED
    BY <2>1, <2>2, <2>3, <2>4 DEF PollHolds
<1>9. ASSUME NEW k \in Worker, SendIndexing(k)
      PROVE  OneHolder'
  BY <1>9 DEF SendIndexing, WorkerAt, Send, HoldsLock, PollHolds
<1>10. ASSUME NEW k \in Worker, SendDocuments(k)
      PROVE  OneHolder'
  BY <1>10 DEF SendDocuments, WorkerAt, Send, Progressed, HoldsLock, PollHolds
<1>11. ASSUME NEW k \in Worker, SendReady(k)
      PROVE  OneHolder'
  BY <1>11 DEF SendReady, WorkerAt, Send, HoldsLock, PollHolds
<1>12. ASSUME NEW k \in Worker, Complete(k)
      PROVE  OneHolder'
  BY <1>12 DEF Complete, WorkerAt, Finish, HoldsLock, PollHolds
<1>13. ASSUME NEW k \in Worker, MarkSourceFailed(k)
      PROVE  OneHolder'
  BY <1>13 DEF MarkSourceFailed, WorkerAt, Send, Fails, HoldsLock, PollHolds
<1>14. ASSUME NEW k \in Worker, FailJob(k)
      PROVE  OneHolder'
  BY <1>14 DEF FailJob, WorkerAt, Finish, HoldsLock, PollHolds
<1>15. ASSUME NEW k \in Worker, Raise(k)
      PROVE  OneHolder'
  BY <1>15 DEF Raise, Raising, WorkerPC, Working, Fails, HoldsLock, PollHolds
<1>16. ASSUME NEW k \in Worker, WorkerDies(k)
      PROVE  OneHolder'
  BY <1>16 DEF WorkerDies, Fails, HoldsLock, PollHolds
<1>17. CASE PollEnter
  <2>1. \A l \in Worker : HoldsLock(l)' <=> HoldsLock(l)
    BY <1>17 DEF PollEnter, HoldsLock
  <2>2. UNCHANGED <<kind, wjob, wpc, leaked>>
    BY <1>17 DEF PollEnter
  <2>3. ~PollHolds /\ IF locked THEN UNCHANGED locked /\ ~PollHolds' ELSE locked' = TRUE
       /\ PollHolds'
    BY <1>17 DEF PollEnter, PollHolds, NotPolling, PollTypes
  <2> QED
    BY <2>1, <2>2, <2>3
<1>18. CASE PollNothingToDo
  BY <1>18 DEF PollNothingToDo, NotPolling, Send, HoldsLock, PollHolds
<1>19. CASE PollIndexing
  BY <1>19 DEF PollIndexing, Send, HoldsLock, PollHolds
<1>20. CASE PollDocuments
  BY <1>20 DEF PollDocuments, Send, HoldsLock, PollHolds
<1>21. CASE PollReady
  BY <1>21 DEF PollReady, NotPolling, Send, HoldsLock, PollHolds
<1>22. CASE PollFails
  BY <1>22 DEF PollFails, NotPolling, Fails, HoldsLock, PollHolds
<1>23. CASE IndexerRestarts
  BY <1>23 DEF IndexerRestarts, NotPolling, Fails, HoldsLock, PollHolds
<1>24. CASE \/ \E j \in Job : RegisterSource(j) \/ RequestSync(j) \/ PushJob(j) \/
                  SetQueued(j) \/ ReadProgress(j) \/ WriteProgress(j) \/
                  AnnounceIndexing(j) \/ RequestFails(j)
            \/ \E s \in Deletable[kind] : Deactivate(s)
            \/ \E s \in Source : FolderChanges(s)
            \/ ApplyCommand \/ CommandFails
            \/ UNCHANGED vars
  <2>1. UNCHANGED <<wpc, wjob, kind, locked, leaked, poller>>
    BY <1>24 DEF RegisterSource, GatewayAt, Send, RequestSync, PushJob, SetQueued,
       ReadProgress, WriteProgress, Progressed, AnnounceIndexing, RequestFails, Fails,
       Deactivate, FolderChanges, ApplyCommand, ApplySource, ApplyDocuments,
       ApplyDeactivate, CommandFails, vars
  <2> QED
    BY <2>1 DEF HoldsLock, PollHolds
<1> QED
  BY <1>0, <1>1, <1>2, <1>3, <1>4, <1>5, <1>6, <1>7, <1>8, <1>9, <1>10, <1>11, <1>12, <1>13,
     <1>14, <1>15, <1>16, <1>17, <1>18, <1>19, <1>20, <1>21, <1>22, <1>23, <1>24 DEF
     Next, GatewayStep, WorkerStep, PollStep, Failure

\* One case per action: "completed" follows the "ready" command.
LEMMA ReadiedStep == JobTypes /\ Readied /\ [Next]_vars => Readied'
<1> SUFFICES ASSUME JobTypes, Readied, [Next]_vars PROVE Readied'
  OBVIOUS
<1> USE ConstantFacts
    DEF JobTypes, Readied, gatewayVars, redisVars, hubVars, workerVars, lockVars,
        pollVars, historyVars
<1>0. ASSUME NEW k \in Worker, ValidateRoot(k)
      PROVE  Readied'
  BY <1>0 DEF ValidateRoot, WorkerAt
<1>1. ASSUME NEW j \in Job, SetQueued(j)
      PROVE  Readied'
  BY <1>1 DEF SetQueued, GatewayAt
<1>2. ASSUME NEW j \in Job, ReadProgress(j)
      PROVE  Readied'
  BY <1>2 DEF ReadProgress, GatewayAt
<1>3. ASSUME NEW j \in Job, WriteProgress(j)
      PROVE  Readied'
  BY <1>3 DEF WriteProgress, GatewayAt, Progressed
<1>4. ASSUME NEW k \in Worker, Dequeue(k)
      PROVE  Readied'
  BY <1>4 DEF Dequeue, WorkerAt
<1>5. ASSUME NEW k \in Worker, SetRunning(k)
      PROVE  Readied'
  BY <1>5 DEF SetRunning, WorkerAt
<1>6. ASSUME NEW k \in Worker, ReadSource(k)
      PROVE  Readied'
  BY <1>6 DEF ReadSource, WorkerAt
<1>7. ASSUME NEW k \in Worker, Requeue(k)
      PROVE  Readied'
  BY <1>7 DEF Requeue, WorkerAt
<1>8. ASSUME NEW k \in Worker, SetRequeued(k)
      PROVE  Readied'
  BY <1>8 DEF SetRequeued, WorkerAt
<1>9. ASSUME NEW k \in Worker, Enter(k)
      PROVE  Readied'
  BY <1>9 DEF Enter, WorkerAt
<1>10. ASSUME NEW k \in Worker, FindNothing(k)
      PROVE  Readied'
  BY <1>10 DEF FindNothing, WorkerAt
<1>11. ASSUME NEW k \in Worker, SendIndexing(k)
      PROVE  Readied'
  BY <1>11 DEF SendIndexing, WorkerAt, Send
<1>12. ASSUME NEW k \in Worker, SendDocuments(k)
      PROVE  Readied'
  BY <1>12 DEF SendDocuments, WorkerAt, Send, Progressed
<1>13. ASSUME NEW k \in Worker, SendReady(k)
      PROVE  Readied'
  BY <1>13 DEF SendReady, WorkerAt, Send
<1>14. ASSUME NEW k \in Worker, Complete(k)
      PROVE  Readied'
  BY <1>14 DEF Complete, WorkerAt, Finish
<1>15. ASSUME NEW k \in Worker, MarkSourceFailed(k)
      PROVE  Readied'
  BY <1>15 DEF MarkSourceFailed, WorkerAt, Send, Fails
<1>16. ASSUME NEW k \in Worker, FailJob(k)
      PROVE  Readied'
  BY <1>16 DEF FailJob, WorkerAt, Finish
<1>17. ASSUME NEW k \in Worker, Raise(k)
      PROVE  Readied'
  BY <1>17 DEF Raise, Raising, WorkerPC, Working, Fails, HoldsLock
<1>18. ASSUME NEW k \in Worker, WorkerDies(k)
      PROVE  Readied'
  BY <1>18 DEF WorkerDies, Fails
<1>19. CASE IndexerRestarts
  BY <1>19 DEF IndexerRestarts, NotPolling, Fails
<1>20. CASE \/ \E j \in Job : RegisterSource(j) \/ RequestSync(j) \/ PushJob(j) \/
                  AnnounceIndexing(j) \/ RequestFails(j)
            \/ \E s \in Deletable[kind] : Deactivate(s)
            \/ \E s \in Source : PollSource(s) \/ FolderChanges(s)
            \/ PollEnter \/ PollNothingToDo \/ PollIndexing \/ PollDocuments \/
                  PollReady \/ PollFails \/ ApplyCommand \/ CommandFails
            \/ UNCHANGED vars
  <2>1. UNCHANGED <<jobStatus, seen, readied, wjob, wpc>>
    BY <1>20 DEF RegisterSource, GatewayAt, Send, RequestSync, PushJob,
       AnnounceIndexing, RequestFails, Fails, Deactivate, PollSource, NotPolling,
       FolderChanges, PollEnter, PollNothingToDo, PollIndexing, PollDocuments,
       PollReady, PollFails, ApplyCommand, ApplySource, ApplyDocuments, ApplyDeactivate,
       CommandFails, vars
  <2> QED
    BY <2>1
<1> QED
  BY <1>0, <1>1, <1>2, <1>3, <1>4, <1>5, <1>6, <1>7, <1>8, <1>9, <1>10, <1>11, <1>12, <1>13,
     <1>14, <1>15, <1>16, <1>17, <1>18, <1>19, <1>20 DEF Next, GatewayStep, WorkerStep,
     PollStep, Failure

\* One case per action: the row is there before the documents.
LEMMA RowsFoundStep == Typed /\ RowsFound /\ [Next]_vars => RowsFound'
<1> SUFFICES ASSUME Typed, RowsFound, [Next]_vars PROVE RowsFound'
  OBVIOUS
<1> USE ConstantFacts, CommandFacts
    DEF Typed, JobTypes, PollTypes, HubTypes, RowsFound, HasRow, gatewayVars, redisVars,
        hubVars, workerVars, lockVars, pollVars, historyVars
<1>0. ASSUME NEW k \in Worker, ValidateRoot(k)
      PROVE  RowsFound'
  BY <1>0 DEF ValidateRoot, WorkerAt
<1>1. ASSUME NEW j \in Job, RegisterSource(j)
      PROVE  RowsFound'
  <2>1. \A s \in Source : Has(cmds', DocsCmd(s)) => HasRow(s)
    BY <1>1, SendFacts DEF RegisterSource, GatewayAt, SourceStatus
  <2> QED
    BY <1>1, <2>1 DEF RegisterSource, GatewayAt
<1>2. ASSUME NEW j \in Job, AnnounceIndexing(j)
      PROVE  RowsFound'
  <2>1. \A s \in Source : Has(cmds', DocsCmd(s)) => HasRow(s)
    BY <1>2, SendFacts DEF AnnounceIndexing, GatewayAt, SourceStatus
  <2> QED
    BY <1>2, <2>1 DEF AnnounceIndexing, GatewayAt
<1>3. ASSUME NEW s \in Deletable[kind], Deactivate(s)
      PROVE  RowsFound'
  <2>1. \A t \in Source : Has(cmds', DocsCmd(t)) => HasRow(t)
    BY <1>3, SendFacts DEF Deactivate, SourceStatus
  <2> QED
    BY <1>3, <2>1 DEF Deactivate
<1>4. ASSUME NEW s \in Source, PollSource(s)
      PROVE  RowsFound'
  BY <1>4 DEF PollSource, Active, SourceStatus
<1>5. ASSUME NEW k \in Worker, Dequeue(k)
      PROVE  RowsFound'
  BY <1>5 DEF Dequeue, WorkerAt
<1>6. ASSUME NEW k \in Worker, SetRunning(k)
      PROVE  RowsFound'
  BY <1>6 DEF SetRunning, WorkerAt
<1>7. ASSUME NEW k \in Worker, ReadSource(k)
      PROVE  RowsFound'
  BY <1>7 DEF ReadSource, WorkerAt, Active, SourceStatus
<1>8. ASSUME NEW k \in Worker, Requeue(k)
      PROVE  RowsFound'
  BY <1>8 DEF Requeue, WorkerAt
<1>9. ASSUME NEW k \in Worker, SetRequeued(k)
      PROVE  RowsFound'
  BY <1>9 DEF SetRequeued, WorkerAt
<1>10. ASSUME NEW k \in Worker, Enter(k)
      PROVE  RowsFound'
  BY <1>10 DEF Enter, WorkerAt
<1>11. ASSUME NEW k \in Worker, FindNothing(k)
      PROVE  RowsFound'
  BY <1>11 DEF FindNothing, WorkerAt
<1>12. ASSUME NEW k \in Worker, SendIndexing(k)
      PROVE  RowsFound'
  <2>1. \A s \in Source : Has(cmds', DocsCmd(s)) => HasRow(s)
    BY <1>12, SendFacts DEF SendIndexing, WorkerAt, SourceStatus
  <2> QED
    BY <1>12, <2>1 DEF SendIndexing, WorkerAt
<1>13. ASSUME NEW k \in Worker, SendDocuments(k)
      PROVE  RowsFound'
  <2>1. \A s \in Source : Has(cmds', DocsCmd(s)) => HasRow(s)
    BY <1>13, SendFacts DEF SendDocuments, WorkerAt, Progressed, SourceStatus
  <2> QED
    BY <1>13, <2>1 DEF SendDocuments, WorkerAt, Progressed
<1>14. ASSUME NEW k \in Worker, SendReady(k)
      PROVE  RowsFound'
  <2>0. SourceOf[wjob[k]] \in Source /\ "ready" \in SourceStatus
    BY <1>14 DEF SendReady, WorkerAt, SourceStatus
  <2>1. \A s \in Source : Has(cmds', DocsCmd(s)) => HasRow(s)
    BY <1>14, <2>0, SendFacts DEF SendReady
  <2> QED
    BY <1>14, <2>1 DEF SendReady, WorkerAt
<1>15. ASSUME NEW k \in Worker, Complete(k)
      PROVE  RowsFound'
  BY <1>15 DEF Complete, WorkerAt, Finish
<1>16. ASSUME NEW k \in Worker, MarkSourceFailed(k)
      PROVE  RowsFound'
  <2>1. \A s \in Source : Has(cmds', DocsCmd(s)) => HasRow(s)
    BY <1>16, SendFacts DEF MarkSourceFailed, WorkerAt, Fails, SourceStatus
  <2> QED
    BY <1>16, <2>1 DEF MarkSourceFailed, WorkerAt, Fails
<1>17. ASSUME NEW k \in Worker, FailJob(k)
      PROVE  RowsFound'
  BY <1>17 DEF FailJob, WorkerAt, Finish
<1>18. ASSUME NEW k \in Worker, Raise(k)
      PROVE  RowsFound'
  BY <1>18 DEF Raise, Raising, WorkerPC, Working, Fails, HoldsLock
<1>19. ASSUME NEW k \in Worker, WorkerDies(k)
      PROVE  RowsFound'
  BY <1>19 DEF WorkerDies, Fails
<1>20. CASE PollEnter
  <2>1. CASE poller' = NotPolling
    BY <1>20, <2>1 DEF PollEnter, NotPolling
  <2>2. CASE poller' = [poller EXCEPT !.pc = "decide"]
    BY <1>20, <2>2 DEF PollEnter
  <2> QED
    BY <1>20, <2>1, <2>2 DEF PollEnter
<1>21. CASE PollNothingToDo
  <2>1. \A s \in Source : Has(cmds', DocsCmd(s)) => HasRow(s)
    BY <1>21, SendFacts DEF PollNothingToDo, NotPolling, SourceStatus
  <2> QED
    BY <1>21, <2>1 DEF PollNothingToDo, NotPolling
<1>22. CASE PollIndexing
  <2>1. \A s \in Source : Has(cmds', DocsCmd(s)) => HasRow(s)
    BY <1>22, SendFacts DEF PollIndexing, SourceStatus
  <2> QED
    BY <1>22, <2>1 DEF PollIndexing
<1>23. CASE PollDocuments
  <2>1. \A s \in Source : Has(cmds', DocsCmd(s)) => HasRow(s)
    BY <1>23, SendFacts DEF PollDocuments, SourceStatus
  <2> QED
    BY <1>23, <2>1 DEF PollDocuments
<1>24. CASE PollReady
  <2>1. \A s \in Source : Has(cmds', DocsCmd(s)) => HasRow(s)
    BY <1>24, SendFacts DEF PollReady, NotPolling, SourceStatus
  <2> QED
    BY <1>24, <2>1 DEF PollReady, NotPolling
<1>25. CASE PollFails
  BY <1>25 DEF PollFails, NotPolling, Fails
<1>26. CASE IndexerRestarts
  BY <1>26 DEF IndexerRestarts, NotPolling, Fails
<1>27. CASE ApplyCommand
  <2>1. /\ Head(cmds) \in SentCommand /\ Head(cmds).source \in Source
        /\ \A s \in Source : Has(cmds', DocsCmd(s)) => Has(cmds, DocsCmd(s))
    BY <1>27, HeadFacts DEF ApplyCommand
  <2>2. \A s \in Source : HasRow(s) => HasRow(s)'
    <3>1. CASE ApplySource(Head(cmds))
      BY <2>1, <3>1 DEF ApplySource, SourceStatus
    <3>2. CASE ApplyDocuments(Head(cmds))
      BY <3>2 DEF ApplyDocuments
    <3>3. CASE ApplyDeactivate(Head(cmds))
      BY <2>1, <3>3 DEF ApplyDeactivate
    <3> QED
      BY <1>27, <3>1, <3>2, <3>3 DEF ApplyCommand
  <2>3. UNCHANGED <<wpc, wjob, poller>>
    BY <1>27 DEF ApplyCommand
  <2> HIDE DEF HasRow
  <2> QED
    BY <2>1, <2>2, <2>3
<1>28. CASE CommandFails
  BY <1>28, HeadFacts DEF CommandFails
<1>29. CASE \/ \E j \in Job : RequestSync(j) \/ PushJob(j) \/ SetQueued(j) \/
                  ReadProgress(j) \/ WriteProgress(j) \/ RequestFails(j)
            \/ \E s \in Source : FolderChanges(s)
            \/ UNCHANGED vars
  <2>1. UNCHANGED <<cmds, row, wpc, wjob, poller>>
    BY <1>29 DEF RequestSync, GatewayAt, PushJob, SetQueued, ReadProgress,
       WriteProgress, Progressed, RequestFails, Fails, FolderChanges, vars
  <2> QED
    BY <2>1
<1> QED
  BY <1>0, <1>1, <1>2, <1>3, <1>4, <1>5, <1>6, <1>7, <1>8, <1>9, <1>10, <1>11, <1>12, <1>13,
     <1>14, <1>15, <1>16, <1>17, <1>18, <1>19, <1>20, <1>21, <1>22, <1>23, <1>24, <1>25,
     <1>26, <1>27, <1>28, <1>29 DEF Next, GatewayStep, WorkerStep, PollStep, Failure
-----------------------------------------------------------------------------
(* Theorems *)

\* The inductive invariant.
THEOREM KnowledgeInvariant == Spec => []KnowledgeIInv
<1>1. Init => KnowledgeIInv
  <2> SUFFICES ASSUME Init PROVE KnowledgeIInv
    OBVIOUS
  <2> USE ConstantFacts DEF Init, NotPolling
  <2>1. jobs \in Seq(Job) /\ cmds \in Seq(Command) /\ cmds \in Seq(SentCommand)
        /\ \A x : ~Has(jobs, x) /\ ~Has(cmds, x) /\ Once(jobs, x)
    BY DEF Has, Once
  <2>2. JobTypes
    BY <2>1 DEF JobTypes, GatewayPC, JobStatus, WorkerPC
  <2>3. HubTypes /\ PollTypes /\ HistoryTypes
    <3>1. row \in [Source -> SourceStatus \cup {"absent", "inactive"}] /\ documents \in
         SUBSET Source
      BY DEF Existing, SourceStatus
    <3>2. PollTypes
      <4>1. poller \in [pc : PollerPC, source : Source \cup {NoSource},
                       status : SourceStatus \cup {"none"}, existing : BOOLEAN]
        BY DEF PollerPC
      <4>2. poller.pc # "idle" => poller.source \in Source
        OBVIOUS
      <4>3. locked \in BOOLEAN /\ leaked \in BOOLEAN /\ fresh \in SUBSET Source
        OBVIOUS
      <4>4. polls \in 0..MaxPolls[kind]
        OBVIOUS
      <4> QED
        BY <4>1, <4>2, <4>3, <4>4 DEF PollTypes
    <3> QED
      BY <2>1, <3>1, <3>2 DEF HubTypes, HistoryTypes
  <2>4. OneCopy /\ Kept /\ OneHolder /\ Readied /\ RowsFound
    BY <2>1 DEF OneCopy, CopyOK, Kept, OneHolder, Readied, RowsFound, Works, Working,
         HoldsLock, PollHolds
  <2> QED
    BY <2>2, <2>3, <2>4 DEF KnowledgeIInv, Typed
<1>2. KnowledgeIInv /\ [Next]_vars => KnowledgeIInv'
  BY JobTypesStep, HubTypesStep, PollTypesStep, HistoryTypesStep, OneCopyStep, KeptStep,
     OneHolderStep, ReadiedStep, RowsFoundStep DEF KnowledgeIInv, Typed
<1> QED
  BY <1>1, <1>2, PTL DEF Spec

\* Every variable of the indexing of a source has its type.
THEOREM KnowledgeTypes == Spec => []TypeOK
<1>1. KnowledgeIInv => TypeOK
  BY CommandFacts DEF KnowledgeIInv, Typed, JobTypes, HubTypes, PollTypes, HistoryTypes,
       TypeOK
<1> QED
  BY <1>1, KnowledgeInvariant, PTL

\* The lock of the indexer has at most one holder, through restarts and on every
\* error path, and it is taken without a holder only since the lookup of a new
\* source's folder raised what its except clause does not name.
THEOREM KnowledgeLockMatchesHolder == Spec => []LockMatchesHolder
<1>1. KnowledgeIInv => LockMatchesHolder
  <2> SUFFICES ASSUME KnowledgeIInv PROVE LockMatchesHolder
    OBVIOUS
  <2> DEFINE holders == {k \in Worker : HoldsLock(k)}
  <2>1. CASE holders = {}
    <3>1. Cardinality(holders) = 0
      BY <2>1, FS_EmptySet
    <3>2. (locked <=> leaked \/ PollHolds) /\ (leaked => ~PollHolds)
      BY <2>1 DEF KnowledgeIInv, OneHolder
    <3>3. locked \in BOOLEAN /\ leaked \in BOOLEAN
      BY DEF KnowledgeIInv, Typed, PollTypes
    <3> QED
      BY <3>1, <3>2, <3>3 DEF LockMatchesHolder, PollHolds
  <2>2. CASE holders # {}
    <3>1. PICK k \in Worker : HoldsLock(k)
      BY <2>2
    <3>2. holders = {k} /\ locked /\ ~PollHolds /\ ~leaked
      BY <3>1 DEF KnowledgeIInv, OneHolder
    <3>3. Cardinality(holders) = 1
      BY <3>2, FS_Singleton
    <3> QED
      BY <3>2, <3>3 DEF LockMatchesHolder, PollHolds
  <2> QED
    BY <2>1, <2>2
<1> QED
  BY <1>1, KnowledgeInvariant, PTL

\* A job is never worked on twice at a time, however often it is put back.
THEOREM KnowledgeOneCopyOfJob == Spec => []OneCopyOfJob
<1>1. KnowledgeIInv => OneCopyOfJob
  <2> SUFFICES ASSUME KnowledgeIInv, NEW j \in Job
               PROVE  Occurrences(jobs, j)
                        + Cardinality({k \in Worker : wjob[k] = j /\ wpc[k] \in Working})
                             <= 1
    BY DEF OneCopyOfJob
  <2> DEFINE workers == {k \in Worker : wjob[k] = j /\ wpc[k] \in Working}
  <2>1. Occurrences(jobs, j) = IF Has(jobs, j) THEN 1 ELSE 0
    BY OccurrencesFacts DEF KnowledgeIInv, Typed, JobTypes, OneCopy, CopyOK
  <2>2. CASE workers = {}
    <3>1. Cardinality(workers) = 0
      BY <2>2, FS_EmptySet
    <3> QED
      BY <2>1, <3>1
  <2>3. CASE workers # {}
    <3>1. PICK k \in Worker : Works(k, j)
      BY <2>3 DEF Works
    <3>2. workers = {k} /\ ~Has(jobs, j)
      BY <3>1 DEF KnowledgeIInv, OneCopy, CopyOK, Works
    <3>3. Cardinality(workers) = 1
      BY <3>2, FS_Singleton
    <3> QED
      BY <2>1, <3>2, <3>3
  <2> QED
    BY <2>2, <2>3
<1> QED
  BY <1>1, KnowledgeInvariant, PTL

\* A job that was pushed is in the list, with a worker, ended or lost with one.
THEOREM KnowledgeJobAccounted == Spec => []JobAccounted
<1>1. KnowledgeIInv => JobAccounted
  BY DEF KnowledgeIInv, Kept, Handles, JobAccounted
<1> QED
  BY <1>1, KnowledgeInvariant, PTL

\* "completed" means that the "ready" command of the job was sent.
THEOREM KnowledgeCompletedMeansReadied == Spec => []CompletedMeansReadied
<1>1. KnowledgeIInv => CompletedMeansReadied
  BY DEF KnowledgeIInv, Readied, CompletedMeansReadied
<1> QED
  BY <1>1, KnowledgeInvariant, PTL

\* The writer never finds documents of a source that has no row.
THEOREM KnowledgeDocumentsFindRow == Spec => []DocumentsFindRow
<1>1. KnowledgeIInv => DocumentsFindRow
  <2> SUFFICES ASSUME KnowledgeIInv, NEW i \in 1..Len(cmds), cmds[i].op = "documents"
               PROVE  row[cmds[i].source] # "absent"
    BY DEF DocumentsFindRow
  <2>1. cmds[i] \in SentCommand
    BY DEF KnowledgeIInv, Typed, HubTypes
  <2>2. cmds[i] = DocsCmd(cmds[i].source) /\ cmds[i].source \in Source
    BY <2>1, CommandFacts DEF Command
  <2>3. Has(cmds, DocsCmd(cmds[i].source))
    BY <2>2 DEF Has
  <2> QED
    BY <2>2, <2>3 DEF KnowledgeIInv, RowsFound, HasRow
<1> QED
  BY <1>1, KnowledgeInvariant, PTL
-----------------------------------------------------------------------------
(* The job list implements Delivery *)

\* A job of which the list or a worker holds a copy.
HeldJob(j) == Has(jobs, j) \/ \E k \in Worker : wjob[k] = j

\* Only what was pushed is held.
HeldWasPushed == \A j \in Job : HeldJob(j) => j \in pushed

\* A step takes up a job that was not held only by pushing it.
LEMMA HeldJobStep ==
    ASSUME Typed, [Next]_vars, NEW j \in Job, HeldJob(j)'
    PROVE  HeldJob(j) \/ PushJob(j)
<1> USE ConstantFacts DEF Typed, JobTypes, HeldJob
<1>1. ASSUME NEW i \in Job, PushJob(i)
      PROVE  HeldJob(j) \/ PushJob(j)
  <2>1. Has(jobs', j) <=> j = i \/ Has(jobs, j)
    BY <1>1, PushFacts DEF PushJob
  <2>2. wjob' = wjob
    BY <1>1 DEF PushJob, workerVars
  <2>3. j = i => PushJob(j)
    BY <1>1
  <2> QED
    BY <2>1, <2>2, <2>3
<1>2. ASSUME NEW k \in Worker, Dequeue(k)
      PROVE  HeldJob(j)
  <2>1. Has(jobs, j) <=> j = RightEnd(jobs) \/ Has(jobs', j)
    BY <1>2, RPopFacts DEF Dequeue
  <2>2. \A l \in Worker : wjob'[l] = j => wjob[l] = j \/ j = RightEnd(jobs)
    BY <1>2 DEF Dequeue
  <2> QED
    BY <2>1, <2>2
<1>3. ASSUME NEW k \in Worker, Requeue(k)
      PROVE  HeldJob(j)
  <2>1. wjob[k] \in Job
    BY <1>3 DEF Requeue, WorkerAt
  <2>2. Has(jobs', j) <=> j = wjob[k] \/ Has(jobs, j)
    BY <1>3, <2>1, PushFacts DEF Requeue
  <2>3. wjob' = wjob
    BY <1>3 DEF Requeue
  <2> QED
    BY <2>2, <2>3
<1>4. CASE IndexerRestarts \/ \E k \in Worker :
               SetRequeued(k) \/ Complete(k) \/ FailJob(k) \/ WorkerDies(k)
  <2>1. jobs' = jobs
    BY <1>4 DEF IndexerRestarts, SetRequeued, Complete, FailJob, WorkerDies, redisVars
  <2>2. \A l \in Worker : wjob'[l] = j => wjob[l] = j
    BY <1>4 DEF IndexerRestarts, SetRequeued, Complete, FailJob, WorkerDies, Finish
  <2> QED
    BY <2>1, <2>2
<1>5. CASE UNCHANGED <<jobs, wjob>>
  BY <1>5
<1>6. \/ \E i \in Job : PushJob(i)
      \/ \E k \in Worker : Dequeue(k) \/ Requeue(k)
      \/ IndexerRestarts
      \/ \E k \in Worker : SetRequeued(k) \/ Complete(k) \/ FailJob(k) \/ WorkerDies(k)
      \/ UNCHANGED <<jobs, wjob>>
  BY DEF Next, GatewayStep, WorkerStep, PollStep, Failure, vars, gatewayVars, redisVars,
     workerVars, RegisterSource, GatewayAt, Send, RequestSync, SetQueued, ReadProgress,
     WriteProgress, AnnounceIndexing, RequestFails, Deactivate, PollSource, FolderChanges,
     SetRunning, ReadSource, Enter, ValidateRoot, FindNothing, SendIndexing, SendDocuments, SendReady,
     MarkSourceFailed, Raise, PollEnter, PollNothingToDo, PollIndexing, PollDocuments,
     PollReady, PollFails, ApplyCommand, CommandFails
<1> QED
  BY <1>1, <1>2, <1>3, <1>4, <1>5, <1>6

\* What a step makes of the outcomes: it pushes a job, ends one, loses some, or
\* leaves the outcomes alone.
LEMMA JobOutcomeStep ==
    ASSUME Typed, HeldWasPushed, [Next]_vars
    PROVE  \/ \E j \in Job : PushJob(j)
           \/ /\ UNCHANGED <<pushed, lost>>
              /\ \E j \in Job : j \in pushed /\ ended' = ended \cup {j}
           \/ /\ UNCHANGED <<pushed, ended>>
              /\ \E W \in SUBSET pushed : lost' = lost \cup W
           \/ UNCHANGED <<pushed, ended, lost>>
<1> DEFINE Ends == /\ UNCHANGED <<pushed, lost>>
                   /\ \E j \in Job : j \in pushed /\ ended' = ended \cup {j}
           Loses == /\ UNCHANGED <<pushed, ended>>
                    /\ \E W \in SUBSET pushed : lost' = lost \cup W
<1>1. \A k \in Worker : wjob[k] \in Job \cup {NoJob} /\ {wjob[k]} \ {NoJob} \in SUBSET pushed
  BY DEF Typed, JobTypes, HeldWasPushed, HeldJob
<1>2. ASSUME NEW k \in Worker, Complete(k) \/ FailJob(k)
      PROVE  Ends
  <2>1. wjob[k] \in Job
    BY <1>2 DEF Complete, FailJob, WorkerAt, Typed, JobTypes
  <2>2. wjob[k] \in pushed
    BY <2>1 DEF HeldWasPushed, HeldJob
  <2> QED
    BY <1>2, <2>1, <2>2 DEF Complete, FailJob, Finish
<1>3. ASSUME NEW k \in Worker, WorkerDies(k)
      PROVE  Loses
  BY <1>1, <1>3 DEF WorkerDies
<1>4. CASE IndexerRestarts
  <2>1. {wjob[k] : k \in Worker} \ {NoJob} \in SUBSET pushed
    BY <1>1
  <2> QED
    BY <1>4, <2>1 DEF IndexerRestarts
<1>5. \/ \E j \in Job : PushJob(j)
      \/ \E k \in Worker : Complete(k) \/ FailJob(k) \/ WorkerDies(k)
      \/ IndexerRestarts
      \/ UNCHANGED <<pushed, ended, lost>>
  BY DEF Next, GatewayStep, WorkerStep, PollStep, Failure, vars, historyVars, RegisterSource,
     GatewayAt, Send, RequestSync, SetQueued, ReadProgress, WriteProgress, AnnounceIndexing,
     RequestFails, Deactivate, PollSource, FolderChanges, Dequeue, SetRunning, ReadSource,
     Requeue, SetRequeued, Enter, ValidateRoot, FindNothing, SendIndexing, SendDocuments, SendReady,
     MarkSourceFailed, Raise, PollEnter, PollNothingToDo, PollIndexing, PollDocuments,
     PollReady, PollFails, ApplyCommand, CommandFails
<1> QED
  BY <1>2, <1>3, <1>4, <1>5

\* Every step of the job list is a step of Delivery.
LEMMA JobDeliveryStep ==
    ASSUME KnowledgeIInv, KnowledgeIInv', HeldWasPushed, [Next]_vars
    PROVE  Promise!Next /\ HeldWasPushed'
<1> DEFINE kept == {j \in Job : HeldJob(j)}
<1>1. Typed
  BY DEF KnowledgeIInv
<1>2. ASSUME NEW i \in Job, PushJob(i)
      PROVE  Promise!Next /\ HeldWasPushed'
  <2>1. \A j \in Job : Has(jobs', j) <=> j = i \/ Has(jobs, j)
    BY <1>1, <1>2, PushFacts DEF PushJob, Typed, JobTypes
  <2>2. \A j \in Job : HeldJob(j)' <=> j = i \/ HeldJob(j)
    BY <1>2, <2>1 DEF PushJob, HeldJob, workerVars
  <2>3. pushed' = pushed \cup {i} /\ UNCHANGED <<ended, lost>>
    BY <1>2 DEF PushJob
  <2>4. Promise!Accept(i)
    BY <2>2, <2>3 DEF Promise!Accept, HeldJob
  <2> QED
    BY <2>2, <2>3, <2>4 DEF Promise!Next, HeldWasPushed
<1>3. CASE ~\E i \in Job : PushJob(i)
  <2>1. pushed' = pushed
    BY <1>1, <1>3, JobOutcomeStep
  <2>2. \A j \in Job : HeldJob(j)' => HeldJob(j)
    BY <1>1, <1>3, HeldJobStep
  <2>3. \A j \in Job : HeldJob(j) => HeldJob(j)' \/ j \in ended' \cup lost'
    <3>1. \A j \in pushed' : HeldJob(j)' \/ j \in ended' \cup lost'
      BY DEF KnowledgeIInv, Kept, Handles, HeldJob
    <3> QED
      BY <2>1, <3>1 DEF HeldWasPushed
  <2>4. Promise!KeepsWhatIsOpen
    BY <2>2, <2>3 DEF Promise!KeepsWhatIsOpen, HeldJob
  <2>5. HeldWasPushed'
    BY <2>1, <2>2 DEF HeldWasPushed
  <2>6. CASE UNCHANGED <<pushed, lost>> /\ \E j \in Job : j \in pushed /\ ended' = ended \cup {j}
    BY <2>4, <2>5, <2>6 DEF Promise!Next, Promise!Finish
  <2>7. CASE UNCHANGED <<pushed, ended>> /\ \E W \in SUBSET pushed : lost' = lost \cup W
    <3>1. PICK W \in SUBSET pushed : lost' = lost \cup W
      BY <2>7
    <3>2. ended' = ended \cup {} /\ {} \in SUBSET W
      BY <2>7
    <3>3. Promise!Lose(W)
      BY <2>4, <2>7, <3>1, <3>2 DEF Promise!Lose
    <3> QED
      BY <2>5, <3>3 DEF Promise!Next
  <2>8. CASE UNCHANGED <<pushed, ended, lost>>
    BY <2>4, <2>5, <2>8 DEF Promise!Next, Promise!Release
  <2> QED
    BY <1>1, <1>3, <2>6, <2>7, <2>8, JobOutcomeStep
<1> QED
  BY <1>2, <1>3

\* The gateway can rely on a job it has pushed: the list or a worker keeps it until
\* it has a final status or is on record as lost with its worker.
THEOREM KnowledgeDelivers == Spec => Delivers
<1>1. Init => HeldWasPushed /\ Promise!Init
  BY ConstantFacts DEF Init, HeldWasPushed, HeldJob, Has, Promise!Init
<1>2. KnowledgeIInv /\ KnowledgeIInv' /\ HeldWasPushed /\ [Next]_vars
         => HeldWasPushed' /\ [Promise!Next]_Promise!deliveryVars
  BY JobDeliveryStep
<1> QED
  BY <1>1, <1>2, KnowledgeInvariant, PTL DEF Spec, Delivers, Promise!Spec

\* The abstract promise contains the accounting of the jobs.
THEOREM KnowledgeDeliversMeansAccounted == Delivers => []JobAccounted
<1> DEFINE K == {j \in Job : Has(jobs, j) \/ \E k \in Worker : wjob[k] = j}
           Accounted == pushed \subseteq K \cup ended \cup lost
<1>1. Promise!Init => Accounted
  BY DEF Promise!Init
<1>2. Accounted /\ [Promise!Next]_Promise!deliveryVars => Accounted'
  <2>1. /\ \A w : Promise!Accept(w) => K' = K \cup {w} /\ pushed' = pushed \cup {w}
                                       /\ ended' = ended /\ lost' = lost
        /\ \A w : Promise!Finish(w) => Promise!KeepsWhatIsOpen /\ pushed' = pushed
                                       /\ ended \subseteq ended' /\ lost' = lost
        /\ \A W : Promise!Lose(W) => Promise!KeepsWhatIsOpen /\ pushed' = pushed
                                     /\ ended \subseteq ended' /\ lost \subseteq lost'
        /\ Promise!Release => Promise!KeepsWhatIsOpen /\ pushed' = pushed
                              /\ ended' = ended /\ lost' = lost
        /\ UNCHANGED Promise!deliveryVars => K' = K /\ pushed' = pushed
                                            /\ ended' = ended /\ lost' = lost
    BY DEF Promise!Accept, Promise!Finish, Promise!Lose, Promise!Release, Promise!deliveryVars
  <2>2. Promise!KeepsWhatIsOpen => K \ K' \subseteq ended' \cup lost'
    BY DEF Promise!KeepsWhatIsOpen
  <2> HIDE DEF K
  <2> QED
    BY <2>1, <2>2 DEF Promise!Next
<1>3. Accounted => JobAccounted
  BY DEF JobAccounted
<1> QED
  BY <1>1, <1>2, <1>3, PTL DEF Delivers, Promise!Spec
=============================================================================
