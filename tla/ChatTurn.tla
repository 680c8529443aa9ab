-------------------------------- MODULE ChatTurn --------------------------------
(***************************************************************************)
(* The turns of a chat in the API gateway: invoke_chat (agent_chat.py) as  *)
(* its tasks run it - preparation (chat_invoke_prepare.py), the session    *)
(* lock with a lease (chat_locks.py), the call of the graph in a thread    *)
(* (chat_graph_runner.py), the persistence of the exchange (chat_invoke_   *)
(* finalize.py, chat_history_persist.py) - with the stream that may abort  *)
(* it (chat_sse.py, chat_session.py), the BUSY mark of the chat (graphs/   *)
(* activity.py) and the environment variable that the tools read.          *)
(*                                                                         *)
(* A history is the sequence of the turns whose exchanges it holds, the    *)
(* oldest first; the summary of those that a compaction drops is kept in   *)
(* the vault.  Redis is configured and answers: without it nobody takes a  *)
(* lock.                                                                   *)
(***************************************************************************)
EXTENDS Integers, Sequences

CONSTANTS
    Turn,
    Chat,
    Vault,
    ChatOf,       \* the chat (session_id) of a turn
    StreamOf,     \* who waits for it: an "admin" stream, another "stream", a "post"
    System,       \* the turns of the heartbeat (is_system_prompt)
    LockFree,     \* the turns that take no lock (skip_session_lock): loop, cron, summaries
    Client,       \* the turns whose request may carry a history of its own
    Folding,      \* the turns whose graph may call the tool summarize_chat_context
    Trusted,      \* the turns of the console and of a trusted channel (auth_policy)
    VaultOf,      \* the vault of a trusted turn, if it has one
    NoTurn,
    NoVault,
    MaxKept,      \* exchanges that a stored history keeps (DUCKCLAW_CHAT_HISTORY_MAX_MSGS)
    MaxFaults     \* bound: requests to cancel a chat, session locks that expire while
                  \* they are held, and restarts of the gateway, together

ASSUME ChatAssumption ==
    /\ ChatOf \in [Turn -> Chat]
    /\ StreamOf \in [Turn -> {"admin", "stream", "post"}]
    /\ \A s \in {System, LockFree, Client, Folding, Trusted} : s \in SUBSET Turn
    /\ VaultOf \in [Turn -> Vault \cup {NoVault}]
    /\ NoTurn \notin Turn
    /\ NoVault \notin Vault
    /\ MaxKept \in Nat \ {0}
    /\ MaxFaults \in Nat

VARIABLES
    pc,          \* where the task of each turn is
    thread,      \* the thread that runs its graph
    base,        \* history_for_model: the history its task will add its exchange to
    drawn,       \* the history that the tool of its graph is summarizing
    history,     \* duckclaw:gateway:chat_hist:<chat>
    lock,        \* lock:chat:<chat>
    busy,        \* chats marked BUSY
    cancel,      \* chats with the cancel flag
    env,         \* DUCKCLAW_ADMIN_PLAYGROUND_VAULT
    prev,        \* admin_pg_vault_prev of each turn
    faults,      \* requests to cancel, expired leases and restarts so far
    overtaken,   \* history: waiting turns that saw the lock go to another one
    stale,       \* history: turns whose base is not the stored history, or not any more:
                 \* the client sent it, or another turn has written since
    behind,      \* history: the same of what a tool is summarizing
    unguarded,   \* history: turns that run without the lock, or lost it
    asked,       \* history: turns that owe it to the flag to stop
    aborted,     \* history: chats with a turn whose task was cancelled or died
    overlap      \* history: two turns were between reading and restoring env at once

redisVars == <<history, lock, busy>>
envVars == <<env, prev>>
flagVars == <<cancel, asked>>
guardHistory == <<overtaken, unguarded>>
toolVars == <<drawn, behind>>
vars == <<pc, thread, base, toolVars, redisVars, envVars, flagVars, faults, guardHistory,
          stale, aborted, overlap>>

InLock == {"enter", "compact", "setEnv", "graph", "unlock", "unlockFailed"}
PC == {"idle", "wait", "persist", "save", "finish", "over"} \cup InLock
Busy == PC \ {"idle", "over"}

Goto(t, l) == pc' = [pc EXCEPT ![t] = l]
SameChat(t, u) == t # u /\ ChatOf[t] = ChatOf[u]
Fault == faults < MaxFaults /\ faults' = faults + 1
Running(t) == thread[t] # "none"

\* What is left of h when its oldest n exchanges are dropped.
WithoutOldest(h, n) == SubSeq(h, n + 1, Len(h))
\* normalize_history_list.
Capped(h) == WithoutOldest(h, IF Len(h) > MaxKept THEN Len(h) - MaxKept ELSE 0)

\* A turn that has read the history it will write back.
Holds(u) ==
    /\ pc[u] \in Busy \ {"finish"}
    /\ u \notin System \/ base[u] # <<>> \/ pc[u] = "save"

Init ==
    /\ pc = [t \in Turn |-> "idle"]
    /\ thread = [t \in Turn |-> "none"]
    /\ base = [t \in Turn |-> <<>>]
    /\ drawn = [t \in Turn |-> <<>>]
    /\ history = [c \in Chat |-> <<>>]
    /\ lock = [c \in Chat |-> NoTurn]
    /\ busy = {}
    /\ cancel = {}
    /\ env = NoVault
    /\ prev = [t \in Turn |-> NoVault]
    /\ faults = 0
    /\ overtaken = {} /\ unguarded = {}
    /\ stale = {} /\ behind = {}
    /\ asked = {}
    /\ aborted = {}
    /\ overlap = FALSE

\* The task of a turn is gone, and its locals with it.
End(t) ==
    /\ Goto(t, "over")
    /\ base' = [base EXCEPT ![t] = <<>>]
    /\ stale' = stale \ {t}

-----------------------------------------------------------------------------
(* Flags of the chat.                                                      *)

\* clear_chat_cancel, by turn t: the others that were to stop for it go on.
ClearCancel(t) ==
    /\ cancel' = cancel \ {ChatOf[t]}
    /\ asked' = asked \ {u \in Turn : SameChat(t, u)}

\* request_chat_cancel.
RaiseCancel(c) ==
    /\ cancel' = cancel \cup {c}
    /\ asked' = asked \cup {u \in Turn : ChatOf[u] = c /\ Running(u)}

\* The interrupt button (playground_chat_cancel).
RequestCancel(c) ==
    /\ Fault
    /\ RaiseCancel(c)
    /\ UNCHANGED <<pc, thread, base, toolVars, redisVars, envVars, guardHistory, stale, aborted,
                   overlap>>

CancelExpires(c) ==
    /\ c \in cancel
    /\ cancel' = cancel \ {c}
    /\ asked' = {u \in asked : ChatOf[u] # c}
    /\ UNCHANGED <<pc, thread, base, toolVars, redisVars, envVars, faults, guardHistory, stale, aborted,
                   overlap>>

-----------------------------------------------------------------------------
(* prepare_chat_invoke.                                                    *)

\* The exchanges a client can know of.
Past(t) == {u \in Turn : ChatOf[u] = ChatOf[t] /\ pc[u] \in {"finish", "over"}}

\* The history of the request, when it carries one; else the stored one, which a
\* turn of the system reads later.
FindHistory(t) ==
    \/ /\ base' = [base EXCEPT ![t] = IF t \in System THEN <<>> ELSE history[ChatOf[t]]]
       /\ UNCHANGED stale
    \/ /\ t \in Client
       /\ \E u \in Past(t) : base' = [base EXCEPT ![t] = <<u>>]
       /\ stale' = stale \cup {t}

\* An early answer, or a turn with a history.
Prepare(t) ==
    /\ pc[t] = "idle"
    /\ ClearCancel(t)
    /\ \/ Goto(t, "over") /\ UNCHANGED <<base, stale>>
       \/ Goto(t, "wait") /\ FindHistory(t)
    /\ UNCHANGED <<thread, toolVars, redisVars, envVars, faults, guardHistory, aborted,
                   overlap>>

(* chat_lock, unless the turn skips it.                                    *)
AcquireLock(t) ==
    /\ pc[t] = "wait"
    /\ t \notin LockFree
    /\ lock[ChatOf[t]] = NoTurn
    /\ lock' = [lock EXCEPT ![ChatOf[t]] = t]
    /\ overtaken' = (overtaken \ {t})
                       \cup {u \in Turn \ LockFree : SameChat(t, u) /\ pc[u] = "wait"}
    /\ Goto(t, "enter")
    /\ UNCHANGED <<thread, base, toolVars, history, busy, envVars, flagVars, faults, unguarded,
                   stale, aborted, overlap>>

EnterUnguarded(t) ==
    /\ pc[t] = "wait"
    /\ overtaken' = overtaken \ {t}
    /\ unguarded' = unguarded \cup {t}
    /\ Goto(t, "enter")
    /\ UNCHANGED <<thread, base, toolVars, redisVars, envVars, flagVars, faults, stale, aborted,
                   overlap>>

\* blocking_timeout is longer than the lease: a turn waits in vain only if the
\* lock went to somebody else meanwhile.  It then goes on without it.
GiveUp(t) == t \in overtaken /\ EnterUnguarded(t)

\* maybe_chat_lock_for_request.
SkipLock(t) == t \in LockFree /\ EnterUnguarded(t)

\* Mutant: the lock has no lease, only an expired connection drops it.
NoLease(c) ==
    /\ lock[c] # NoTurn
    /\ pc[lock[c]] # "over"
    /\ Fault
    /\ unguarded' = unguarded \cup {lock[c]}
    /\ lock' = [lock EXCEPT ![c] = NoTurn]
    /\ UNCHANGED <<pc, thread, base, toolVars, history, busy, envVars, flagVars, overtaken, stale,
                   aborted, overlap>>

\* timeout=10: nobody renews the lease.
LeaseExpires(c) ==
    /\ lock[c] # NoTurn
    /\ lock' = [lock EXCEPT ![c] = NoTurn]
    /\ \/ pc[lock[c]] = "over" /\ UNCHANGED <<faults, unguarded>>
       \/ /\ pc[lock[c]] # "over"
          /\ Fault
          /\ unguarded' = unguarded \cup {lock[c]}
    /\ UNCHANGED <<pc, thread, base, toolVars, history, busy, envVars, flagVars, overtaken, stale,
                   aborted, overlap>>

\* Mutant: whoever has the lock loses it.
ReleaseAny(t) == lock' = [lock EXCEPT ![ChatOf[t]] = NoTurn]

\* Redis' release compares the token: a lock that is no longer ours stays.
Release(t) ==
    lock' = IF lock[ChatOf[t]] = t THEN [lock EXCEPT ![ChatOf[t]] = NoTurn] ELSE lock

-----------------------------------------------------------------------------
(* run_chat_graph, under the lock.                                         *)

\* The others that have read the history of t's chat, themselves or in their tool.
Readers(t) == {u \in Turn : SameChat(t, u) /\ Holds(u)}
Folders(t) == {u \in Turn : SameChat(t, u) /\ thread[u] = "folding"}

\* Turn t writes the history of its chat: what the others have read is old now.
WriteHistory(t, h) ==
    /\ history' = [history EXCEPT ![ChatOf[t]] = Capped(h)]
    /\ stale' = (stale \ {t}) \cup Readers(t)
    /\ behind' = behind \cup Folders(t)

InSection(t) == pc[t] \in {"setEnv", "graph"}

ReadEnv(t) ==
    /\ prev' = [prev EXCEPT ![t] = env]
    /\ overlap' = (overlap \/ \E u \in Turn : InSection(u))
    /\ Goto(t, "setEnv")

\* The fold, or a trim when it fails, leaves the newest part of a history.
LeavesOf(h) == {WithoutOldest(h, n) : n \in 0 .. Len(h)}

\* Turn t compacts its history in Redis.  Its base becomes the compacted one, or
\* stays when the result of the turn does not carry it (a turn interrupted or out
\* of budget).
CompactHistory(t) ==
    \E h \in LeavesOf(base[t]) :
        /\ WriteHistory(t, h)
        /\ base' = [base EXCEPT ![t] = h] \/ UNCHANGED base

\* A command is answered at once, without marking the chat; one of them compacts
\* the history.  The graph may also not be ready.
Command(t) ==
    /\ pc[t] = "enter"
    /\ \/ Goto(t, "unlock") /\ UNCHANGED <<base, history, stale, behind>>
       \/ /\ Goto(t, "unlock")
          /\ base[t] # <<>>
          /\ \E h \in LeavesOf(base[t]) :
                WriteHistory(t, h) /\ base' = [base EXCEPT ![t] = h]
       \/ Goto(t, "unlockFailed") /\ UNCHANGED <<base, history, stale, behind>>
    /\ UNCHANGED <<thread, drawn, lock, busy, envVars, flagVars, faults, guardHistory,
                   aborted, overlap>>

SetBusy(t) ==
    /\ pc[t] = "enter"
    /\ busy' = busy \cup {ChatOf[t]}
    /\ \/ /\ base[t] # <<>> /\ t \notin System
          /\ Goto(t, "compact") /\ UNCHANGED <<prev, overlap>>
       \/ ReadEnv(t)
    /\ UNCHANGED <<thread, base, toolVars, history, lock, env, flagVars, faults, guardHistory,
                   stale, aborted>>

\* Mutant: the compaction writes the message of its own turn as well.
CompactWithMessage(t) ==
    /\ pc[t] = "compact"
    /\ WriteHistory(t, Append(base[t], t))
    /\ ReadEnv(t)
    /\ UNCHANGED <<thread, base, drawn, lock, busy, env, flagVars, faults, guardHistory,
                   aborted>>

\* _auto_compact_history_if_needed.
Compact(t) ==
    /\ pc[t] = "compact"
    /\ CompactHistory(t)
    /\ ReadEnv(t)
    /\ UNCHANGED <<thread, drawn, lock, busy, env, flagVars, faults, guardHistory, aborted>>

\* Behind the awaits on Redis; then the graph gets its thread.
SetEnv(t) ==
    /\ pc[t] = "setEnv"
    /\ env' = IF t \in Trusted THEN VaultOf[t] ELSE env
    /\ thread' = [thread EXCEPT ![t] = "running"]
    /\ Goto(t, "graph")
    /\ UNCHANGED <<base, toolVars, redisVars, prev, flagVars, faults, guardHistory, stale,
                   aborted, overlap>>

\* Mutant: a graph that raised leaves the variable as it is.
RestoreOnSuccess(t, ok) ==
    /\ env' = IF ok THEN prev[t] ELSE env
    /\ prev' = [prev EXCEPT ![t] = NoVault]

\* The finally of the call.
RestoreEnv(t, ok) ==
    /\ env' = prev[t]
    /\ prev' = [prev EXCEPT ![t] = NoVault]

\* Mutant: only a graph that succeeded marks the chat idle.
IdleOnSuccess(t, ok) == busy' = IF ok THEN busy \ {ChatOf[t]} ELSE busy

SetIdle(t, ok) == busy' = busy \ {ChatOf[t]}

\* The graph returned, was interrupted or ran out of budget; or it raised.
GraphReturns(t) ==
    /\ pc[t] = "graph"
    /\ thread[t] = "none"
    /\ \E ok \in BOOLEAN :
          /\ SetIdle(t, ok)
          /\ RestoreEnv(t, ok)
          /\ Goto(t, IF ok THEN "unlock" ELSE "unlockFailed")
    /\ UNCHANGED <<thread, base, toolVars, history, lock, flagVars, faults, guardHistory, stale, aborted,
                   overlap>>

\* A turn that failed is not persisted.
Unlock(t) ==
    /\ Release(t)
    /\ unguarded' = unguarded \ {t}
    /\ \/ /\ pc[t] = "unlock" /\ UNCHANGED <<base, stale>>
          /\ Goto(t, IF t \in System /\ base[t] = <<>> THEN "persist" ELSE "save")
       \/ pc[t] = "unlockFailed" /\ End(t)
    /\ UNCHANGED <<thread, toolVars, history, busy, envVars, flagVars, faults, overtaken, aborted,
                   overlap>>

-----------------------------------------------------------------------------
(* finalize_chat_response: persist_chat_history, then the flag.            *)

\* Mutant: the turn of a heartbeat writes its exchange alone.
ReadNothing(t) == UNCHANGED base

\* A turn of the system without a history reads the stored one first.
ReadHistory(t) == base' = [base EXCEPT ![t] = history[ChatOf[t]]]

PersistRead(t) ==
    /\ pc[t] = "persist"
    /\ ReadHistory(t)
    /\ Goto(t, "save")
    /\ UNCHANGED <<thread, toolVars, redisVars, envVars, flagVars, faults, guardHistory, stale,
                   aborted, overlap>>

\* An empty answer is not written.
PersistSave(t) ==
    /\ pc[t] = "save"
    /\ WriteHistory(t, Append(base[t], t)) \/ UNCHANGED <<history, stale, behind>>
    /\ Goto(t, "finish")
    /\ UNCHANGED <<thread, base, drawn, lock, busy, envVars, flagVars, faults, guardHistory,
                   aborted, overlap>>

Finish(t) ==
    /\ pc[t] = "finish"
    /\ ClearCancel(t)
    /\ End(t)
    /\ UNCHANGED <<thread, toolVars, redisVars, envVars, faults, guardHistory, aborted,
                   overlap>>

-----------------------------------------------------------------------------
(* The thread of the graph.  It goes on when its task is cancelled, up to  *)
(* the next node that looks at the flag: the plan node does not.           *)

PlanNode(t) ==
    /\ thread[t] = "running"
    /\ busy' = busy \cup {ChatOf[t]}
    /\ UNCHANGED <<pc, thread, base, toolVars, history, lock, envVars, flagVars, faults,
                   guardHistory, stale, aborted, overlap>>

\* summarize_chat_context_impl: the tool reads the stored history ...
FoldReads(t) ==
    /\ t \in Folding
    /\ thread[t] = "running"
    /\ history[ChatOf[t]] # <<>>
    /\ thread' = [thread EXCEPT ![t] = "folding"]
    /\ drawn' = [drawn EXCEPT ![t] = history[ChatOf[t]]]
    /\ behind' = behind \ {t}
    /\ UNCHANGED <<pc, base, redisVars, envVars, flagVars, faults, guardHistory, stale,
                   aborted, overlap>>

\* ... and, with the summary, writes back what it leaves of it.  The override it
\* leaves for finalize stays in the context of the thread: nobody reads it.
FoldWrites(t) ==
    /\ thread[t] = "folding"
    /\ thread' = [thread EXCEPT ![t] = "running"]
    /\ drawn' = [drawn EXCEPT ![t] = <<>>]
    /\ \/ \E h \in LeavesOf(drawn[t]) :
             /\ history' = [history EXCEPT ![ChatOf[t]] = Capped(h)]
             /\ stale' = stale \cup Readers(t)
             /\ behind' = (behind \ {t}) \cup Folders(t)
       \/ behind' = behind \ {t} /\ UNCHANGED <<history, stale>>
    /\ UNCHANGED <<pc, base, lock, busy, envVars, flagVars, faults, guardHistory, aborted,
                   overlap>>

\* The vault a report of this turn belongs in: that of the playground, or (no
\* value) the worker's own.
Home(t) == IF t \in Trusted THEN VaultOf[t] ELSE NoVault

\* publish_custom_report, in whatever thread, takes the vault from the environment.
ReportVault == env

\* The worker's cleanup marks the chat idle; the shortcut answers do not.
ThreadEnds(t) ==
    /\ thread[t] = "running"
    /\ thread' = [thread EXCEPT ![t] = "none"]
    /\ \/ busy' = busy \ {ChatOf[t]}
       \/ UNCHANGED busy
    /\ asked' = asked \ {t}
    /\ unguarded' = IF pc[t] = "over" THEN unguarded \ {t} ELSE unguarded
    /\ UNCHANGED <<pc, base, toolVars, history, lock, envVars, cancel, faults, overtaken,
                   stale, aborted, overlap>>

-----------------------------------------------------------------------------
(* The stream, and the process.                                            *)

\* Mutant: the flag is taken back once the task is cancelled.
RaiseAndClear(c) ==
    /\ cancel' = cancel \ {c}
    /\ asked' = asked \cup {u \in Turn : ChatOf[u] = c /\ Running(u)}

AbortFlag(c) == RaiseCancel(c)

\* abort_chat_invoke_task: the client of a public stream goes away, a stream sees
\* the cancel flag, or its generator is closed: the task is cancelled at one of its
\* awaits.  (The admin stream that sees its client go leaves the turn running.)
Abort(t) ==
    /\ pc[t] \in {"wait", "compact", "setEnv", "graph", "unlock", "save"}
    /\ StreamOf[t] \in {"admin", "stream"}
    /\ AbortFlag(ChatOf[t])
    /\ IF pc[t] \in InLock THEN Release(t) ELSE UNCHANGED lock
    /\ \/ pc[t] = "graph" /\ RestoreEnv(t, FALSE)
       \/ /\ pc[t] # "graph" /\ UNCHANGED env
          /\ prev' = [prev EXCEPT ![t] = NoVault]
    /\ aborted' = aborted \cup {ChatOf[t]}
    /\ unguarded' = IF Running(t) THEN unguarded \cup {t} ELSE unguarded \ {t}
    /\ overtaken' = overtaken \ {t}
    /\ End(t)
    /\ UNCHANGED <<thread, toolVars, history, busy, faults, overlap>>

\* The gateway dies and comes back: Redis keeps what it had.
GatewayCrash ==
    /\ Fault
    /\ \E t \in Turn : pc[t] \in Busy
    /\ pc' = [t \in Turn |-> IF pc[t] \in Busy THEN "over" ELSE pc[t]]
    /\ thread' = [t \in Turn |-> "none"]
    /\ base' = [t \in Turn |-> <<>>]
    /\ drawn' = [t \in Turn |-> <<>>]
    /\ aborted' = aborted \cup {ChatOf[t] : t \in {u \in Turn : pc[u] \in Busy}}
    /\ env' = NoVault
    /\ prev' = [t \in Turn |-> NoVault]
    /\ unguarded' = {} /\ overtaken' = {} /\ stale' = {} /\ behind' = {} /\ asked' = {}
    /\ UNCHANGED <<redisVars, cancel, overlap>>

\* A task that waits for the lock gets it, or goes on without it.
Enter(t) == AcquireLock(t) \/ GiveUp(t) \/ SkipLock(t)

TaskStep(t) ==
    \/ Command(t) \/ SetBusy(t) \/ Compact(t) \/ SetEnv(t)
    \/ GraphReturns(t) \/ Unlock(t) \/ PersistRead(t) \/ PersistSave(t) \/ Finish(t)

ThreadStep(t) ==
    PlanNode(t) \/ FoldReads(t) \/ FoldWrites(t) \/ ThreadEnds(t)

Next ==
    \/ \E t \in Turn :
          Prepare(t) \/ Enter(t) \/ TaskStep(t) \/ ThreadStep(t) \/ Abort(t)
    \/ \E c \in Chat : RequestCancel(c) \/ CancelExpires(c) \/ LeaseExpires(c)
    \/ GatewayCrash

Spec == Init /\ [][Next]_vars

\* The event loop runs its tasks, a graph ends (recursion limit, wall-clock
\* limit), a call of the summary model too, and Redis expires its keys.
FairSpec ==
    /\ Spec
    /\ \A t \in Turn :
          /\ WF_vars(Enter(t)) /\ WF_vars(TaskStep(t))
          /\ WF_vars(FoldWrites(t)) /\ SF_vars(ThreadEnds(t))
    /\ \A c \in Chat : WF_vars(LeaseExpires(c))

-----------------------------------------------------------------------------
\* Every variable has its type; a history holds exchanges of turns of its chat
\* that were saved by their own task, and no more of them than the cap.
TypeOK ==
    /\ pc \in [Turn -> PC]
    /\ thread \in [Turn -> {"none", "running", "folding"}]
    /\ \A t \in Turn : base[t] \in Seq(Turn) /\ drawn[t] \in Seq(Turn)
    /\ \A c \in Chat :
          /\ history[c] \in Seq(Turn)
          /\ Len(history[c]) <= MaxKept
          /\ \A i \in 1 .. Len(history[c]) : ChatOf[history[c][i]] = c
                                          /\ pc[history[c][i]] \in {"finish", "over"}
    /\ lock \in [Chat -> Turn \cup {NoTurn}]
    /\ busy \in SUBSET Chat
    /\ cancel \in SUBSET Chat
    /\ env \in Vault \cup {NoVault}
    /\ prev \in [Turn -> Vault \cup {NoVault}]
    /\ faults \in 0 .. MaxFaults
    /\ \A s \in {overtaken, unguarded, stale, behind, asked} : s \in SUBSET Turn
    /\ aborted \in SUBSET Chat
    /\ overlap \in BOOLEAN

\* s is the newest part of h.
IsNewest(s, h) ==
    /\ Len(s) <= Len(h)
    /\ \A i \in 1 .. Len(s) : s[i] = h[i + Len(h) - Len(s)]

\* From h to h2 nothing goes but the oldest exchanges: in a compaction, or at the
\* cap when an exchange is added.
OnlyOldestGo(h, h2) ==
    \/ IsNewest(h2, h) \/ IsNewest(h, h2)
    \/ /\ h2 # <<>>
       /\ LET before == SubSeq(h2, 1, Len(h2) - 1) IN
          IsNewest(h, before) \/ (Len(h2) = MaxKept /\ IsNewest(before, h))

\* Turn t, or its tool, has done the write that its old history is for.
WritesOld(t) ==
    \/ t \in stale /\ pc[t] \in {"enter", "compact", "save"} /\ pc'[t] # pc[t]
    \/ t \in behind /\ thread[t] = "folding" /\ thread'[t] # thread[t]

\* An exchange goes out of turn, before older ones and without a compaction or the
\* cap, only in a write by a turn that had read the history before another turn of
\* the chat wrote it, or was sent one by its client.  The base is read before the
\* lock is taken and written after it is released (chat_invoke_prepare.py:119-128,
\* chat_history_persist.py:44-45, 86-97, chat_history.py:141-150).
LostOnlyByOverlap ==
    [][\A c \in Chat : OnlyOldestGo(history[c], history'[c])
                         \/ \E t \in Turn : ChatOf[t] = c /\ WritesOld(t)]_vars

\* A turn that was given the lock has it until it releases it, unless its lease
\* ran out: so two graphs of a chat run at once only if one of them has no claim
\* to the lock, because it takes none, its lease ran out, it gave up waiting or its
\* task is gone (chat_locks.py:26-37, 56-63).
SerializedWhileGuarded ==
    /\ \A t \in Turn : pc[t] \in InLock /\ t \notin unguarded => lock[ChatOf[t]] = t
    /\ \A t, u \in Turn : SameChat(t, u) /\ Running(t) /\ Running(u) =>
           t \in unguarded \/ u \in unguarded

\* A chat with nothing running stays BUSY, and so out of reach of the heartbeat,
\* only if the task of one of its turns was cancelled or died (chat_graph_
\* runner.py:342, 456-493, 556).
BusyOnlyAfterAbort ==
    \A c \in busy \ aborted :
        \E t \in Turn : ChatOf[t] = c /\ (pc[t] \in Busy \/ Running(t))

\* The flag that a running graph owes its stop to stays up until another turn of
\* the chat clears it or it expires: a cancelled task leaves it for its orphan
\* (chat_session.py:34-51, chat_cancel.py:1-5).
CancelReachesGraph == \A t \in asked : Running(t) => ChatOf[t] \in cancel

\* A graph whose task waits for it would put a report in a vault that is not the one
\* of its turn only after two turns were in the section of the environment variable
\* at once: one turn after the other, failed and cancelled ones included, finds the
\* variable as it should be.  A graph that outlived its task has lost it
\* (chat_graph_runner.py:392-425, 549-553, custom_reports_bridge.py:190-192).
MisplacedOnlyByOverlap ==
    \A t \in Turn : pc[t] = "graph" /\ Running(t) /\ ReportVault # Home(t) => overlap

\* In the end no task of a turn is left waiting, no graph runs and no lock is
\* held: a lock that is never released, a lease that runs out and a task that is
\* cancelled at any of its awaits leave nothing behind.
ComesToRest ==
    <>[](/\ \A t \in Turn : pc[t] \notin Busy /\ ~ Running(t)
         /\ \A c \in Chat : lock[c] = NoTurn)
=============================================================================
