------------------------------ MODULE WorkerInvoke ------------------------------
(***************************************************************************)
(* The execution of turns by the manager graph: the node that invokes a    *)
(* worker (manager/manager_nodes_invoke.py), the invocation of its graph   *)
(* in a thread of its own under a wall-clock limit (workers/worker_        *)
(* invoke.py), the delegation of a task to another worker from inside that *)
(* graph, the lock of each vault, and the two flags of a chat that the     *)
(* graphs read at their checkpoints (graphs/chat_cancel.py).               *)
(*                                                                         *)
(* A turn is one request; it is identified with the thread that runs its   *)
(* manager graph.  A worker graph is a loop of nodes, and each node starts *)
(* with a checkpoint: what it does apart from delegating is left out.      *)
(***************************************************************************)
EXTENDS Integers, FiniteSets

CONSTANTS
    Turn,
    Chat,
    Vault,
    ChatOf,          \* the chat a turn belongs to
    VaultOf,         \* the vault of the worker that is assigned to a turn
    DelegateVault,   \* the vault of the worker it may delegate to, if any
    NoTurn,
    NoVault,
    MaxAttempts,     \* DUCKCLAW_AGENT_MAX_PLAN_ATTEMPTS
    MaxCalls,        \* bound: delegations of one attempt
    MaxCancels       \* bound: requests to cancel a chat

ASSUME InvokeAssumption ==
    /\ ChatOf \in [Turn -> Chat]
    /\ VaultOf \in [Turn -> Vault]
    /\ DelegateVault \in [Turn -> Vault \cup {NoVault}]
    /\ NoTurn \notin Turn
    /\ NoVault \notin Vault
    /\ MaxAttempts \in Nat \ {0}
    /\ MaxCalls \in Nat
    /\ MaxCancels \in Nat

VARIABLES
    pc,          \* where each turn is
    attempt,     \* plan_attempt_index
    calls,       \* delegations of the current attempt
    timedOut,    \* turns whose invocation has passed its wall-clock limit
    lateCall,    \* turns whose delegation has passed its own
    result,      \* how the invocation of each turn came out
    holder,      \* the turn that holds the lock of each vault
    leaked,      \* vaults whose lock a thread kept when its turn was over
    slots,       \* turns registered as active executions of their worker
    cancel,      \* chats with the cancel flag
    interrupt,   \* chats with the graph-interrupt flag
    cancels,     \* history: requests to cancel so far
    asked,       \* history: turns whose chat was asked to cancel since they began
    struck       \* history: turns whose chat saw a limit pass since they began

flagVars == <<cancel, interrupt>>
lockVars == <<holder, leaked, slots>>
historyVars == <<cancels, asked, struck>>
vars == <<pc, attempt, calls, timedOut, lateCall, result, lockVars, flagVars, historyVars>>

Delegating == {"wantDelegate", "delegateStart", "delegateClear", "delegateRun"}
InGraph == {"run"} \cup Delegating
HoldsVault == {"start", "clear", "cleanup"} \cup InGraph
HoldsSlot == {"wantVault", "cleanupUnlocked"} \cup HoldsVault
PC == {"idle", "plan", "reply", "over"} \cup HoldsSlot
Result == {"none", "ok", "transient", "failed", "timeout", "interrupted"}

\* The turns of a chat that have begun and are not over.
Ongoing(c) == {t \in Turn : ChatOf[t] = c /\ pc[t] \notin {"idle", "over"}}
\* raise_if_chat_cancelled raises.
Flagged(t) == ChatOf[t] \in cancel \cup interrupt
\* The worker's vault is the one its caller has locked: the delegate neither
\* takes the lock nor gives it back.
SameVault(t) == DelegateVault[t] = VaultOf[t]

Goto(t, l) == pc' = [pc EXCEPT ![t] = l]

\* The lock of a vault in "leaked" is still owned by a thread that has left its
\* turn: it is there for a turn that happens to run on that very thread (the
\* lock is reentrant), and only fairness tells it from a free one.
Take(v, t) == holder[v] = NoTurn /\ holder' = [holder EXCEPT ![v] = t]
Release(v) == holder' = [holder EXCEPT ![v] = NoTurn]

Init ==
    /\ pc = [t \in Turn |-> "idle"]
    /\ attempt = [t \in Turn |-> 0]
    /\ calls = [t \in Turn |-> 0]
    /\ timedOut = {}
    /\ lateCall = {}
    /\ result = [t \in Turn |-> "none"]
    /\ holder = [v \in Vault |-> NoTurn]
    /\ leaked = {}
    /\ slots = {}
    /\ cancel = {}
    /\ interrupt = {}
    /\ cancels = 0
    /\ asked = {}
    /\ struck = {}

-----------------------------------------------------------------------------
(* The gateway: the turn begins with both flags of its chat cleared.       *)
(* prepare_invoke_chat, then the manager graph up to its plan node.        *)

\* Mutant: the flags of the previous turn are not cleared.
BeginFlagged(t) ==
    /\ pc[t] = "idle"
    /\ Goto(t, "plan")
    /\ UNCHANGED <<attempt, calls, timedOut, lateCall, result, lockVars, flagVars, historyVars>>

Begin(t) ==
    /\ pc[t] = "idle"
    /\ Goto(t, "plan")
    /\ cancel' = cancel \ {ChatOf[t]}
    /\ interrupt' = interrupt \ {ChatOf[t]}
    /\ UNCHANGED <<attempt, calls, timedOut, lateCall, result, lockVars, historyVars>>

\* finalize_invoke_chat.
Reply(t) ==
    /\ pc[t] = "reply"
    /\ Goto(t, "over")
    /\ cancel' = cancel \ {ChatOf[t]}
    /\ UNCHANGED <<attempt, calls, timedOut, lateCall, result, lockVars, interrupt, historyVars>>

\* The interrupt button of the console, or a client that went away.
RequestCancel(c) ==
    /\ cancels < MaxCancels
    /\ cancels' = cancels + 1
    /\ cancel' = cancel \cup {c}
    /\ asked' = asked \cup Ongoing(c)
    /\ UNCHANGED <<pc, attempt, calls, timedOut, lateCall, result, lockVars, interrupt, struck>>

\* The flags live for _CHAT_CANCEL_TTL_SECONDS.
FlagsExpire(c) ==
    /\ \/ c \in cancel /\ cancel' = cancel \ {c} /\ UNCHANGED interrupt
       \/ c \in interrupt /\ interrupt' = interrupt \ {c} /\ UNCHANGED cancel
    /\ UNCHANGED <<pc, attempt, calls, timedOut, lateCall, result, lockVars, historyVars>>

-----------------------------------------------------------------------------
(* invoke_worker_node, up to the call of the worker's graph.               *)

Stop(t, l) ==
    /\ Flagged(t)
    /\ Goto(t, l)
    /\ result' = [result EXCEPT ![t] = "interrupted"]

\* The chat is flagged before anything was taken.
StopBeforeInvoke(t) ==
    /\ pc[t] = "plan"
    /\ Stop(t, "reply")
    /\ UNCHANGED <<attempt, calls, timedOut, lateCall, lockVars, flagVars, historyVars>>

\* The catalogue has no worker to invoke.
NoWorker(t) ==
    /\ pc[t] = "plan"
    /\ ~Flagged(t)
    /\ result' = [result EXCEPT ![t] = "failed"]
    /\ Goto(t, "reply")
    /\ UNCHANGED <<attempt, calls, timedOut, lateCall, lockVars, flagVars, historyVars>>

TakeSlot(t) ==
    /\ pc[t] = "plan"
    /\ ~Flagged(t)
    /\ slots' = slots \cup {t}
    /\ Goto(t, "wantVault")
    /\ UNCHANGED <<attempt, calls, timedOut, lateCall, result, holder, leaked, flagVars, historyVars>>

\* get_vault_invoke_lock(...).acquire(): no limit on the wait.
LockVault(t) ==
    /\ pc[t] = "wantVault"
    /\ Take(VaultOf[t], t)
    /\ Goto(t, "start")
    /\ UNCHANGED <<attempt, calls, timedOut, lateCall, result, leaked, slots, flagVars, historyVars>>

\* An exception while the invocation is prepared, or the worker's graph is built:
\* the finally knows whether the lock was taken.
PreparationFails(t) ==
    /\ \/ pc[t] = "wantVault" /\ Goto(t, "cleanupUnlocked")
       \/ pc[t] = "start" /\ Goto(t, "cleanup")
    /\ \E r \in {"transient", "failed"} : result' = [result EXCEPT ![t] = r]
    /\ UNCHANGED <<attempt, calls, timedOut, lateCall, lockVars, flagVars, historyVars>>

\* Mutant: the interrupted turn returns without passing through the finally.
StopAtStartAtOnce(t) ==
    /\ pc[t] = "start"
    /\ Stop(t, "reply")
    /\ UNCHANGED <<attempt, calls, timedOut, lateCall, lockVars, flagVars, historyVars>>

\* The check before the call, and the one at the start of invoke_worker_graph.
StopAtStart(t) ==
    /\ pc[t] = "start"
    /\ Stop(t, "cleanup")
    /\ UNCHANGED <<attempt, calls, timedOut, lateCall, lockVars, flagVars, historyVars>>

CheckFlags(t) ==
    /\ pc[t] = "start"
    /\ ~Flagged(t)
    /\ Goto(t, "clear")
    /\ UNCHANGED <<attempt, calls, timedOut, lateCall, result, lockVars, flagVars, historyVars>>

\* The interrupt left by an earlier limit is dropped; the graph starts.
Submit(t) ==
    /\ pc[t] = "clear"
    /\ Goto(t, "run")
    /\ interrupt' = interrupt \ {ChatOf[t]}
    /\ UNCHANGED <<attempt, calls, timedOut, lateCall, result, lockVars, cancel, historyVars>>

-----------------------------------------------------------------------------
(* The worker's graph, and the thread that waits for it under a limit.     *)

PassLimit(t) ==
    /\ interrupt' = interrupt \cup {ChatOf[t]}
    /\ struck' = struck \cup Ongoing(ChatOf[t])

\* fut.result(timeout=limit) gives up: it asks the graph to stop, and waits
\* for it to do so when it leaves the pool.
Timeout(t) ==
    /\ pc[t] \in InGraph
    /\ t \notin timedOut
    /\ timedOut' = timedOut \cup {t}
    /\ PassLimit(t)
    /\ UNCHANGED <<pc, attempt, calls, lateCall, result, lockVars, cancel, cancels, asked>>

\* The graph ends: what it returned or raised counts only in time.
EndGraph(t, r) ==
    /\ pc[t] = "run"
    /\ Goto(t, "cleanup")
    /\ result' = [result EXCEPT ![t] = IF t \in timedOut THEN "timeout" ELSE r]
    /\ interrupt' = IF t \in timedOut THEN interrupt \ {ChatOf[t]} ELSE interrupt
    /\ UNCHANGED <<attempt, calls, timedOut, lateCall, lockVars, cancel, historyVars>>

GraphReturns(t) == \E r \in {"ok", "transient", "failed"} : EndGraph(t, r)

\* A node finds a flag of the chat.
GraphStops(t) == Flagged(t) /\ EndGraph(t, "interrupted")

\* invoke_delegated_worker, called by a tool of the graph.  A delegate has no
\* delegates (_MAX_DELEGATE_DEPTH).
Delegate(t) ==
    /\ pc[t] = "run"
    /\ ~Flagged(t)
    /\ DelegateVault[t] # NoVault
    /\ calls[t] < MaxCalls
    /\ calls' = [calls EXCEPT ![t] = @ + 1]
    /\ Goto(t, IF SameVault(t) THEN "delegateStart" ELSE "wantDelegate")
    /\ UNCHANGED <<attempt, timedOut, lateCall, result, lockVars, flagVars, historyVars>>

LockDelegateVault(t) ==
    /\ pc[t] = "wantDelegate"
    /\ Take(DelegateVault[t], t)
    /\ Goto(t, "delegateStart")
    /\ UNCHANGED <<attempt, calls, timedOut, lateCall, result, leaked, slots, flagVars, historyVars>>

\* Mutant: the delegate gives back a lock that its caller took.
LeaveDelegateReleasing(t) ==
    /\ Goto(t, "run")
    /\ lateCall' = lateCall \ {t}
    /\ Release(DelegateVault[t])
    /\ UNCHANGED <<attempt, calls, timedOut, result, leaked, slots, flagVars, historyVars>>

\* Whatever came out, the caller's graph gets the answer of a tool.
LeaveDelegate(t) ==
    /\ Goto(t, "run")
    /\ lateCall' = lateCall \ {t}
    /\ IF SameVault(t) THEN UNCHANGED holder ELSE Release(DelegateVault[t])
    /\ UNCHANGED <<attempt, calls, timedOut, result, leaked, slots, flagVars, historyVars>>

\* Mutant: an interrupted delegate leaves without its finally.
DelegateStoppedHolding(t) ==
    /\ pc[t] = "delegateStart"
    /\ Flagged(t)
    /\ Goto(t, "run")
    /\ UNCHANGED <<attempt, calls, timedOut, lateCall, result, lockVars, flagVars, historyVars>>

DelegateStopped(t) ==
    /\ pc[t] = "delegateStart"
    /\ Flagged(t)
    /\ LeaveDelegate(t)

DelegateCheckFlags(t) ==
    /\ pc[t] = "delegateStart"
    /\ ~Flagged(t)
    /\ Goto(t, "delegateClear")
    /\ UNCHANGED <<attempt, calls, timedOut, lateCall, result, lockVars, flagVars, historyVars>>

DelegateSubmit(t) ==
    /\ pc[t] = "delegateClear"
    /\ Goto(t, "delegateRun")
    /\ interrupt' = interrupt \ {ChatOf[t]}
    /\ UNCHANGED <<attempt, calls, timedOut, lateCall, result, lockVars, cancel, historyVars>>

DelegateTimeout(t) ==
    /\ pc[t] = "delegateRun"
    /\ t \notin lateCall
    /\ lateCall' = lateCall \cup {t}
    /\ PassLimit(t)
    /\ UNCHANGED <<pc, attempt, calls, timedOut, result, lockVars, cancel, cancels, asked>>

DelegateEnds(t) ==
    /\ pc[t] = "delegateRun"
    /\ LeaveDelegate(t)

-----------------------------------------------------------------------------
(* finalize_invoke_worker_cleanup, and the routing that follows.           *)

\* Mutant: one attempt too many.
ReplanOnceMore(t) == result[t] = "transient" /\ attempt[t] < MaxAttempts

Replan(t) == result[t] = "transient" /\ attempt[t] + 1 < MaxAttempts

Cleanup(t) ==
    /\ pc[t] \in {"cleanup", "cleanupUnlocked"}
    /\ slots' = slots \ {t}
    /\ IF pc[t] = "cleanup" THEN Release(VaultOf[t]) ELSE UNCHANGED holder
    /\ timedOut' = timedOut \ {t}
    /\ calls' = [calls EXCEPT ![t] = 0]
    /\ \/ /\ Replan(t)
          /\ attempt' = [attempt EXCEPT ![t] = @ + 1]
          /\ Goto(t, "plan")
       \/ /\ ~Replan(t)
          /\ Goto(t, "reply")
          /\ UNCHANGED attempt
    /\ UNCHANGED <<lateCall, result, leaked, flagVars, historyVars>>

\* append_task_audit on a writable database raises: the turn fails, and the
\* statements behind it, the release of the lock among them, are not run.
AuditFails(t) ==
    /\ pc[t] \in {"cleanup", "cleanupUnlocked"}
    /\ slots' = slots \ {t}
    /\ IF pc[t] = "cleanup"
       THEN leaked' = leaked \cup {VaultOf[t]} /\ Release(VaultOf[t])
       ELSE UNCHANGED <<leaked, holder>>
    /\ timedOut' = timedOut \ {t}
    /\ result' = [result EXCEPT ![t] = "failed"]
    /\ Goto(t, "over")
    /\ UNCHANGED <<attempt, calls, lateCall, flagVars, historyVars>>

ThreadStep(t) ==
    \/ StopBeforeInvoke(t) \/ NoWorker(t) \/ TakeSlot(t)
    \/ VaultOf[t] \notin leaked /\ LockVault(t)
    \/ StopAtStart(t) \/ CheckFlags(t) \/ Submit(t)
    \/ GraphReturns(t) \/ GraphStops(t)
    \/ DelegateVault[t] \notin leaked /\ LockDelegateVault(t)
    \/ DelegateStopped(t) \/ DelegateCheckFlags(t) \/ DelegateSubmit(t) \/ DelegateEnds(t)
    \/ Cleanup(t) \/ Reply(t)

Next ==
    \/ \E t \in Turn :
          \/ Begin(t) \/ StopBeforeInvoke(t) \/ NoWorker(t) \/ TakeSlot(t)
          \/ LockVault(t) \/ PreparationFails(t) \/ StopAtStart(t) \/ CheckFlags(t) \/ Submit(t)
          \/ Timeout(t) \/ GraphReturns(t) \/ GraphStops(t)
          \/ Delegate(t) \/ LockDelegateVault(t) \/ DelegateStopped(t)
          \/ DelegateCheckFlags(t) \/ DelegateSubmit(t) \/ DelegateTimeout(t)
          \/ DelegateEnds(t) \/ Cleanup(t) \/ AuditFails(t) \/ Reply(t)
    \/ \E c \in Chat : RequestCancel(c) \/ FlagsExpire(c)

Spec == Init /\ [][Next]_vars

\* Every thread goes on running; a graph does not run for ever (LangGraph's
\* recursion limit) and its calls return.  Nobody has to time out or cancel.
FairSpec == Spec /\ \A t \in Turn : WF_vars(ThreadStep(t))

-----------------------------------------------------------------------------
\* Every variable has its type; a plan is made MaxAttempts times at most.
TypeOK ==
    /\ pc \in [Turn -> PC]
    /\ attempt \in [Turn -> 0 .. MaxAttempts - 1]
    /\ calls \in [Turn -> 0 .. MaxCalls]
    /\ timedOut \in SUBSET Turn
    /\ lateCall \in SUBSET Turn
    /\ result \in [Turn -> Result]
    /\ holder \in [Vault -> Turn \cup {NoTurn}]
    /\ leaked \in SUBSET Vault
    /\ slots \in SUBSET Turn
    /\ cancel \in SUBSET Chat
    /\ interrupt \in SUBSET Chat
    /\ cancels \in 0 .. MaxCancels
    /\ asked \in SUBSET Turn
    /\ struck \in SUBSET Turn

\* The vaults where a turn runs a graph: its worker's, and its delegate's.  (The
\* handle of a graph in the cache stays open in between.)
Open(t) ==
    {v \in Vault : \/ pc[t] \in HoldsVault /\ v = VaultOf[t]
                   \/ pc[t] \in Delegating \ {"wantDelegate"} /\ v = DelegateVault[t]}

\* Two turns never run a graph over the same vault at once, whether as the worker
\* of their turn or as a delegate, and whatever limits pass: a delegate
\* in the vault of its caller does not give the caller's lock away, and a graph
\* that outlived its limit still counts (manager_nodes_invoke.py:239, worker_
\* invoke.py:287-302, 451-458).
VaultExclusive == \A t, u \in Turn : t # u => Open(t) \cap Open(u) = {}

\* A turn that waits for nothing, or is over, holds no lock and no slot, on
\* every path out of the node: interrupted, late, failed, or planned again.  The
\* one leak is the lock kept when the audit of a turn raised
\* (manager_invoke_helpers.py:429-443).
NothingHeld ==
    \A t \in Turn :
        /\ t \in slots <=> pc[t] \in HoldsSlot
        /\ \A v \in Vault : holder[v] = t <=> v \in Open(t)

\* A turn is answered with "Interrumpido." only if, after it began, somebody
\* asked its chat to stop or a wall-clock limit passed in it: never for a flag
\* left by an earlier turn (chat_invoke_prepare.py:71-72).
InterruptedForACause ==
    \A t \in Turn : result[t] = "interrupted" => t \in asked \cup struck

\* A turn that has begun ends, whatever the others do: waiting for the lock of a
\* vault, for a delegate and for a new plan all come to an end, as long as no two
\* workers delegate in a circle and no lock was kept.
TurnEnds == \A t \in Turn : pc[t] = "plan" ~> (pc[t] = "over" \/ leaked # {})
=============================================================================
