------------------------------- MODULE LoopTicks -------------------------------
(***************************************************************************)
(* The cycles of /loop --delta in a chat: pollers (the heartbeat, and the  *)
(* ticker that a gateway may embed, heartbeat/main.py) that read the       *)
(* state of the loop from the vault, guard a cycle with a flag, post it to *)
(* the gateway and write the outcome back; the turns of the user and the   *)
(* /loop commands (commands/loop.py), which write the same keys.  Every    *)
(* write goes through the queue of the DB writer and is waited for only so *)
(* long.                                                                   *)
(*                                                                         *)
(* A point in time is modelled by its age in intervals, up to Stale.       *)
(***************************************************************************)
EXTENDS Integers, Sequences

CONSTANTS
    Poller,       \* processes that run the ticker
    Commands,     \* the /loop commands given: subset of {"idle", "clock", "off"}
    MaxRequests,  \* bound: commands and turns of the user
    MaxFaults,    \* bound: restarts and writes that fail
    MaxQueue      \* bound: a write is waited for when so many are in the queue

ASSUME LoopAssumption ==
    /\ Commands \subseteq {"idle", "clock", "off"}
    /\ MaxRequests \in Nat
    /\ MaxFaults \in Nat
    /\ MaxQueue \in Nat

Never == -1
Interval == 1
Stale == 2 * Interval
Ages == Never .. Stale

User == "user"

ASSUME UserAssumption == User \notin Poller

\* Who writes: the poll of a process, the task of a cycle, the gateway at the end of
\* the turn of a cycle, the user's side.
Poll(p) == <<p, "poll">>
Cycle(p) == <<p, "cycle">>
Gate(p) == <<p, "gate">>
Side == <<User, "side">>
Author == {Side} \cup UNION {{Poll(p), Cycle(p), Gate(p)} : p \in Poller}

\* The keys of agent_config: the interval is set, the mode is idle, the last
\* cycle of the clock, the last activity, a cycle is pending, one was missed.
Flags == {"secs", "idle", "pending", "catchup"}
Times == {"fire", "act"}

VARIABLES
    cfg,       \* agent_config of the chat
    writes,    \* its writes in the queue of the DB writer: [by, key, value]
    pc,        \* where each poller is: "sleep", "flag", "unflagged", "guard"
    idleMode,  \* what its read of the mode was (idle_mode)
    cycle,     \* its _PROACTIVE_IN_FLIGHT task
    todo,      \* the writes that a task, the gateway or the user's side has still to make
    running,   \* whose turns of the chat run at the gateway: User, a poller
    busy,      \* the chat is marked BUSY
    user,      \* the user's side: "none", "turn", a command, "touch"
    requests, faults

pollVars == <<pc, idleMode>>
chatVars == <<running, busy>>
userVars == <<user, requests>>
vars == <<cfg, writes, pollVars, cycle, todo, chatVars, userVars, faults>>

\* at: where the task is.  idle: its mode.  age: of the poll that started it, which the
\* clock looks at.
\* retried: its request was sent again.
NoCycle == [at |-> "none", idle |-> FALSE, age |-> 0, retried |-> FALSE]

\* An age, as long as it is told apart.
Older(a, most) == IF a = Never \/ a = most THEN a ELSE a + 1
Request == requests < MaxRequests /\ requests' = requests + 1
Fault == faults < MaxFaults /\ faults' = faults + 1

Off == [secs |-> FALSE, idle |-> FALSE, fire |-> Never, act |-> Never,
        pending |-> FALSE, catchup |-> FALSE]
On == [Off EXCEPT !.secs = TRUE, !.idle = TRUE, !.act = 0]

Init ==
    /\ cfg \in {Off, On}
    /\ writes = <<>>
    /\ pc = [p \in Poller |-> "sleep"]
    /\ idleMode = [p \in Poller |-> FALSE]
    /\ cycle = [p \in Poller |-> NoCycle]
    /\ todo = [a \in Author |-> <<>>]
    /\ running = {}
    /\ busy = FALSE
    /\ user = "none"
    /\ requests = 0 /\ faults = 0

-----------------------------------------------------------------------------
(* The queue of the DB writer, and time.                                   *)

Write(a, key, value) == writes' = Append(writes, [by |-> a, key |-> key, value |-> value])

\* poll_task_status_sync: the write was applied, or 30 s have passed.
Waited(a) ==
    \/ \A i \in DOMAIN writes : writes[i].by # a
    \/ Len(writes) < MaxQueue

\* The next write of a list, once the one before it was waited for.
NextWrite(a) ==
    /\ todo[a] # <<>>
    /\ Waited(a)
    /\ Write(a, Head(todo[a]).key, Head(todo[a]).value)
    /\ todo' = [todo EXCEPT ![a] = Tail(@)]

Apply ==
    /\ writes # <<>>
    /\ cfg' = [cfg EXCEPT ![Head(writes).key] = Head(writes).value]
    /\ writes' = Tail(writes)
    /\ UNCHANGED <<pollVars, cycle, todo, chatVars, userVars, faults>>

\* An interval is a minute at least: the writes under way are made and applied
\* within it.
TimePasses ==
    /\ writes = <<>>
    /\ \A a \in Author : todo[a] = <<>>
    /\ \A p \in Poller : pc[p] = "sleep"
    /\ cfg' = [cfg EXCEPT !.fire = Older(@, Interval), !.act = Older(@, Stale)]
    /\ cycle' = [p \in Poller |-> IF cycle[p].at # "none" /\ ~cycle[p].idle
                                  THEN [cycle[p] EXCEPT !.age = Older(@, Interval)]
                                  ELSE cycle[p]]
    /\ UNCHANGED <<writes, pollVars, todo, chatVars, userVars, faults>>

\* set_busy has a time to live of an hour; no turn is as long here.
BusyExpires ==
    /\ busy /\ running = {}
    /\ busy' = FALSE
    /\ UNCHANGED <<cfg, writes, pollVars, cycle, todo, running, userVars, faults>>

-----------------------------------------------------------------------------
(* The user's side: turns of the chat, and /loop commands.                 *)

Set(key, value) == <<[key |-> key, value |-> value]>>

\* touch_loop_last_activity.
Touch == Set("act", 0) \o Set("pending", FALSE)

\* apply_loop_idle_schedule, apply_loop_schedule, clear_loop_schedule.
WritesOf(command) ==
    CASE command = "idle"  -> Set("secs", TRUE) \o Set("idle", TRUE) \o Set("fire", Never) \o Touch
      [] command = "clock" -> Set("secs", TRUE) \o Set("idle", FALSE) \o Set("fire", 0)
      [] command = "off"   -> Set("secs", FALSE) \o Set("idle", FALSE) \o Set("fire", Never)
                                \o Set("act", Never) \o Set("pending", FALSE)

Command(command) ==
    /\ user = "none"
    /\ Request
    /\ user' = command
    /\ todo' = [todo EXCEPT ![Side] = WritesOf(command)]
    /\ UNCHANGED <<cfg, writes, pollVars, cycle, chatVars, faults>>

UserTurnBegins ==
    /\ user = "none"
    /\ Request
    /\ user' = "turn"
    /\ running' = running \cup {User}
    /\ busy' = TRUE
    /\ UNCHANGED <<cfg, writes, pollVars, cycle, todo, faults>>

\* _touch_loop_activity_if_configured, in the finalisation of either.
UserTurnEnds ==
    /\ \/ user = "turn"
       \/ user \in Commands /\ todo[Side] = <<>> /\ Waited(Side)
    /\ user' = "touch"
    /\ running' = running \ {User}
    /\ busy' = (busy /\ user # "turn")
    /\ todo' = [todo EXCEPT ![Side] = Touch]
    /\ UNCHANGED <<cfg, writes, pollVars, cycle, requests, faults>>

UserWrites ==
    /\ \/ NextWrite(Side) /\ UNCHANGED user
       \/ /\ user = "touch" /\ todo[Side] = <<>> /\ Waited(Side)
          /\ user' = "none"
          /\ UNCHANGED <<writes, todo>>
    /\ UNCHANGED <<cfg, pollVars, cycle, chatVars, requests, faults>>

-----------------------------------------------------------------------------
(* The poller: _run_loop_proactive_tick_one_db.                            *)

\* Mutant: a cycle that is pending bars the next one for good.
PendingForEver == cfg.pending

\* A pending cycle is taken for dead after two intervals.
PendingBars == cfg.pending /\ cfg.act < Stale

Due ==
    /\ cfg.secs
    /\ \/ cfg.catchup
       \/ cfg.idle /\ cfg.act >= Interval /\ ~PendingBars
       \/ ~cfg.idle /\ (cfg.fire = Never \/ cfg.fire >= Interval)

\* Mutant: a poller does not look for the cycle it has started.
Unaware(p) == FALSE

\* _proactive_busy.
InFlight(p) == cycle[p].at # "none"

\* A cycle that is due is posted, under its flag, unless one is under way.
Decide(p, idle) ==
    /\ IF ~InFlight(p) /\ idle THEN Write(Poll(p), "pending", TRUE) ELSE UNCHANGED writes
    /\ pc' = [pc EXCEPT ![p] = IF InFlight(p) THEN "sleep" ELSE "guard"]
    /\ idleMode' = [idleMode EXCEPT ![p] = idle /\ ~InFlight(p)]

\* The reads of a tick, up to its first await.  A cycle that is due while the
\* chat is BUSY is to be caught up with.
Tick(p) ==
    /\ pc[p] = "sleep"
    /\ Due
    /\ \/ /\ busy
          /\ Write(Poll(p), "catchup", TRUE)
          /\ pc' = [pc EXCEPT ![p] = "flag"]
          /\ idleMode' = [idleMode EXCEPT ![p] = cfg.idle]
       \/ ~busy /\ Decide(p, cfg.idle)
    /\ UNCHANGED <<cfg, cycle, todo, chatVars, userVars, faults>>

ToSleep(p) ==
    /\ pc' = [pc EXCEPT ![p] = "sleep"]
    /\ idleMode' = [idleMode EXCEPT ![p] = FALSE]

Flagged(p) ==
    /\ pc[p] = "flag"
    /\ Waited(Poll(p))
    /\ ToSleep(p)
    /\ UNCHANGED <<cfg, writes, cycle, todo, chatVars, userVars, faults>>

\* The write of the catch-up failed: its "except Exception: pass".
Unflagged(p) ==
    /\ pc[p] = "unflagged"
    /\ Decide(p, idleMode[p])
    /\ UNCHANGED <<cfg, cycle, todo, chatVars, userVars, faults>>

\* _spawn_proactive.
Spawn(p) ==
    /\ pc[p] = "guard"
    /\ Waited(Poll(p))
    /\ cycle' = [cycle EXCEPT ![p] = [NoCycle EXCEPT !.at = "posted", !.idle = idleMode[p]]]
    /\ ToSleep(p)
    /\ UNCHANGED <<cfg, writes, todo, chatVars, userVars, faults>>

PollStep(p) == Tick(p) \/ Flagged(p) \/ Unflagged(p) \/ Spawn(p)

-----------------------------------------------------------------------------
(* The task of a cycle: _deliver_loop_turn.  The turns of a chat overlap:   *)
(* those of a loop skip its lock (skip_session_lock).                      *)

TurnBegins(p) ==
    /\ cycle[p].at = "posted"
    /\ p \notin running
    /\ running' = running \cup {p}
    /\ busy' = TRUE
    /\ cycle' = [cycle EXCEPT ![p].at = "turn"]
    /\ UNCHANGED <<cfg, writes, pollVars, todo, userVars, faults>>

Outcome(p) ==
    Set("catchup", FALSE)
      \o (IF cycle[p].idle THEN Touch ELSE Set("fire", cycle[p].age))

\* Mutant: a cycle that failed leaves its flag.
LeaveFlag(p) == <<>>

AfterFailure(p) == IF cycle[p].idle THEN Set("pending", FALSE) ELSE <<>>

\* The turn ends at the gateway, which touches the loop if the exchange was
\* persisted (_touch_loop_activity_if_configured).
TurnEnds(p) ==
    /\ p \in running
    /\ todo[Gate(p)] = <<>>
    /\ running' = running \ {p}
    /\ busy' = FALSE
    /\ \E list \in {Touch, <<>>} : todo' = [todo EXCEPT ![Gate(p)] = list]
    /\ cycle' = IF cycle[p].at = "turn" THEN [cycle EXCEPT ![p].at = "answer"] ELSE cycle
    /\ UNCHANGED <<cfg, writes, pollVars, userVars, faults>>

GatewayTouches(p) ==
    /\ NextWrite(Gate(p))
    /\ UNCHANGED <<cfg, pollVars, cycle, chatVars, userVars, faults>>

\* The task, unless its process restarted, goes on with the answer: 2xx or an error.
Answered(p) ==
    /\ cycle[p].at = "answer"
    /\ todo[Gate(p)] = <<>> /\ Waited(Gate(p))
    /\ cycle' = [cycle EXCEPT ![p] = [NoCycle EXCEPT !.at = "writing", !.idle = cycle[p].idle]]
    /\ \E list \in {Outcome(p), AfterFailure(p)} : todo' = [todo EXCEPT ![Cycle(p)] = list]
    /\ UNCHANGED <<cfg, writes, pollVars, chatVars, userVars, faults>>

CycleWrites(p) ==
    /\ \/ NextWrite(Cycle(p)) /\ UNCHANGED cycle
       \/ /\ cycle[p].at \in {"writing", "clearing"}
          /\ todo[Cycle(p)] = <<>> /\ Waited(Cycle(p))
          /\ cycle' = [cycle EXCEPT ![p] = NoCycle]
          /\ UNCHANGED <<writes, todo>>
    /\ UNCHANGED <<cfg, pollVars, chatVars, userVars, faults>>

CycleStep(p) ==
    TurnBegins(p) \/ TurnEnds(p) \/ GatewayTouches(p) \/ Answered(p) \/ CycleWrites(p)

-----------------------------------------------------------------------------
(* What goes wrong.                                                        *)

\* The process of a poller restarts; a turn at the gateway goes on.
PollerRestarts(p) ==
    /\ Fault
    /\ ToSleep(p)
    /\ cycle' = [cycle EXCEPT ![p] = NoCycle]
    /\ todo' = [todo EXCEPT ![Cycle(p)] = <<>>]
    /\ UNCHANGED <<cfg, writes, chatVars, userVars>>

\* The gateway restarts in the middle of a cycle's turn, or before it answers: the
\* mark BUSY stays, and the request is sent once more (post_loop_self_tick_async).
GatewayRestarts(p) ==
    /\ cycle[p].at \in {"turn", "answer"}
    /\ Fault
    /\ running' = running \ {p}
    /\ IF cycle[p].retried
       THEN /\ cycle' = [cycle EXCEPT ![p].at = "writing"]
            /\ todo' = [todo EXCEPT ![Cycle(p)] = AfterFailure(p), ![Gate(p)] = <<>>]
       ELSE /\ cycle' = [cycle EXCEPT ![p].at = "posted", ![p].retried = TRUE]
            /\ todo' = [todo EXCEPT ![Gate(p)] = <<>>]
    /\ UNCHANGED <<cfg, writes, pollVars, busy, userVars>>

\* The author of the write at the head waits for it and is told that it failed.
StillWaits(a) ==
    /\ Head(writes).by = a
    /\ \A i \in 2..Len(writes) : writes[i].by # a

\* RuntimeError: out of the tick, except from the BUSY check.
TellPoll(p) ==
    /\ \/ /\ StillWaits(Poll(p)) /\ pc[p] = "flag"
          /\ pc' = [pc EXCEPT ![p] = "unflagged"]
          /\ UNCHANGED idleMode
       \/ StillWaits(Poll(p)) /\ pc[p] = "guard" /\ ToSleep(p)
       \/ ~(StillWaits(Poll(p)) /\ pc[p] \in {"flag", "guard"}) /\ UNCHANGED pollVars
    /\ UNCHANGED <<cycle, todo>>

\* The task falls into its except branch; an error there is swallowed.
TellCycle(p) ==
    /\ IF StillWaits(Cycle(p)) /\ cycle[p].at = "writing"
       THEN /\ cycle' = [cycle EXCEPT ![p].at = "clearing"]
            /\ todo' = [todo EXCEPT ![Cycle(p)] = AfterFailure(p)]
       ELSE UNCHANGED <<cycle, todo>>
    /\ UNCHANGED pollVars

\* A command that sets the loop up gives up at the first key, except at the last
\* ones (touch_loop_last_activity, the anchor of the clock); "off" goes on.
TellUser ==
    /\ todo' = IF /\ StillWaits(Side)
                  /\ user \in {"idle", "clock"}
                  /\ Head(writes).key \notin {"act", "pending"}
               THEN [todo EXCEPT ![Side] = <<>>] ELSE todo
    /\ UNCHANGED <<pollVars, cycle>>

Reject ==
    /\ writes # <<>>
    /\ Fault
    /\ \/ \E p \in Poller : Head(writes).by = Poll(p) /\ TellPoll(p)
       \/ \E p \in Poller : Head(writes).by = Cycle(p) /\ TellCycle(p)
       \/ Head(writes).by = Side /\ TellUser
       \/ /\ \E p \in Poller : Head(writes).by = Gate(p)
          /\ UNCHANGED <<pollVars, cycle, todo>>
    /\ writes' = Tail(writes)
    /\ UNCHANGED <<cfg, chatVars, userVars>>

Failure == Reject \/ \E p \in Poller : PollerRestarts(p) \/ GatewayRestarts(p)

-----------------------------------------------------------------------------
Next ==
    \/ Apply \/ TimePasses \/ BusyExpires
    \/ \E c \in Commands : Command(c)
    \/ UserTurnBegins \/ UserTurnEnds \/ UserWrites
    \/ \E p \in Poller : PollStep(p) \/ CycleStep(p)
    \/ Failure

\* The writer consumes its queue, time passes and Redis expires what is due; a
\* process that runs goes on, and a turn that has begun ends.
Fairness ==
    /\ WF_vars(Apply) /\ SF_vars(TimePasses) /\ WF_vars(BusyExpires)
    /\ WF_vars(UserTurnEnds) /\ WF_vars(UserWrites)
    /\ \A p \in Poller : WF_vars(PollStep(p)) /\ WF_vars(CycleStep(p))

Spec == Init /\ [][Next]_vars
FairSpec == Spec /\ Fairness

-----------------------------------------------------------------------------
(* Properties                                                              *)

Writing == {"writing", "clearing"}
WriteSet(as) == [by : as, key : Flags, value : BOOLEAN] \cup [by : as, key : Times, value : Ages]

\* Every variable has its type; only a task that has its answer has writes to
\* make, so no task was replaced while it ran (_proactive_busy, _spawn_proactive).
TypeOK ==
    /\ \A k \in Flags : cfg[k] \in BOOLEAN
    /\ \A k \in Times : cfg[k] \in Ages
    /\ \A i \in DOMAIN writes : writes[i] \in WriteSet(Author)
    /\ pc \in [Poller -> {"sleep", "flag", "unflagged", "guard"}]
    /\ idleMode \in [Poller -> BOOLEAN]
    /\ cycle \in [Poller -> [at : {"none", "posted", "turn", "answer"} \cup Writing,
                             idle : BOOLEAN, age : 0 .. Interval, retried : BOOLEAN]]
    /\ \A p \in Poller : todo[Cycle(p)] # <<>> => cycle[p].at \in Writing
    /\ running \subseteq Poller \cup {User}
    /\ busy \in BOOLEAN
    /\ user \in {"none", "turn", "touch"} \cup Commands
    /\ requests \in 0 .. MaxRequests
    /\ faults \in 0 .. MaxFaults

\* "Cleared on success/failure below -- never leave pending=1 after a completed
\* tick": when no poller, task or write is on its way and nothing went wrong, the
\* flag is down, however many pollers raised it and whatever /loop was given.
NothingLeftPending ==
    /\ \A p \in Poller : pc[p] = "sleep" /\ cycle[p].at = "none"
    /\ writes = <<>> /\ faults = 0
    => ~cfg.pending

\* A loop that stays on keeps ticking, although a restart loses the task of a
\* cycle and leaves its flag: no flag, no BUSY mark and no lost write stops it.
\* (A loop of the idle mode needs an anchor: /loop --delta does not look whether
\* its touch was written.)
Ticking == cfg.secs /\ (cfg.idle => cfg.act # Never)
KeepsTicking == <>[]Ticking => []<>(\E p \in Poller : p \in running)
=============================================================================
