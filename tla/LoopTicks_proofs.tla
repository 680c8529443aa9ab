--------------------------- MODULE LoopTicks_proofs ---------------------------
(***************************************************************************)
(* For any pollers, commands and turns, and any number of faults: the      *)
(* state of the loop is type correct, and no cycle leaves its flag up.     *)
(***************************************************************************)
EXTENDS LoopTicks, SequenceTheorems, TLAPS

-----------------------------------------------------------------------------
(* The inductive invariant *)

\* What a task has to write, and an entry of the queue: only a poller raises the
\* flag, and the interval of the clock is never counted past one.
Item == [key : Flags \ {"pending"}, value : BOOLEAN]
          \cup [key : {"pending"}, value : {FALSE}]
          \cup [key : {"fire"}, value : Never .. Interval]
          \cup [key : {"act"}, value : Ages]
Entry == [by : Author, key : Flags, value : BOOLEAN]
           \cup [by : Author, key : {"fire"}, value : Never .. Interval]
           \cup [by : Author, key : {"act"}, value : Ages]

Places == {"none", "posted", "turn", "answer", "writing", "clearing"}
CycleType == [at : Places, idle : BOOLEAN, age : 0 .. Interval, retried : BOOLEAN]

CfgTypes ==
    /\ DOMAIN cfg = Flags \cup Times
    /\ \A k \in Flags : cfg[k] \in BOOLEAN
    /\ cfg["fire"] \in Never .. Interval
    /\ cfg["act"] \in Ages

QueueTypes ==
    /\ writes \in Seq(Entry)
    /\ todo \in [Author -> Seq(Item)]

ProcessTypes ==
    /\ pc \in [Poller -> {"sleep", "flag", "unflagged", "guard"}]
    /\ idleMode \in [Poller -> BOOLEAN]
    /\ cycle \in [Poller -> CycleType]
    /\ running \subseteq Poller \cup {User}
    /\ busy \in BOOLEAN
    /\ user \in {"none", "turn", "touch"} \cup Commands
    /\ requests \in 0 .. MaxRequests
    /\ faults \in 0 .. MaxFaults

\* Only a task that has its answer has writes to make, and a poller guards a
\* cycle only when its last one is over.
TasksOK ==
    \A p \in Poller : /\ todo[Cycle(p)] # <<>> => cycle[p].at \in Writing
                      /\ pc[p] = "guard" => cycle[p].at = "none"

LoopTypes == CfgTypes /\ QueueTypes /\ ProcessTypes /\ TasksOK

\* The state (0) or a write in the queue has the flag up, and a later write of
\* the queue takes it down.
Lowers(w) == w.key = "pending" /\ w.value = FALSE
RaisedAt(k) == IF k = 0 THEN cfg["pending"] = TRUE
               ELSE writes[k].key = "pending" /\ writes[k].value = TRUE
LoweredAfter(k) == \E j \in 1..Len(writes) : j > k /\ Lowers(writes[j])

\* Who will still take the flag down: the poller that guards an idle cycle with
\* it, its task until the answer, and then the writes of that task.
Pursues(p) ==
    \/ pc[p] = "guard" /\ idleMode[p] = TRUE
    \/ cycle[p].at \in {"posted", "turn", "answer"} /\ cycle[p].idle = TRUE
    \/ cycle[p].at = "writing" /\ \E i \in 1..Len(todo[Cycle(p)]) : Lowers(todo[Cycle(p)][i])

AllLowered == \A k \in 0..Len(writes) : RaisedAt(k) => LoweredAfter(k)
Pursued == faults = 0 => AllLowered \/ \E p \in Poller : Pursues(p)

LoopIInv == LoopTypes /\ Pursued

-----------------------------------------------------------------------------
(* What is written, and by whom *)

\* The poll, the task, the gateway and the user's side write under names of their own.
LEMMA AuthorFacts ==
    /\ Side \in Author
    /\ \A p \in Poller : /\ Poll(p) \in Author /\ Cycle(p) \in Author /\ Gate(p) \in Author
                         /\ Cycle(p) # Side /\ Poll(p) # Side
    /\ \A p, q \in Poller : /\ Cycle(p) # Poll(q) /\ Cycle(p) # Gate(q)
                            /\ Cycle(p) = Cycle(q) => p = q
<1>1. Side \in Author
  BY DEF Author
<1>2. ASSUME NEW p \in Poller
      PROVE  Poll(p) \in Author /\ Cycle(p) \in Author /\ Gate(p) \in Author
  BY <1>2 DEF Author
<1>3. ASSUME NEW p \in Poller
      PROVE  Cycle(p) # Side /\ Poll(p) # Side
  BY DEF Side, Poll, Cycle
<1>4. ASSUME NEW p \in Poller, NEW q \in Poller
      PROVE  /\ Cycle(p) # Poll(q) /\ Cycle(p) # Gate(q)
             /\ Cycle(p) = Cycle(q) => p = q
  BY DEF Poll, Cycle, Gate
<1> QED
  BY <1>1, <1>2, <1>3, <1>4

\* An entry of the queue is an item and its author.
LEMMA EntryFacts ==
    /\ \A a \in Author, x \in Item : [by |-> a, key |-> x.key, value |-> x.value] \in Entry
    /\ \A w \in Entry : /\ w \in WriteSet(Author)
                        /\ w.key \in Flags \cup Times
                        /\ w.key \in Flags => w.value \in BOOLEAN
                        /\ w.key = "fire" => w.value \in Never .. Interval
                        /\ w.key = "act" => w.value \in Ages
    /\ \A a \in Author, k \in Flags, v \in BOOLEAN : [by |-> a, key |-> k, value |-> v] \in Entry
<1>1. ASSUME NEW a \in Author, NEW x \in Item
      PROVE  [by |-> a, key |-> x.key, value |-> x.value] \in Entry
  <2>1. \/ x \in [key : Flags, value : BOOLEAN]
        \/ x \in [key : {"fire"}, value : Never .. Interval]
        \/ x \in [key : {"act"}, value : Ages]
    BY DEF Item, Flags
  <2> QED
    BY <2>1 DEF Entry
<1>2. ASSUME NEW w \in Entry
      PROVE  /\ w \in WriteSet(Author)
             /\ w.key \in Flags \cup Times
             /\ w.key \in Flags => w.value \in BOOLEAN
             /\ w.key = "fire" => w.value \in Never .. Interval
             /\ w.key = "act" => w.value \in Ages
  BY DEF Entry, WriteSet, Flags, Times, Ages, Never, Interval, Stale
<1>3. ASSUME NEW a \in Author, NEW k \in Flags, NEW v \in BOOLEAN
      PROVE  [by |-> a, key |-> k, value |-> v] \in Entry
  BY DEF Entry
<1> QED
  BY <1>1, <1>2, <1>3

\* An item that is about the flag takes it down.
LEMMA ItemFacts ==
    /\ \A k \in Flags \ {"pending"}, v \in BOOLEAN : [key |-> k, value |-> v] \in Item
    /\ [key |-> "pending", value |-> FALSE] \in Item
    /\ \A v \in Never .. Interval : [key |-> "fire", value |-> v] \in Item
    /\ \A v \in Ages : [key |-> "act", value |-> v] \in Item
    /\ \A x \in Item : x.key = "pending" => Lowers(x)
<1>1. \A x \in Item : x.key = "pending" => Lowers(x)
  BY DEF Item, Lowers
<1> QED
  BY <1>1 DEF Item

\* The lists that the tasks and the commands write.
LEMMA ListTypes ==
    /\ Touch \in Seq(Item)
    /\ \A c \in {"idle", "clock", "off"} : WritesOf(c) \in Seq(Item)
    /\ \A p \in Poller : cycle[p] \in CycleType =>
          Outcome(p) \in Seq(Item) /\ AfterFailure(p) \in Seq(Item)
<1>1. /\ \A k \in Flags \ {"pending"}, v \in BOOLEAN : Set(k, v) \in Seq(Item)
      /\ Set("pending", FALSE) \in Seq(Item)
      /\ \A v \in Never .. Interval : Set("fire", v) \in Seq(Item)
      /\ \A v \in Ages : Set("act", v) \in Seq(Item)
  BY ItemFacts DEF Set
<1>2. \A s, t \in Seq(Item) : s \o t \in Seq(Item)
  OBVIOUS
<1>3. <<>> \in Seq(Item)
  OBVIOUS
<1>4. /\ 0 \in Ages /\ Never \in Ages /\ 0 \in Never .. Interval /\ Never \in Never .. Interval
      /\ 0 .. Interval \subseteq Never .. Interval
      /\ {"secs", "idle", "catchup"} = Flags \ {"pending"}
  BY DEF Ages, Never, Interval, Stale, Flags
<1>5. Touch \in Seq(Item)
  BY <1>1, <1>2, <1>4 DEF Touch
<1>6. ASSUME NEW c \in {"idle", "clock", "off"}
      PROVE  WritesOf(c) \in Seq(Item)
  <2>1. CASE c = "idle"
    BY <2>1, <1>1, <1>2, <1>4, <1>5 DEF WritesOf
  <2>2. CASE c = "clock"
    BY <2>2, <1>1, <1>2, <1>4 DEF WritesOf
  <2>3. CASE c = "off"
    BY <2>3, <1>1, <1>2, <1>4 DEF WritesOf
  <2> QED
    BY <2>1, <2>2, <2>3
<1>7. ASSUME NEW p \in Poller, cycle[p] \in CycleType
      PROVE  Outcome(p) \in Seq(Item) /\ AfterFailure(p) \in Seq(Item)
  <2>1. cycle[p].age \in Never .. Interval
    BY <1>4, <1>7 DEF CycleType
  <2> QED
    BY <2>1, <1>1, <1>2, <1>3, <1>4, <1>5 DEF Outcome, AfterFailure
<1> QED
  BY <1>5, <1>6, <1>7

-----------------------------------------------------------------------------
(* The types *)

\* A write that is made, and one that is taken from the queue.
LEMMA WriteTypes ==
    ASSUME QueueTypes, NEW a \in Author
    PROVE  /\ \A x \in Item : Write(a, x.key, x.value) => writes' \in Seq(Entry)
           /\ \A k \in Flags, v \in BOOLEAN : Write(a, k, v) => writes' \in Seq(Entry)
           /\ writes # <<>> => Head(writes) \in Entry /\ Tail(writes) \in Seq(Entry)
           /\ NextWrite(a) => /\ QueueTypes'
                              /\ todo[a] # <<>> /\ todo[a] \in Seq(Item)
                              /\ todo' = [todo EXCEPT ![a] = Tail(@)]
<1>1. \A w \in Entry : Append(writes, w) \in Seq(Entry)
  BY DEF QueueTypes
<1>2. ASSUME NEW x \in Item, Write(a, x.key, x.value)
      PROVE  writes' \in Seq(Entry)
  BY <1>1, <1>2, EntryFacts DEF Write
<1>3. ASSUME NEW k \in Flags, NEW v \in BOOLEAN, Write(a, k, v)
      PROVE  writes' \in Seq(Entry)
  BY <1>1, <1>3, EntryFacts DEF Write
<1>4. ASSUME NextWrite(a)
      PROVE  /\ QueueTypes'
             /\ todo[a] # <<>> /\ todo[a] \in Seq(Item)
             /\ todo' = [todo EXCEPT ![a] = Tail(@)]
  <2>1. /\ todo[a] # <<>> /\ todo[a] \in Seq(Item)
        /\ todo' = [todo EXCEPT ![a] = Tail(@)]
    BY <1>4 DEF NextWrite, QueueTypes
  <2>2. Head(todo[a]) \in Item /\ Tail(todo[a]) \in Seq(Item)
    BY <2>1
  <2>3. writes' \in Seq(Entry)
    BY <1>2, <1>4, <2>2 DEF NextWrite
  <2> QED
    BY <2>1, <2>2, <2>3 DEF QueueTypes
<1>5. writes # <<>> => Head(writes) \in Entry /\ Tail(writes) \in Seq(Entry)
  BY DEF QueueTypes
<1> QED
  BY <1>2, <1>3, <1>4, <1>5

\* Only Apply and the passing of time change the keys of agent_config.
LEMMA CfgStep ==
    ASSUME LoopTypes, [Next]_vars
    PROVE  CfgTypes'
<1> USE DEF LoopTypes
<1>1. CASE Apply
  <2>1. /\ Head(writes).key \in Flags \cup Times
        /\ Head(writes).key \in Flags => Head(writes).value \in BOOLEAN
        /\ Head(writes).key = "fire" => Head(writes).value \in Never .. Interval
        /\ Head(writes).key = "act" => Head(writes).value \in Ages
    BY <1>1, EntryFacts DEF Apply, QueueTypes
  <2>2. cfg' = [cfg EXCEPT ![Head(writes).key] = Head(writes).value]
    BY <1>1 DEF Apply
  <2> QED
    BY <2>1, <2>2 DEF CfgTypes, Flags, Times
<1>2. CASE TimePasses
  <2>1. /\ \A a \in Never .. Interval : Older(a, Interval) \in Never .. Interval
        /\ \A a \in Ages : Older(a, Stale) \in Ages
    BY DEF Older, Ages, Never, Interval, Stale
  <2>2. cfg' = [cfg EXCEPT !.fire = Older(@, Interval), !.act = Older(@, Stale)]
    BY <1>2 DEF TimePasses
  <2> QED
    BY <2>1, <2>2 DEF CfgTypes, Flags, Times
<1>3. CASE ~Apply /\ ~TimePasses
  <2>1. cfg' = cfg
    BY <1>3 DEF Next, vars, BusyExpires, Command, UserTurnBegins, UserTurnEnds, UserWrites,
       PollStep, Tick, Flagged, Unflagged, Spawn, CycleStep, TurnBegins, TurnEnds, GatewayTouches,
       Answered, CycleWrites, Failure, Reject, PollerRestarts, GatewayRestarts
  <2> QED
    BY <2>1 DEF CfgTypes
<1> QED
  BY <1>1, <1>2, <1>3

\* What the guard of a cycle writes and changes.
LEMMA DecideTypes ==
    ASSUME LoopTypes, NEW p \in Poller, NEW idle \in BOOLEAN, Decide(p, idle)
    PROVE  /\ writes' \in Seq(Entry)
           /\ pc' = [pc EXCEPT ![p] = IF InFlight(p) THEN "sleep" ELSE "guard"]
           /\ idleMode' \in [Poller -> BOOLEAN]
<1>1. writes' \in Seq(Entry)
  <2>1. Poll(p) \in Author /\ "pending" \in Flags
    BY AuthorFacts DEF Flags
  <2>2. CASE ~InFlight(p) /\ idle
    BY <2>1, <2>2, WriteTypes DEF Decide, LoopTypes
  <2>3. CASE ~(~InFlight(p) /\ idle)
    BY <2>3 DEF Decide, LoopTypes, QueueTypes
  <2> QED
    BY <2>2, <2>3
<1> QED
  BY <1>1 DEF Decide, LoopTypes, ProcessTypes

\* The queue, the lists and the processes keep their types, and a task is not
\* replaced while it has writes to make.
LEMMA QueueStep ==
    ASSUME LoopTypes, Next
    PROVE  QueueTypes' /\ ProcessTypes' /\ TasksOK'
<1> USE DEF LoopTypes
<1>1. CASE Apply
  <2>1. QueueTypes'
    BY <1>1, AuthorFacts, WriteTypes DEF Apply, QueueTypes
  <2> QED
    BY <1>1, <2>1 DEF Apply, pollVars, chatVars, userVars, ProcessTypes, TasksOK
<1>2. CASE TimePasses
  <2>1. cycle' \in [Poller -> CycleType]
    <3>1. \A a \in 0 .. Interval : Older(a, Interval) \in 0 .. Interval
      BY DEF Older, Never, Interval
    <3>2. \A c \in CycleType : [c EXCEPT !.age = Older(@, Interval)] \in CycleType
      BY <3>1 DEF CycleType
    <3>3. cycle' = [p \in Poller |-> IF cycle[p].at # "none" /\ ~cycle[p].idle
                                   THEN [cycle[p] EXCEPT !.age = Older(@, Interval)]
                                   ELSE cycle[p]]
      BY <1>2 DEF TimePasses
    <3> QED
      BY <3>2, <3>3 DEF ProcessTypes
  <2>2. \A p \in Poller : cycle'[p].at = cycle[p].at
    BY <1>2 DEF TimePasses, ProcessTypes, CycleType
  <2> QED
    BY <1>2, <2>1, <2>2 DEF TimePasses, pollVars, chatVars, userVars, QueueTypes, ProcessTypes, TasksOK
<1>3. CASE BusyExpires
  BY <1>3 DEF BusyExpires, pollVars, chatVars, userVars, QueueTypes, ProcessTypes, TasksOK
<1>4. ASSUME NEW c \in Commands, Command(c)
      PROVE  QueueTypes' /\ ProcessTypes' /\ TasksOK'
  <2>1. WritesOf(c) \in Seq(Item)
    BY LoopAssumption, ListTypes
  <2>2. requests' \in 0 .. MaxRequests
    BY <1>4, LoopAssumption DEF Command, Request, ProcessTypes
  <2>3. QueueTypes'
    BY <1>4, <2>1, AuthorFacts DEF Command, QueueTypes
  <2>4. \A p \in Poller : todo'[Cycle(p)] = todo[Cycle(p)]
    BY <1>4, AuthorFacts DEF Command, QueueTypes
  <2> QED
    BY <1>4, <2>2, <2>3, <2>4 DEF Command, pollVars, chatVars, ProcessTypes, TasksOK
<1>5. CASE UserTurnBegins
  <2>1. requests' \in 0 .. MaxRequests
    BY <1>5, LoopAssumption DEF UserTurnBegins, Request, ProcessTypes
  <2> QED
    BY <1>5, <2>1 DEF UserTurnBegins, pollVars, QueueTypes, ProcessTypes, TasksOK
<1>6. CASE UserTurnEnds
  <2>1. QueueTypes'
    BY <1>6, AuthorFacts, ListTypes DEF UserTurnEnds, QueueTypes
  <2>2. \A p \in Poller : todo'[Cycle(p)] = todo[Cycle(p)]
    BY <1>6, AuthorFacts DEF UserTurnEnds, QueueTypes
  <2>3. busy' \in BOOLEAN /\ running' \subseteq Poller \cup {User}
    BY <1>6 DEF UserTurnEnds, ProcessTypes
  <2> QED
    BY <1>6, <2>1, <2>2, <2>3 DEF UserTurnEnds, pollVars, ProcessTypes, TasksOK
<1>7. CASE UserWrites
  <2>1. QueueTypes' /\ \A p \in Poller : todo'[Cycle(p)] = todo[Cycle(p)]
    BY <1>7, AuthorFacts, WriteTypes DEF UserWrites, QueueTypes
  <2>2. user' \in {"none", "turn", "touch"} \cup Commands
    BY <1>7 DEF UserWrites, ProcessTypes
  <2> QED
    BY <1>7, <2>1, <2>2 DEF UserWrites, pollVars, chatVars, ProcessTypes, TasksOK
<1>8. ASSUME NEW p \in Poller, PollStep(p)
      PROVE  QueueTypes' /\ ProcessTypes' /\ TasksOK'
  <2>1. CASE Tick(p)
    <3>1. cfg.idle \in BOOLEAN
      BY DEF CfgTypes, Flags
    <3>2. CASE busy /\ Write(Poll(p), "catchup", TRUE) /\ pc' = [pc EXCEPT ![p] = "flag"]
                    /\ idleMode' = [idleMode EXCEPT ![p] = cfg.idle]
      <4>1. writes' \in Seq(Entry)
        BY <3>2, AuthorFacts, WriteTypes DEF Flags
      <4> QED
        BY <2>1, <3>1, <3>2, <4>1 DEF Tick, chatVars, userVars, QueueTypes, ProcessTypes, TasksOK
    <3>3. CASE Decide(p, cfg.idle)
      BY <2>1, <3>1, <3>3, DecideTypes DEF Tick, InFlight, chatVars, userVars, QueueTypes, ProcessTypes, TasksOK
    <3> QED
      BY <2>1, <3>2, <3>3 DEF Tick
  <2>2. CASE Flagged(p)
    BY <2>2 DEF Flagged, ToSleep, chatVars, userVars, QueueTypes, ProcessTypes, TasksOK
  <2>3. CASE Unflagged(p)
    <3>1. idleMode[p] \in BOOLEAN
      BY DEF ProcessTypes
    <3> QED
      BY <2>3, <3>1, DecideTypes DEF Unflagged, InFlight, chatVars, userVars, QueueTypes, ProcessTypes, TasksOK
  <2>4. CASE Spawn(p)
    <3>1. [NoCycle EXCEPT !.at = "posted", !.idle = idleMode[p]] \in CycleType
      <4>1. NoCycle \in CycleType
        BY DEF NoCycle, CycleType, Places, Interval
      <4>2. idleMode[p] \in BOOLEAN
        BY DEF ProcessTypes
      <4> QED
        BY <4>1, <4>2 DEF CycleType, Places
    <3>2. cycle[p].at = "none" /\ todo[Cycle(p)] = <<>>
      BY <2>4 DEF Spawn, TasksOK, Writing
    <3> QED
      BY <2>4, <3>1, <3>2 DEF Spawn, ToSleep, chatVars, userVars, QueueTypes, ProcessTypes, TasksOK
  <2> QED
    BY <1>8, <2>1, <2>2, <2>3, <2>4 DEF PollStep
<1>9. ASSUME NEW p \in Poller, CycleStep(p)
      PROVE  QueueTypes' /\ ProcessTypes' /\ TasksOK'
  <2> cycle[p] \in CycleType
    BY DEF ProcessTypes
  <2>1. CASE TurnBegins(p)
    <3>1. [cycle[p] EXCEPT !.at = "turn"] \in CycleType
      BY DEF CycleType, Places
    <3>2. cycle' = [cycle EXCEPT ![p] = [cycle[p] EXCEPT !.at = "turn"]]
      BY <2>1 DEF TurnBegins
    <3>3. todo[Cycle(p)] = <<>> /\ pc[p] # "guard"
      BY <2>1 DEF TurnBegins, TasksOK, Writing
    <3> QED
      BY <2>1, <3>1, <3>2, <3>3 DEF TurnBegins, pollVars, userVars, QueueTypes, ProcessTypes, TasksOK
  <2>2. CASE TurnEnds(p)
    <3>1. PICK list \in {Touch, <<>>} : todo' = [todo EXCEPT ![Gate(p)] = list]
      BY <2>2 DEF TurnEnds
    <3>2. list \in Seq(Item)
      <4>1. <<>> \in Seq(Item)
        OBVIOUS
      <4> QED
        BY <4>1, ListTypes
    <3>3. QueueTypes' /\ \A q \in Poller : todo'[Cycle(q)] = todo[Cycle(q)]
      BY <2>2, <3>1, <3>2, AuthorFacts DEF TurnEnds, QueueTypes
    <3>4. busy' \in BOOLEAN /\ running' \subseteq Poller \cup {User}
      BY <2>2 DEF TurnEnds, ProcessTypes
    <3>5. CASE cycle[p].at = "turn" /\ cycle' = [cycle EXCEPT ![p].at = "answer"]
      <4>1. cycle' = [cycle EXCEPT ![p] = [cycle[p] EXCEPT !.at = "answer"]]
        BY <3>5
      <4>2. [cycle[p] EXCEPT !.at = "answer"] \in CycleType
        BY DEF CycleType, Places
      <4>3. todo[Cycle(p)] = <<>> /\ pc[p] # "guard"
        BY <3>5 DEF TasksOK, Writing
      <4> QED
        BY <2>2, <3>3, <3>4, <4>1, <4>2, <4>3 DEF TurnEnds, pollVars, userVars, ProcessTypes, TasksOK
    <3>6. CASE UNCHANGED cycle
      BY <2>2, <3>3, <3>4, <3>6 DEF TurnEnds, pollVars, userVars, ProcessTypes, TasksOK
    <3> QED
      BY <2>2, <3>5, <3>6 DEF TurnEnds
  <2>3. CASE GatewayTouches(p)
    <3>1. QueueTypes' /\ \A q \in Poller : todo'[Cycle(q)] = todo[Cycle(q)]
      BY <2>3, AuthorFacts, WriteTypes DEF GatewayTouches, QueueTypes
    <3> QED
      BY <2>3, <3>1 DEF GatewayTouches, pollVars, chatVars, userVars, ProcessTypes, TasksOK
  <2>4. CASE Answered(p)
    <3> DEFINE c == [NoCycle EXCEPT !.at = "writing", !.idle = cycle[p].idle]
    <3>1. PICK list \in {Outcome(p), AfterFailure(p)} : todo' = [todo EXCEPT ![Cycle(p)] = list]
      BY <2>4 DEF Answered
    <3>2. list \in Seq(Item)
      BY ListTypes
    <3>3. c \in CycleType /\ c.at = "writing"
      <4>1. NoCycle \in CycleType
        BY DEF NoCycle, CycleType, Places, Interval
      <4>2. cycle[p].idle \in BOOLEAN
        BY DEF CycleType
      <4> QED
        BY <4>1, <4>2 DEF CycleType, Places
    <3>4. cycle' = [cycle EXCEPT ![p] = c]
      BY <2>4 DEF Answered
    <3> HIDE DEF c
    <3>5. \A q \in Poller : q # p => cycle'[q] = cycle[q] /\ todo'[Cycle(q)] = todo[Cycle(q)]
      BY <3>1, <3>4, AuthorFacts DEF QueueTypes, ProcessTypes
    <3>6. cycle'[p].at = "writing" /\ pc[p] # "guard"
      BY <2>4, <3>3, <3>4 DEF Answered, ProcessTypes, TasksOK
    <3>7. QueueTypes'
      BY <2>4, <3>1, <3>2, AuthorFacts DEF Answered, QueueTypes
    <3> QED
      BY <2>4, <3>3, <3>4, <3>5, <3>6, <3>7
         DEF Answered, pollVars, chatVars, userVars, ProcessTypes, TasksOK, Writing
  <2>5. CASE CycleWrites(p)
    <3>1. CASE NextWrite(Cycle(p)) /\ UNCHANGED cycle
      <4>1. QueueTypes' /\ todo[Cycle(p)] # <<>>
        BY <3>1, AuthorFacts, WriteTypes
      <4>2. \A q \in Poller : q # p => todo'[Cycle(q)] = todo[Cycle(q)]
        BY <3>1, AuthorFacts, WriteTypes DEF QueueTypes
      <4> QED
        BY <2>5, <3>1, <4>1, <4>2 DEF CycleWrites, pollVars, chatVars, userVars, ProcessTypes, TasksOK
    <3>2. CASE /\ todo[Cycle(p)] = <<>> /\ cycle' = [cycle EXCEPT ![p] = NoCycle]
               /\ UNCHANGED <<writes, todo>>
      <4>1. NoCycle \in CycleType /\ NoCycle.at = "none"
        BY DEF NoCycle, CycleType, Places, Interval
      <4> QED
        BY <2>5, <3>2, <4>1 DEF CycleWrites, pollVars, chatVars, userVars, QueueTypes, ProcessTypes, TasksOK
    <3> QED
      BY <2>5, <3>1, <3>2 DEF CycleWrites
  <2> QED
    BY <1>9, <2>1, <2>2, <2>3, <2>4, <2>5 DEF CycleStep
<1>10. CASE Failure
  <2>1. faults' \in 0 .. MaxFaults
    <3>1. Fault
      BY <1>10 DEF Failure, Reject, PollerRestarts, GatewayRestarts
    <3> QED
      BY <3>1, LoopAssumption DEF Fault, ProcessTypes
  <2>2. CASE Reject
    <3>1. writes' \in Seq(Entry)
      BY <2>2, AuthorFacts, WriteTypes DEF Reject
    <3>2. ASSUME NEW p \in Poller, TellPoll(p)
          PROVE  QueueTypes' /\ ProcessTypes' /\ TasksOK'
      BY <2>1, <2>2, <3>1, <3>2 DEF Reject, TellPoll, ToSleep, pollVars, chatVars, userVars,
         QueueTypes, ProcessTypes, TasksOK
    <3>3. ASSUME NEW p \in Poller, TellCycle(p)
          PROVE  QueueTypes' /\ ProcessTypes' /\ TasksOK'
      <4>1. CASE /\ cycle[p].at = "writing"
                 /\ cycle' = [cycle EXCEPT ![p].at = "clearing"]
                 /\ todo' = [todo EXCEPT ![Cycle(p)] = AfterFailure(p)]
        <5> cycle[p] \in CycleType
          BY DEF ProcessTypes
        <5>1. cycle' = [cycle EXCEPT ![p] = [cycle[p] EXCEPT !.at = "clearing"]]
          BY <4>1
        <5>2. [cycle[p] EXCEPT !.at = "clearing"] \in CycleType
          BY DEF CycleType, Places
        <5>3. cycle'[p].at = "clearing" /\ pc[p] # "guard"
          BY <4>1, <5>1, <5>2 DEF ProcessTypes, CycleType, TasksOK
        <5>4. \A q \in Poller : q # p => cycle'[q] = cycle[q] /\ todo'[Cycle(q)] = todo[Cycle(q)]
          BY <4>1, <5>1, AuthorFacts DEF QueueTypes, ProcessTypes
        <5>5. QueueTypes'
          BY <3>1, <4>1, AuthorFacts, ListTypes DEF QueueTypes
        <5> QED
          BY <2>1, <2>2, <3>3, <5>1, <5>2, <5>3, <5>4, <5>5
             DEF Reject, TellCycle, pollVars, chatVars, userVars, ProcessTypes, TasksOK, Writing
      <4>2. CASE UNCHANGED <<cycle, todo>>
        BY <2>1, <2>2, <3>1, <3>3, <4>2 DEF Reject, TellCycle, pollVars, chatVars, userVars,
           QueueTypes, ProcessTypes, TasksOK
      <4> QED
        BY <3>3, <4>1, <4>2 DEF TellCycle
    <3>4. CASE TellUser
      <4>1. todo' \in [Author -> Seq(Item)] /\ \A p \in Poller : todo'[Cycle(p)] = todo[Cycle(p)]
        BY <3>4, AuthorFacts DEF TellUser, QueueTypes
      <4> QED
        BY <2>1, <2>2, <3>1, <3>4, <4>1 DEF Reject, TellUser, pollVars, chatVars, userVars,
           QueueTypes, ProcessTypes, TasksOK
    <3>5. CASE UNCHANGED <<pollVars, cycle, todo>>
      BY <2>1, <2>2, <3>1, <3>5 DEF Reject, pollVars, chatVars, userVars,
         QueueTypes, ProcessTypes, TasksOK
    <3> QED
      BY <2>2, <3>2, <3>3, <3>4, <3>5 DEF Reject
  <2>3. ASSUME NEW p \in Poller, PollerRestarts(p)
        PROVE  QueueTypes' /\ ProcessTypes' /\ TasksOK'
    <3>1. NoCycle \in CycleType /\ NoCycle.at = "none"
      BY DEF NoCycle, CycleType, Places, Interval
    <3>2. QueueTypes' /\ todo'[Cycle(p)] = <<>>
      BY <2>3, AuthorFacts DEF PollerRestarts, QueueTypes
    <3>3. \A q \in Poller : q # p => todo'[Cycle(q)] = todo[Cycle(q)]
      BY <2>3, AuthorFacts DEF PollerRestarts, QueueTypes
    <3> QED
      BY <2>1, <2>3, <3>1, <3>2, <3>3 DEF PollerRestarts, ToSleep, chatVars, userVars, ProcessTypes, TasksOK
  <2>4. ASSUME NEW p \in Poller, GatewayRestarts(p)
        PROVE  QueueTypes' /\ ProcessTypes' /\ TasksOK'
    <3> cycle[p] \in CycleType
      BY DEF ProcessTypes
    <3>1. pc[p] # "guard" /\ todo[Cycle(p)] = <<>>
      BY <2>4 DEF GatewayRestarts, TasksOK, Writing
    <3>2. running' \subseteq Poller \cup {User}
      BY <2>4 DEF GatewayRestarts, ProcessTypes
    <3>3. CASE /\ cycle' = [cycle EXCEPT ![p].at = "writing"]
               /\ todo' = [todo EXCEPT ![Cycle(p)] = AfterFailure(p), ![Gate(p)] = <<>>]
      <4>1. cycle' = [cycle EXCEPT ![p] = [cycle[p] EXCEPT !.at = "writing"]]
        BY <3>3
      <4>2. [cycle[p] EXCEPT !.at = "writing"] \in CycleType
        BY DEF CycleType, Places
      <4>3. cycle'[p].at = "writing"
        BY <4>1, <4>2 DEF ProcessTypes, CycleType
      <4>4. \A q \in Poller : q # p => cycle'[q] = cycle[q] /\ todo'[Cycle(q)] = todo[Cycle(q)]
        BY <3>3, <4>1, AuthorFacts DEF QueueTypes, ProcessTypes
      <4>5. QueueTypes'
        <5>1. AfterFailure(p) \in Seq(Item) /\ <<>> \in Seq(Item)
          BY ListTypes
        <5>2. todo' \in [Author -> Seq(Item)]
          BY <3>3, <5>1, AuthorFacts DEF QueueTypes
        <5> QED
          BY <2>4, <5>2 DEF GatewayRestarts, QueueTypes
      <4> QED
        BY <2>1, <2>4, <3>1, <3>2, <4>1, <4>2, <4>3, <4>4, <4>5
           DEF GatewayRestarts, pollVars, userVars, ProcessTypes, TasksOK, Writing
    <3>4. CASE /\ cycle' = [cycle EXCEPT ![p].at = "posted", ![p].retried = TRUE]
               /\ todo' = [todo EXCEPT ![Gate(p)] = <<>>]
      <4> DEFINE c == [cycle[p] EXCEPT !.at = "posted", !.retried = TRUE]
      <4>1. cycle' = [cycle EXCEPT ![p] = c]
        BY <3>4 DEF ProcessTypes
      <4>2. c \in CycleType
        BY DEF CycleType, Places
      <4> HIDE DEF c
      <4>3. QueueTypes' /\ \A q \in Poller : todo'[Cycle(q)] = todo[Cycle(q)]
        BY <2>4, <3>4, AuthorFacts DEF GatewayRestarts, QueueTypes
      <4> QED
        BY <2>1, <2>4, <3>1, <3>2, <4>1, <4>2, <4>3
           DEF GatewayRestarts, pollVars, userVars, ProcessTypes, TasksOK
    <3> QED
      BY <2>4, <3>3, <3>4 DEF GatewayRestarts
  <2> QED
    BY <1>10, <2>2, <2>3, <2>4 DEF Failure
<1> QED
  BY <1>1, <1>2, <1>3, <1>4, <1>5, <1>6, <1>7, <1>8, <1>9, <1>10 DEF Next

\* The types hold when the loop has not run yet.
LEMMA TypesInit == Init => LoopTypes
<1> SUFFICES ASSUME Init PROVE LoopTypes
  OBVIOUS
<1>1. CfgTypes
  <2>1. /\ DOMAIN Off = Flags \cup Times
        /\ \A k \in Flags : Off[k] \in BOOLEAN
        /\ Off["fire"] = Never
    BY DEF Off, Flags, Times
  <2>2. CASE cfg = Off
    BY <2>2 DEF CfgTypes, Off, Flags, Times, Never, Interval, Ages, Stale
  <2>3. CASE cfg = On
    <3>1. DOMAIN On = Flags \cup Times
      BY <2>1 DEF On
    <3>2. \A k \in Flags : On[k] \in BOOLEAN
      BY <2>1 DEF On, Flags, Times
    <3>3. On["fire"] = Never /\ On["act"] = 0
      BY <2>1 DEF On, Flags, Times
    <3> QED
      BY <2>3, <3>1, <3>2, <3>3 DEF CfgTypes, Never, Interval, Ages, Stale
  <2> QED
    BY <2>2, <2>3 DEF Init
<1>2. QueueTypes
  BY DEF Init, QueueTypes
<1>3. ProcessTypes
  <2>1. NoCycle \in CycleType
    BY DEF NoCycle, CycleType, Places, Interval
  <2>2. requests \in 0 .. MaxRequests /\ faults \in 0 .. MaxFaults
    BY LoopAssumption DEF Init
  <2>3. cycle \in [Poller -> CycleType]
    BY <2>1 DEF Init
  <2>4. /\ pc \in [Poller -> {"sleep", "flag", "unflagged", "guard"}]
        /\ idleMode \in [Poller -> BOOLEAN]
    BY DEF Init
  <2> QED
    BY <2>2, <2>3, <2>4 DEF Init, ProcessTypes
<1>4. TasksOK
  BY AuthorFacts DEF Init, TasksOK
<1> QED
  BY <1>1, <1>2, <1>3, <1>4 DEF LoopTypes

\* Every step keeps the types.
LEMMA TypesStep ==
    ASSUME LoopTypes, [Next]_vars
    PROVE  LoopTypes'
<1>1. CASE Next
  BY <1>1, CfgStep, QueueStep DEF LoopTypes
<1>2. CASE UNCHANGED vars
  BY <1>2 DEF vars, pollVars, chatVars, userVars, LoopTypes, CfgTypes, QueueTypes, ProcessTypes, TasksOK
<1> QED
  BY <1>1, <1>2

\* The types are those that the runs check.
LEMMA TypesImplyTypeOK == LoopTypes => TypeOK
<1> SUFFICES ASSUME LoopTypes PROVE TypeOK
  OBVIOUS
<1>1. /\ \A k \in Flags : cfg[k] \in BOOLEAN
      /\ \A k \in Times : cfg[k] \in Ages
  BY DEF LoopTypes, CfgTypes, Times, Ages, Never, Interval, Stale
<1>2. \A i \in DOMAIN writes : writes[i] \in WriteSet(Author)
  BY EntryFacts DEF LoopTypes, QueueTypes
<1>3. \A p \in Poller : todo[Cycle(p)] # <<>> => cycle[p].at \in Writing
  BY DEF LoopTypes, TasksOK
<1>4. Places = {"none", "posted", "turn", "answer"} \cup Writing
  BY DEF Places, Writing
<1> QED
  BY <1>1, <1>2, <1>3, <1>4 DEF TypeOK, LoopTypes, ProcessTypes, CycleType

-----------------------------------------------------------------------------
(* The flag *)

\* A write at the end of the queue that takes the flag down comes after every one
\* that has it up; one that does not have it up changes nothing.
LEMMA AppendLowers ==
    ASSUME QueueTypes, NEW w \in Entry, writes' = Append(writes, w), UNCHANGED cfg,
           Lowers(w) \/ (AllLowered /\ ~(w.key = "pending" /\ w.value = TRUE))
    PROVE  AllLowered'
<1> DEFINE n == Len(writes)
<1>1. /\ n \in Nat /\ Len(writes') = n + 1 /\ writes'[n + 1] = w
      /\ \A i \in 1..n : writes'[i] = writes[i]
  BY DEF QueueTypes
<1> SUFFICES ASSUME NEW k \in 0..Len(writes'), RaisedAt(k)'
             PROVE  LoweredAfter(k)'
  BY DEF AllLowered
<1>2. k # n + 1
  BY <1>1 DEF RaisedAt, Lowers
<1>3. k \in 0..n
  BY <1>1, <1>2
<1>4. CASE Lowers(w)
  <2>1. n + 1 \in 1..Len(writes') /\ n + 1 > k /\ Lowers(writes'[n + 1])
    BY <1>1, <1>3, <1>4
  <2> QED
    BY <2>1 DEF LoweredAfter, Lowers
<1>5. CASE AllLowered
  <2>1. RaisedAt(k)
    BY <1>1, <1>3 DEF RaisedAt
  <2>2. PICK j \in 1..n : j > k /\ Lowers(writes[j])
    BY <1>3, <1>5, <2>1 DEF AllLowered, LoweredAfter
  <2>3. j \in 1..Len(writes') /\ writes'[j] = writes[j]
    BY <1>1
  <2> QED
    BY <2>2, <2>3 DEF LoweredAfter, Lowers
<1> QED
  BY <1>4, <1>5

\* The writer that applies the first write of the queue leaves every raised flag
\* with its later write.
LEMMA ApplyLowers ==
    ASSUME LoopTypes, Apply, AllLowered
    PROVE  AllLowered'
<1> DEFINE n == Len(writes)
<1>1. /\ n \in Nat /\ n > 0 /\ Len(writes') = n - 1
      /\ \A i \in 1..(n - 1) : writes'[i] = writes[i + 1]
      /\ writes[1] = Head(writes) /\ writes[1] \in Entry
  BY DEF LoopTypes, QueueTypes, Apply
<1>2. cfg'["pending"] = IF writes[1].key = "pending" THEN writes[1].value ELSE cfg["pending"]
  BY <1>1 DEF Apply, LoopTypes, CfgTypes, Flags
<1> SUFFICES ASSUME NEW k \in 0..Len(writes'), RaisedAt(k)'
             PROVE  LoweredAfter(k)'
  BY DEF AllLowered
<1>3. \E j \in 2..n : j > k + 1 /\ Lowers(writes[j])
  <2>1. CASE k # 0
    <3>1. k + 1 \in 0..n /\ k + 1 # 0 /\ k \in 1..(n - 1)
      BY <1>1, <2>1
    <3>2. RaisedAt(k + 1)
      BY <1>1, <2>1, <3>1 DEF RaisedAt
    <3>3. PICK j \in 1..n : j > k + 1 /\ Lowers(writes[j])
      BY <3>1, <3>2 DEF AllLowered, LoweredAfter
    <3>4. j \in 2..n
      BY <3>1, <3>3
    <3> QED
      BY <3>3, <3>4
  <2>2. CASE k = 0 /\ writes[1].key = "pending"
    <3>1. writes[1].value = TRUE
      BY <1>2, <2>2 DEF RaisedAt
    <3>2. 1 \in 0..n /\ RaisedAt(1)
      BY <1>1, <2>2, <3>1 DEF RaisedAt
    <3>3. PICK j \in 1..n : j > 1 /\ Lowers(writes[j])
      BY <3>2 DEF AllLowered, LoweredAfter
    <3> QED
      BY <2>2, <3>3
  <2>3. CASE k = 0 /\ writes[1].key # "pending"
    <3>1. 0 \in 0..n /\ RaisedAt(0)
      BY <1>1, <1>2, <2>3 DEF RaisedAt
    <3>2. PICK j \in 1..n : j > 0 /\ Lowers(writes[j])
      BY <3>1 DEF AllLowered, LoweredAfter
    <3>3. j # 1
      BY <2>3, <3>2 DEF Lowers
    <3> QED
      BY <2>3, <3>2, <3>3
  <2> QED
    BY <2>1, <2>2, <2>3
<1>4. PICK j \in 2..n : j > k + 1 /\ Lowers(writes[j])
  BY <1>3
<1>5. j - 1 \in 1..Len(writes') /\ j - 1 > k /\ writes'[j - 1] = writes[j]
  BY <1>1, <1>4
<1> QED
  BY <1>4, <1>5 DEF LoweredAfter, Lowers

\* The lists of a cycle that ends in idle mode take the flag down.
LEMMA IdleLowers ==
    ASSUME NEW p \in Poller, cycle[p].idle = TRUE, NEW list \in {Outcome(p), AfterFailure(p)}
    PROVE  \E i \in 1..Len(list) : Lowers(list[i])
<1>1. CASE list = AfterFailure(p)
  <2>1. Len(list) = 1 /\ Lowers(list[1])
    BY <1>1 DEF AfterFailure, Set, Lowers
  <2> QED
    BY <2>1
<1>2. CASE list = Outcome(p)
  <2>1. Len(list) = 3 /\ Lowers(list[3])
    BY <1>2 DEF Outcome, Touch, Set, Lowers
  <2> QED
    BY <2>1
<1> QED
  BY <1>1, <1>2

\* A write of a list leaves the flag lowered, and lowers it if it is that write.
LEMMA NextWriteLowers ==
    ASSUME LoopTypes, NEW a \in Author, NextWrite(a), UNCHANGED cfg
    PROVE  /\ AllLowered => AllLowered'
           /\ Lowers(Head(todo[a])) => AllLowered'
<1> DEFINE x == Head(todo[a])
           w == [by |-> a, key |-> x.key, value |-> x.value]
<1>1. x \in Item
  BY WriteTypes DEF LoopTypes
<1>2. writes' = Append(writes, w)
  BY DEF NextWrite, Write
<1>3. w \in Entry /\ (w.key = "pending" => Lowers(x)) /\ (Lowers(x) <=> Lowers(w))
  BY <1>1, EntryFacts, ItemFacts DEF Lowers
<1> HIDE DEF x, w
<1>4. Lowers(w) => AllLowered'
  BY <1>2, <1>3, AppendLowers DEF LoopTypes
<1>5. AllLowered /\ ~Lowers(w) => AllLowered'
  BY <1>2, <1>3, AppendLowers DEF LoopTypes
<1> QED
  BY <1>3, <1>4, <1>5 DEF x

\* Without a fault, whoever raised the flag stays on its way to take it down.
LEMMA PursuedStep ==
    ASSUME LoopTypes, Pursued, [Next]_vars
    PROVE  Pursued'
<1> SUFFICES ASSUME faults' = 0
             PROVE  AllLowered' \/ \E p \in Poller : Pursues(p)'
  BY DEF Pursued
<1>1. ~Failure
  <2>1. Failure => Fault
    BY DEF Failure, Reject, PollerRestarts, GatewayRestarts
  <2>2. Fault => faults' # 0
    BY LoopAssumption DEF Fault, LoopTypes, ProcessTypes
  <2> QED
    BY <2>1, <2>2
<1>2. faults = 0
  BY <1>1 DEF Next, vars, Apply, TimePasses, BusyExpires, Command, UserTurnBegins, UserTurnEnds,
     UserWrites, PollStep, Tick, Flagged, Unflagged, Spawn, CycleStep, TurnBegins, TurnEnds,
     GatewayTouches, Answered, CycleWrites
<1>3. AllLowered \/ \E p \in Poller : Pursues(p)
  BY <1>2 DEF Pursued
<1>4. ASSUME UNCHANGED <<cfg, writes>>, AllLowered
      PROVE  AllLowered'
  BY <1>4 DEF AllLowered, RaisedAt, LoweredAfter, Lowers
<1>5. ASSUME NEW p \in Poller, pc'[p] = pc[p], idleMode'[p] = idleMode[p], cycle'[p] = cycle[p],
             todo'[Cycle(p)] = todo[Cycle(p)], Pursues(p)
      PROVE  Pursues(p)'
  BY <1>5 DEF Pursues, Lowers
<1>6. CASE UNCHANGED vars
  BY <1>3, <1>4, <1>5, <1>6 DEF vars, pollVars
<1>7. CASE Apply
  BY <1>3, <1>5, <1>7, ApplyLowers DEF Apply, pollVars
<1>8. CASE TimePasses
  <2>1. cfg'["pending"] = cfg["pending"] /\ writes' = writes
    BY <1>8 DEF TimePasses, LoopTypes, CfgTypes, Flags
  <2>2. AllLowered => AllLowered'
    BY <2>1 DEF AllLowered, RaisedAt, LoweredAfter, Lowers
  <2>3. \A p \in Poller : cycle'[p].at = cycle[p].at /\ cycle'[p].idle = cycle[p].idle
    BY <1>8 DEF TimePasses, LoopTypes, ProcessTypes, CycleType
  <2>4. \A p \in Poller : Pursues(p) => Pursues(p)'
    BY <1>8, <2>3 DEF TimePasses, pollVars, Pursues, Lowers
  <2> QED
    BY <1>3, <2>2, <2>4
<1>9. CASE BusyExpires
  BY <1>3, <1>4, <1>5, <1>9 DEF BusyExpires, pollVars
<1>10. CASE (\E c \in Commands : Command(c)) \/ UserTurnBegins \/ UserTurnEnds
  <2>1. \A p \in Poller : todo'[Cycle(p)] = todo[Cycle(p)]
    BY <1>10, AuthorFacts DEF Command, UserTurnBegins, UserTurnEnds, LoopTypes, QueueTypes
  <2> QED
    BY <1>3, <1>4, <1>5, <1>10, <2>1 DEF Command, UserTurnBegins, UserTurnEnds, pollVars
<1>11. CASE UserWrites
  <2>1. CASE NextWrite(Side)
    <3>1. \A p \in Poller : todo'[Cycle(p)] = todo[Cycle(p)]
      BY <2>1, AuthorFacts DEF NextWrite, LoopTypes, QueueTypes
    <3>2. \A p \in Poller : Pursues(p) => Pursues(p)'
      BY <1>5, <1>11, <3>1 DEF UserWrites, pollVars
    <3>3. cfg' = cfg /\ (AllLowered => AllLowered')
      BY <1>11, <2>1, AuthorFacts, NextWriteLowers DEF UserWrites
    <3> QED
      BY <1>3, <3>2, <3>3
  <2>2. CASE UNCHANGED <<writes, todo>>
    BY <1>3, <1>4, <1>5, <1>11, <2>2 DEF UserWrites, pollVars
  <2> QED
    BY <1>11, <2>1, <2>2 DEF UserWrites
<1>12. ASSUME NEW p \in Poller, PollStep(p)
       PROVE  AllLowered' \/ \E q \in Poller : Pursues(q)'
  <2>1. ASSUME pc[p] # "guard", UNCHANGED <<cycle, todo>>,
               \A q \in Poller : q # p => pc'[q] = pc[q] /\ idleMode'[q] = idleMode[q]
        PROVE  \A q \in Poller : Pursues(q) => Pursues(q)'
    BY <2>1 DEF Pursues, Lowers
  <2>2. ASSUME NEW idle \in BOOLEAN, Decide(p, idle), pc[p] # "guard", UNCHANGED <<cfg, cycle, todo>>
        PROVE  AllLowered' \/ \E q \in Poller : Pursues(q)'
    <3>1. CASE ~InFlight(p) /\ idle
      <4>1. pc'[p] = "guard" /\ idleMode'[p] = TRUE
        BY <2>2, <3>1 DEF Decide, LoopTypes, ProcessTypes
      <4> QED
        BY <4>1 DEF Pursues
    <3>2. CASE ~(~InFlight(p) /\ idle)
      <4>1. writes' = writes /\ \A q \in Poller : q # p => pc'[q] = pc[q] /\ idleMode'[q] = idleMode[q]
        BY <2>2, <3>2 DEF Decide, LoopTypes, ProcessTypes
      <4> QED
        BY <1>3, <1>4, <2>1, <2>2, <4>1
    <3> QED
      BY <3>1, <3>2
  <2>3. CASE Tick(p)
    <3>1. cfg.idle \in BOOLEAN /\ pc[p] # "guard" /\ UNCHANGED <<cfg, cycle, todo>>
      BY <2>3 DEF Tick, LoopTypes, CfgTypes, Flags
    <3>2. CASE Decide(p, cfg.idle)
      BY <2>2, <3>1, <3>2
    <3>3. CASE Write(Poll(p), "catchup", TRUE) /\ pc' = [pc EXCEPT ![p] = "flag"]
                 /\ idleMode' = [idleMode EXCEPT ![p] = cfg.idle]
      <4> DEFINE w == [by |-> Poll(p), key |-> "catchup", value |-> TRUE]
      <4>1. w \in Entry
        BY AuthorFacts, EntryFacts DEF Flags
      <4>2. AllLowered => AllLowered'
        BY <3>1, <3>3, <4>1, AppendLowers DEF Write, LoopTypes
      <4>3. \A q \in Poller : q # p => pc'[q] = pc[q] /\ idleMode'[q] = idleMode[q]
        BY <3>3 DEF LoopTypes, ProcessTypes
      <4> QED
        BY <1>3, <2>1, <3>1, <4>2, <4>3
    <3> QED
      BY <2>3, <3>2, <3>3 DEF Tick
  <2>4. CASE Flagged(p)
    <3>1. /\ pc[p] # "guard" /\ UNCHANGED <<cfg, writes, cycle, todo>>
          /\ \A q \in Poller : q # p => pc'[q] = pc[q] /\ idleMode'[q] = idleMode[q]
      BY <2>4 DEF Flagged, ToSleep, LoopTypes, ProcessTypes
    <3> QED
      BY <1>3, <1>4, <2>1, <3>1
  <2>5. CASE Unflagged(p)
    <3>1. idleMode[p] \in BOOLEAN
      BY DEF LoopTypes, ProcessTypes
    <3> QED
      BY <2>2, <2>5, <3>1 DEF Unflagged
  <2>6. CASE Spawn(p)
    <3>1. /\ UNCHANGED <<cfg, writes, todo>>
          /\ \A q \in Poller : q # p => /\ pc'[q] = pc[q] /\ idleMode'[q] = idleMode[q]
                                        /\ cycle'[q] = cycle[q]
      BY <2>6 DEF Spawn, ToSleep, LoopTypes, ProcessTypes
    <3>2. cycle'[p].at = "posted" /\ cycle'[p].idle = idleMode[p]
      BY <2>6 DEF Spawn, NoCycle, LoopTypes, ProcessTypes
    <3>3. pc[p] = "guard" /\ cycle[p].at = "none"
      BY <2>6 DEF Spawn, LoopTypes, TasksOK
    <3>4. Pursues(p) => Pursues(p)'
      BY <3>2, <3>3 DEF Pursues
    <3>5. \A q \in Poller : Pursues(q) => Pursues(q)'
      BY <3>1, <3>4 DEF Pursues, Lowers
    <3> QED
      BY <1>3, <1>4, <3>1, <3>5
  <2> QED
    BY <1>12, <2>3, <2>4, <2>5, <2>6 DEF PollStep
<1>13. ASSUME NEW p \in Poller, CycleStep(p)
       PROVE  AllLowered' \/ \E q \in Poller : Pursues(q)'
  <2> cycle[p] \in CycleType
    BY DEF LoopTypes, ProcessTypes
  <2>1. CASE TurnBegins(p)
    <3>1. cycle' = [cycle EXCEPT ![p] = [cycle[p] EXCEPT !.at = "turn"]]
      BY <2>1 DEF TurnBegins
    <3>2. cycle'[p].at = "turn" /\ cycle'[p].idle = cycle[p].idle
      BY <3>1 DEF LoopTypes, ProcessTypes, CycleType
    <3>3. /\ UNCHANGED <<cfg, writes, pc, idleMode, todo>>
          /\ \A q \in Poller : q # p => cycle'[q] = cycle[q]
      BY <2>1, <3>1 DEF TurnBegins, pollVars, LoopTypes, ProcessTypes
    <3>4. Pursues(p) => Pursues(p)'
      BY <2>1, <3>2, <3>3 DEF TurnBegins, Pursues
    <3>5. \A q \in Poller : Pursues(q) => Pursues(q)'
      BY <1>5, <3>3, <3>4
    <3> QED
      BY <1>3, <1>4, <3>3, <3>5
  <2>2. CASE TurnEnds(p)
    <3>1. /\ UNCHANGED <<cfg, writes, pc, idleMode>>
          /\ \A q \in Poller : todo'[Cycle(q)] = todo[Cycle(q)]
      BY <2>2, AuthorFacts DEF TurnEnds, pollVars, LoopTypes, QueueTypes
    <3>2. CASE cycle[p].at = "turn" /\ cycle' = [cycle EXCEPT ![p].at = "answer"]
      <4>1. cycle' = [cycle EXCEPT ![p] = [cycle[p] EXCEPT !.at = "answer"]]
        BY <3>2
      <4>2. cycle'[p].at = "answer" /\ cycle'[p].idle = cycle[p].idle
        BY <4>1 DEF LoopTypes, ProcessTypes, CycleType
      <4>3. \A q \in Poller : q # p => cycle'[q] = cycle[q]
        BY <4>1 DEF LoopTypes, ProcessTypes
      <4>4. Pursues(p) => Pursues(p)'
        BY <3>1, <3>2, <4>2 DEF Pursues
      <4>5. \A q \in Poller : Pursues(q) => Pursues(q)'
        BY <1>5, <3>1, <4>3, <4>4
      <4> QED
        BY <1>3, <1>4, <3>1, <4>5
    <3>3. CASE UNCHANGED cycle
      BY <1>3, <1>4, <1>5, <3>1, <3>3
    <3> QED
      BY <2>2, <3>2, <3>3 DEF TurnEnds
  <2>3. CASE GatewayTouches(p)
    <3>1. NextWrite(Gate(p)) /\ UNCHANGED <<cfg, pc, idleMode, cycle>>
      BY <2>3 DEF GatewayTouches, pollVars
    <3>2. \A q \in Poller : todo'[Cycle(q)] = todo[Cycle(q)]
      BY <3>1, AuthorFacts DEF NextWrite, LoopTypes, QueueTypes
    <3>3. AllLowered => AllLowered'
      BY <3>1, AuthorFacts, NextWriteLowers
    <3>4. \A q \in Poller : Pursues(q) => Pursues(q)'
      BY <1>5, <3>1, <3>2
    <3> QED
      BY <1>3, <3>3, <3>4
  <2>4. CASE Answered(p)
    <3> DEFINE c == [NoCycle EXCEPT !.at = "writing", !.idle = cycle[p].idle]
    <3>1. UNCHANGED <<cfg, writes, pc, idleMode>>
      BY <2>4 DEF Answered, pollVars
    <3>2. PICK list \in {Outcome(p), AfterFailure(p)} : todo' = [todo EXCEPT ![Cycle(p)] = list]
      BY <2>4 DEF Answered
    <3>3. cycle' = [cycle EXCEPT ![p] = c] /\ c.at = "writing"
      BY <2>4 DEF Answered, NoCycle
    <3> HIDE DEF c
    <3>4. cycle'[p].at = "writing" /\ todo'[Cycle(p)] = list
      BY <3>2, <3>3, AuthorFacts DEF LoopTypes, ProcessTypes, QueueTypes
    <3>5. \A q \in Poller : q # p => cycle'[q] = cycle[q] /\ todo'[Cycle(q)] = todo[Cycle(q)]
      BY <3>2, <3>3, AuthorFacts DEF LoopTypes, ProcessTypes, QueueTypes
    <3>6. Pursues(p) => cycle[p].idle = TRUE
      BY <2>4 DEF Answered, Pursues, LoopTypes, TasksOK
    <3>7. Pursues(p) => Pursues(p)'
      BY <3>4, <3>6, IdleLowers DEF Pursues, Lowers
    <3>8. \A q \in Poller : Pursues(q) => Pursues(q)'
      BY <1>5, <3>1, <3>5, <3>7
    <3> QED
      BY <1>3, <1>4, <3>1, <3>8
  <2>5. CASE CycleWrites(p)
    <3>1. UNCHANGED <<cfg, pc, idleMode>>
      BY <2>5 DEF CycleWrites, pollVars
    <3>2. CASE NextWrite(Cycle(p)) /\ UNCHANGED cycle
      <4> DEFINE list == todo[Cycle(p)]
      <4>1. /\ AllLowered => AllLowered'
            /\ Lowers(Head(list)) => AllLowered'
        BY <3>1, <3>2, AuthorFacts, NextWriteLowers
      <4>2. /\ list # <<>> /\ list \in Seq(Item) /\ todo'[Cycle(p)] = Tail(list)
            /\ \A q \in Poller : q # p => todo'[Cycle(q)] = todo[Cycle(q)]
        BY <3>2, AuthorFacts, WriteTypes DEF LoopTypes, QueueTypes
      <4>3. ASSUME Pursues(p), ~Lowers(Head(list))
            PROVE  Pursues(p)'
        <5>1. cycle[p].at \in Writing /\ pc[p] # "guard"
          BY <4>2 DEF LoopTypes, TasksOK, Writing
        <5>2. cycle[p].at = "writing" /\ \E i \in 1..Len(list) : Lowers(list[i])
          BY <4>3, <5>1 DEF Pursues, Writing
        <5>3. PICK i \in 1..Len(list) : Lowers(list[i])
          BY <5>2
        <5>4. i # 1
          BY <4>2, <4>3, <5>3
        <5>5. i - 1 \in 1..Len(Tail(list)) /\ Tail(list)[i - 1] = list[i]
          BY <4>2, <5>3, <5>4
        <5>6. \E k \in 1..Len(Tail(list)) : Lowers(Tail(list)[k])
          BY <5>3, <5>5
        <5> HIDE DEF list
        <5> QED
          BY <3>2, <4>2, <5>2, <5>6 DEF Pursues, Lowers
      <4>4. \A q \in Poller : q # p /\ Pursues(q) => Pursues(q)'
        BY <1>5, <3>1, <3>2, <4>2
      <4> QED
        BY <1>3, <4>1, <4>3, <4>4
    <3>3. CASE /\ todo[Cycle(p)] = <<>> /\ cycle[p].at \in {"writing", "clearing"}
               /\ cycle' = [cycle EXCEPT ![p] = NoCycle]
               /\ UNCHANGED <<writes, todo>>
      <4>1. ~Pursues(p)
        BY <3>3 DEF Pursues, LoopTypes, TasksOK
      <4>2. \A q \in Poller : q # p => cycle'[q] = cycle[q]
        BY <3>3 DEF LoopTypes, ProcessTypes
      <4> QED
        BY <1>3, <1>4, <1>5, <3>1, <3>3, <4>1, <4>2
    <3> QED
      BY <2>5, <3>2, <3>3 DEF CycleWrites
  <2> QED
    BY <1>13, <2>1, <2>2, <2>3, <2>4, <2>5 DEF CycleStep
<1> QED
  BY <1>1, <1>6, <1>7, <1>8, <1>9, <1>10, <1>11, <1>12, <1>13 DEF Next

-----------------------------------------------------------------------------
(* The theorems *)

\* LoopIInv is inductive.
THEOREM LoopInvariant == Spec => []LoopIInv
<1>1. Init => LoopIInv
  <2> SUFFICES ASSUME Init PROVE LoopIInv
    OBVIOUS
  <2>1. cfg["pending"] = FALSE
    <3>1. DOMAIN Off = Flags \cup Times /\ Off["pending"] = FALSE
      BY DEF Off, Flags, Times
    <3>2. On["pending"] = FALSE
      BY <3>1 DEF On, Flags
    <3> QED
      BY <3>1, <3>2 DEF Init
  <2>2. AllLowered
    BY <2>1 DEF AllLowered, RaisedAt, Init
  <2> QED
    BY <2>2, TypesInit DEF LoopIInv, Pursued
<1>2. LoopIInv /\ [Next]_vars => LoopIInv'
  BY TypesStep, PursuedStep DEF LoopIInv
<1> QED
  BY <1>1, <1>2, PTL DEF Spec

\* Every variable keeps its type, and no task of a cycle is replaced while it has
\* writes to make, for any pollers, commands, turns and faults.
THEOREM LoopTypeCorrect == Spec => []TypeOK
<1>1. LoopIInv => TypeOK
  BY TypesImplyTypeOK DEF LoopIInv
<1> QED
  BY <1>1, LoopInvariant, PTL

\* When all is quiet and nothing went wrong the flag is down: whoever raised it
\* was on its way to take it down, whatever the other pollers and /loop wrote.
THEOREM LoopNothingLeftPending == Spec => []NothingLeftPending
<1>1. LoopIInv => NothingLeftPending
  <2> SUFFICES ASSUME LoopIInv,
                      \A p \in Poller : pc[p] = "sleep" /\ cycle[p].at = "none",
                      writes = <<>>, faults = 0
               PROVE  ~cfg.pending
    BY DEF NothingLeftPending
  <2>1. \A p \in Poller : ~Pursues(p)
    BY DEF Pursues
  <2>2. RaisedAt(0) => LoweredAfter(0)
    BY <2>1 DEF LoopIInv, Pursued, AllLowered
  <2>3. ~LoweredAfter(0)
    BY DEF LoweredAfter
  <2> QED
    BY <2>2, <2>3 DEF RaisedAt, LoopIInv, LoopTypes, CfgTypes, Flags
<1> QED
  BY <1>1, LoopInvariant, PTL
=============================================================================
