------------------------------ MODULE ChatTurn_proofs ------------------------------
(***************************************************************************)
(* For any turns, chats, streams and faults: what the session lock, the    *)
(* BUSY mark, the cancel flag, the stored history and the environment      *)
(* variable guarantee although leases run out, tasks are cancelled and     *)
(* graphs outlive their tasks.                                             *)
(***************************************************************************)
EXTENDS ChatTurn, SequenceTheorems, TLAPS

\* The types the proofs need.
Types ==
    /\ pc \in [Turn -> PC]
    /\ thread \in [Turn -> {"none", "running", "folding"}]
    /\ lock \in [Chat -> Turn \cup {NoTurn}]
    /\ busy \in SUBSET Chat
    /\ cancel \in SUBSET Chat
    /\ env \in Vault \cup {NoVault}
    /\ prev \in [Turn -> Vault \cup {NoVault}]
    /\ faults \in 0 .. MaxFaults
    /\ overtaken \in SUBSET Turn /\ unguarded \in SUBSET Turn
    /\ asked \in SUBSET Turn
    /\ aborted \in SUBSET Chat
    /\ overlap \in BOOLEAN
    /\ \A t \in System : pc[t] # "compact"

\* Those of the histories.
History == Seq(Turn)
HistoryTypes ==
    /\ base \in [Turn -> History] /\ drawn \in [Turn -> History]
    /\ history \in [Chat -> History]
    /\ stale \in SUBSET Turn /\ behind \in SUBSET Turn

\* A history, and what a task or a tool has read of one, holds exchanges of turns of
\* the chat whose task has saved them.
Saved(h, c, S) == \A i \in 1 .. Len(h) : ChatOf[h[i]] = c /\ h[i] \in S
Finished == {t \in Turn : pc[t] \in {"finish", "over"}}
HistoryOK ==
    /\ \A c \in Chat : Saved(history[c], c, Finished) /\ Len(history[c]) <= MaxKept
    /\ \A t \in Turn : /\ Saved(base[t], ChatOf[t], Finished)
                       /\ Saved(drawn[t], ChatOf[t], Finished)

\* A graph runs while its task waits for it, or after its task was cancelled.
ThreadsOK ==
    \A t \in Turn : Running(t) =>
        \/ pc[t] = "graph"
        \/ pc[t] = "over" /\ t \in unguarded /\ ChatOf[t] \in aborted

LockOK == \A t \in Turn : pc[t] \in InLock /\ t \notin unguarded => lock[ChatOf[t]] = t

\* Only a graph that runs owes a stop to the flag, and then the flag is up.
FlagOK == \A t \in asked : Running(t) /\ ChatOf[t] \in cancel

\* A mark that no abort explains belongs to a turn that will take it back.
BusyOK ==
    \A c \in busy \ aborted :
        \E t \in Turn : ChatOf[t] = c /\ pc[t] \in {"compact", "setEnv", "graph"}

\* As long as no two turns were in the section of the variable, it has the value
\* that the turn in it, if any, wants, and none outside.
EnvOK ==
    ~overlap =>
        /\ \A t, u \in Turn : InSection(t) /\ InSection(u) => t = u
        /\ (\A t \in Turn : ~InSection(t)) => env = NoVault
        /\ \A t \in Turn : InSection(t) => prev[t] = NoVault
        /\ \A t \in Turn : pc[t] = "setEnv" => env = NoVault
        /\ \A t \in Turn : pc[t] = "graph" => env = Home(t)

\* What a task will write back ends with the stored history, unless another turn has
\* written since; what its tool summarizes does too, and is the end of the former.
BaseOK ==
    /\ \A t \in Turn \ stale : Holds(t) => IsNewest(history[ChatOf[t]], base[t])
    /\ \A t \in Turn \ behind :
          thread[t] = "folding" => IsNewest(history[ChatOf[t]], drawn[t])
    /\ \A t \in Turn \ stale : Holds(t) /\ thread[t] = "folding" =>
          t \notin behind /\ IsNewest(drawn[t], base[t])

ChatIInv ==
    Types /\ HistoryTypes /\ HistoryOK /\ ThreadsOK /\ LockOK /\ FlagOK /\ BusyOK /\ EnvOK /\ BaseOK

-----------------------------------------------------------------------------
(* The newest part of a history *)

\* The histories that are built here.
LEMMA SequenceTypes ==
    /\ <<>> \in History
    /\ \A c, S : Saved(<<>>, c, S)
    /\ \A h \in History : IsNewest(h, h)
    /\ \A u \in Turn : <<u>> \in History
    /\ \A h \in History, u \in Turn : Append(h, u) \in History
    /\ Len(<<>>) <= MaxKept
BY ChatAssumption DEF History, Saved, IsNewest

\* What is left without the oldest n exchanges.
LEMMA LeftTypes ==
    ASSUME NEW h \in History, NEW n \in 0 .. Len(h)
    PROVE  /\ WithoutOldest(h, n) \in History
           /\ Len(WithoutOldest(h, n)) = Len(h) - n
           /\ \A i \in 1 .. Len(h) - n : WithoutOldest(h, n)[i] = h[i + n]
           /\ IsNewest(WithoutOldest(h, n), h)
<1> USE DEF History
<1>1. Len(h) \in Nat /\ \A i \in n + 1 .. Len(h) : h[i] \in Turn
  OBVIOUS
<1>2. /\ WithoutOldest(h, n) \in History
      /\ Len(WithoutOldest(h, n)) = IF n + 1 <= Len(h) THEN Len(h) - (n + 1) + 1 ELSE 0
      /\ \A i \in 1 .. Len(h) - (n + 1) + 1 : WithoutOldest(h, n)[i] = h[n + 1 + i - 1]
  BY <1>1, SubSeqProperties DEF WithoutOldest
<1>3. Len(WithoutOldest(h, n)) = Len(h) - n
  BY <1>1, <1>2
<1>4. ASSUME NEW i \in 1 .. Len(h) - n PROVE WithoutOldest(h, n)[i] = h[i + n]
  <2>1. i \in 1 .. Len(h) - (n + 1) + 1 /\ n + 1 + i - 1 = i + n
    BY <1>1
  <2> QED
    BY <1>2, <2>1
<1>5. ASSUME NEW i \in 1 .. Len(h) - n PROVE i + Len(h) - (Len(h) - n) = i + n
  BY <1>1
<1>6. IsNewest(WithoutOldest(h, n), h)
  <2> DEFINE w == WithoutOldest(h, n)
  <2>1. Len(w) = Len(h) - n /\ \A i \in 1 .. Len(h) - n : w[i] = h[i + Len(h) - (Len(h) - n)]
    BY <1>3, <1>4, <1>5
  <2> HIDE DEF w
  <2>2. Len(w) <= Len(h) /\ \A i \in 1 .. Len(w) : w[i] = h[i + Len(h) - Len(w)]
    BY <1>1, <2>1
  <2> QED
    BY <2>2 DEF IsNewest, w
<1> QED
  BY <1>2, <1>3, <1>4, <1>6

\* What a compaction leaves.
LEMMA LeavesTypes ==
    ASSUME NEW h \in History, NEW k \in LeavesOf(h)
    PROVE  k \in History /\ IsNewest(k, h)
BY LeftTypes DEF LeavesOf

\* What the cap leaves.
LEMMA CappedTypes ==
    ASSUME NEW h \in History
    PROVE  /\ Capped(h) \in History
           /\ Len(Capped(h)) <= MaxKept
           /\ IsNewest(Capped(h), h)
<1> USE ChatAssumption
<1> DEFINE n == IF Len(h) > MaxKept THEN Len(h) - MaxKept ELSE 0
<1>1. Len(h) \in Nat
  BY DEF History
<1>2. n \in 0 .. Len(h) /\ Len(h) - n <= MaxKept
  BY <1>1
<1>3. Capped(h) = WithoutOldest(h, n)
  BY DEF Capped
<1> HIDE DEF n
<1> QED
  BY <1>2, <1>3, LeftTypes

\* The newest part of the newest part.
LEMMA NewestTrans ==
    ASSUME NEW r \in History, NEW s \in History, NEW h \in History,
           IsNewest(r, s), IsNewest(s, h)
    PROVE  IsNewest(r, h)
<1>1. Len(r) \in Nat /\ Len(s) \in Nat /\ Len(h) \in Nat
  BY DEF History
<1>2. ASSUME NEW i \in 1 .. Len(r)
      PROVE  r[i] = h[i + Len(h) - Len(r)]
  <2>1. i + Len(s) - Len(r) \in 1 .. Len(s) /\ r[i] = s[i + Len(s) - Len(r)]
    BY <1>1 DEF IsNewest
  <2> DEFINE j == i + Len(s) - Len(r)
  <2>2. s[j] = h[j + Len(h) - Len(s)]
    BY <2>1 DEF IsNewest
  <2>3. j + Len(h) - Len(s) = i + Len(h) - Len(r)
    BY <1>1
  <2> QED
    BY <2>1, <2>2, <2>3
<1> QED
  BY <1>1, <1>2 DEF IsNewest

\* Two newest parts of one history: one is the newest part of the other.
LEMMA NewestOfSame ==
    ASSUME NEW r \in History, NEW s \in History, NEW h \in History,
           IsNewest(r, h), IsNewest(s, h), Len(r) <= Len(s)
    PROVE  IsNewest(r, s)
<1>1. Len(r) \in Nat /\ Len(s) \in Nat /\ Len(h) \in Nat
  BY DEF History
<1>2. ASSUME NEW i \in 1 .. Len(r)
      PROVE  r[i] = s[i + Len(s) - Len(r)]
  <2> DEFINE j == i + Len(s) - Len(r)
  <2>1. j \in 1 .. Len(s)
    BY <1>1
  <2>2. s[j] = h[j + Len(h) - Len(s)]
    BY <2>1 DEF IsNewest
  <2>3. r[i] = h[i + Len(h) - Len(r)]
    BY DEF IsNewest
  <2>4. j + Len(h) - Len(s) = i + Len(h) - Len(r)
    BY <1>1
  <2> QED
    BY <2>2, <2>3, <2>4
<1> QED
  BY <1>2 DEF IsNewest

\* The newest part of saved exchanges is saved.
LEMMA NewestSaved ==
    ASSUME NEW s \in History, NEW h \in History, NEW c, NEW S, IsNewest(s, h), Saved(h, c, S)
    PROVE  Saved(s, c, S)
<1>1. Len(s) \in Nat /\ Len(h) \in Nat
  BY DEF History
<1>2. ASSUME NEW i \in 1 .. Len(s)
      PROVE  i + Len(h) - Len(s) \in 1 .. Len(h) /\ s[i] = h[i + Len(h) - Len(s)]
  BY <1>1 DEF IsNewest
<1> QED
  BY <1>2 DEF Saved

\* A save keeps what its base has, but for what the cap drops.
LEMMA SaveKeeps ==
    ASSUME NEW h \in History, NEW b \in History, NEW t \in Turn, IsNewest(h, b)
    PROVE  OnlyOldestGo(h, Capped(Append(b, t)))
<1> USE ChatAssumption
<1> DEFINE a == Append(b, t)
           n == IF Len(a) > MaxKept THEN Len(a) - MaxKept ELSE 0
           new == Capped(a)
           before == SubSeq(new, 1, Len(new) - 1)
<1>1. /\ a \in History /\ Len(a) = Len(b) + 1 /\ Len(b) \in Nat /\ Len(h) \in Nat
      /\ \A i \in 1 .. Len(b) : a[i] = b[i]
  BY DEF History
<1> HIDE DEF a
<1>2. n \in 0 .. Len(a) - 1
  BY <1>1
<1>3. new = WithoutOldest(a, n)
  BY DEF Capped
<1> HIDE DEF n, new
<1>4. /\ new \in History /\ Len(new) = Len(a) - n
      /\ \A i \in 1 .. Len(a) - n : new[i] = a[i + n]
  <2>1. n \in 0 .. Len(a)
    BY <1>1, <1>2
  <2>2. /\ WithoutOldest(a, n) \in History /\ Len(WithoutOldest(a, n)) = Len(a) - n
        /\ \A i \in 1 .. Len(a) - n : WithoutOldest(a, n)[i] = a[i + n]
    BY <1>1, <2>1, LeftTypes
  <2> QED
    BY <1>3, <2>2
<1>5. /\ before \in History
      /\ Len(before) = Len(b) - n
      /\ \A i \in 1 .. Len(b) - n : before[i] = b[i + n]
  <2>1. Len(new) - 1 = Len(b) - n /\ Len(b) - n \in Nat
    BY <1>1, <1>2, <1>4
  <2>2. \A i \in 1 .. Len(new) - 1 : new[i] \in Turn
    BY <1>1, <1>4, <2>1 DEF History
  <2>3. /\ before \in History
        /\ Len(before) = IF 1 <= Len(new) - 1 THEN (Len(new) - 1) - 1 + 1 ELSE 0
        /\ \A i \in 1 .. (Len(new) - 1) - 1 + 1 : before[i] = new[1 + i - 1]
    BY <2>1, <2>2, SubSeqProperties DEF History
  <2>4. \A i \in 1 .. Len(b) - n : before[i] = new[i] /\ new[i] = a[i + n] /\ a[i + n] = b[i + n]
    BY <1>1, <1>2, <1>4, <2>1, <2>3
  <2> QED
    BY <2>1, <2>3, <2>4
<1>6. IsNewest(before, b)
  <2>1. ASSUME NEW i \in 1 .. Len(b) - n PROVE i + Len(b) - (Len(b) - n) = i + n
    BY <1>1, <1>2
  <2>2. Len(before) <= Len(b)
    BY <1>1, <1>2, <1>5
  <2>3. ASSUME NEW i \in 1 .. Len(before)
        PROVE  before[i] = b[i + Len(b) - Len(before)]
    <3>1. i \in 1 .. Len(b) - n
      BY <1>5
    <3> QED
      BY <1>5, <2>1, <3>1
  <2> QED
    BY <2>2, <2>3 DEF IsNewest
<1> HIDE DEF before
<1>7. new # <<>>
  BY <1>1, <1>2, <1>4 DEF History
<1>8. CASE Len(h) <= Len(before)
  <2>1. IsNewest(h, before)
    BY <1>5, <1>6, <1>8, NewestOfSame
  <2> QED
    BY <1>7, <2>1 DEF OnlyOldestGo, before, new, a
<1>9. CASE ~(Len(h) <= Len(before))
  <2>1. IsNewest(before, h)
    BY <1>1, <1>5, <1>6, <1>9, NewestOfSame
  <2>2. Len(new) = MaxKept
    BY <1>1, <1>4, <1>5, <1>9 DEF n, IsNewest
  <2> QED
    BY <1>7, <2>1, <2>2 DEF OnlyOldestGo, before, new, a
<1> QED
  BY <1>8, <1>9

-----------------------------------------------------------------------------
(* Every step keeps the parts of the invariant *)

\* The types.
LEMMA TypesStep ==
    Types /\ [Next]_vars => Types'
<1> SUFFICES ASSUME Types, [Next]_vars
             PROVE  Types'
  OBVIOUS
<1> USE ChatAssumption DEF Types, Goto, PC, InLock, Busy, Running, toolVars, redisVars,
   envVars, flagVars, guardHistory
<1>1. ASSUME NEW t \in Turn, Prepare(t)
      PROVE  Types'
  BY <1>1 DEF Prepare, ClearCancel
<1>2. ASSUME NEW t \in Turn, AcquireLock(t)
      PROVE  Types'
  BY <1>2 DEF AcquireLock
<1>3. ASSUME NEW t \in Turn, GiveUp(t)
      PROVE  Types'
  BY <1>3 DEF GiveUp, EnterUnguarded
<1>4. ASSUME NEW t \in Turn, SkipLock(t)
      PROVE  Types'
  BY <1>4 DEF SkipLock, EnterUnguarded
<1>5. ASSUME NEW t \in Turn, Command(t)
      PROVE  Types'
  BY <1>5 DEF Command
<1>6. ASSUME NEW t \in Turn, SetBusy(t)
      PROVE  Types'
  <2>1. CASE ReadEnv(t)
    BY <1>6, <2>1 DEF SetBusy, ReadEnv
  <2>2. CASE t \notin System /\ Goto(t, "compact") /\ UNCHANGED <<prev, overlap>>
    BY <1>6, <2>2 DEF SetBusy
  <2> QED
    BY <1>6, <2>1, <2>2 DEF SetBusy
<1>7. ASSUME NEW t \in Turn, Compact(t)
      PROVE  Types'
  BY <1>7 DEF Compact, ReadEnv
<1>8. ASSUME NEW t \in Turn, SetEnv(t)
      PROVE  Types'
  BY <1>8 DEF SetEnv
<1>9. ASSUME NEW t \in Turn, GraphReturns(t)
      PROVE  Types'
  BY <1>9 DEF GraphReturns, SetIdle, RestoreEnv
<1>10. ASSUME NEW t \in Turn, Unlock(t)
      PROVE  Types'
  BY <1>10 DEF Unlock, Release, End
<1>11. ASSUME NEW t \in Turn, PersistRead(t)
      PROVE  Types'
  BY <1>11 DEF PersistRead
<1>12. ASSUME NEW t \in Turn, PersistSave(t)
      PROVE  Types'
  BY <1>12 DEF PersistSave
<1>13. ASSUME NEW t \in Turn, Finish(t)
      PROVE  Types'
  BY <1>13 DEF Finish, ClearCancel, End
<1>14. ASSUME NEW t \in Turn, PlanNode(t)
      PROVE  Types'
  BY <1>14 DEF PlanNode
<1>15. ASSUME NEW t \in Turn, FoldReads(t)
      PROVE  Types'
  BY <1>15 DEF FoldReads
<1>16. ASSUME NEW t \in Turn, FoldWrites(t)
      PROVE  Types'
  BY <1>16 DEF FoldWrites
<1>17. ASSUME NEW t \in Turn, ThreadEnds(t)
      PROVE  Types'
  BY <1>17 DEF ThreadEnds
<1>18. ASSUME NEW t \in Turn, Abort(t)
      PROVE  Types'
  BY <1>18 DEF Abort, AbortFlag, RaiseCancel, Release, RestoreEnv, End
<1>19. ASSUME NEW c \in Chat, RequestCancel(c)
      PROVE  Types'
  BY <1>19 DEF RequestCancel, Fault, RaiseCancel
<1>20. ASSUME NEW c \in Chat, CancelExpires(c)
      PROVE  Types'
  BY <1>20 DEF CancelExpires
<1>21. ASSUME NEW c \in Chat, LeaseExpires(c)
      PROVE  Types'
  BY <1>21 DEF LeaseExpires, Fault
<1>22. CASE GatewayCrash
  BY <1>22 DEF GatewayCrash, Fault
<1>23. CASE UNCHANGED vars
  BY <1>23 DEF vars
<1> QED
  BY <1>1, <1>2, <1>3, <1>4, <1>5, <1>6, <1>7, <1>8, <1>9, <1>10, <1>11, <1>12, <1>13,
     <1>14, <1>15, <1>16, <1>17, <1>18, <1>19, <1>20, <1>21, <1>22, <1>23 DEF Next,
     Enter, TaskStep, ThreadStep

\* A graph has its task, or lost it.
LEMMA ThreadsStep ==
    Types /\ ThreadsOK /\ [Next]_vars => ThreadsOK'
<1> SUFFICES ASSUME Types, ThreadsOK, [Next]_vars
             PROVE  ThreadsOK'
  OBVIOUS
<1> USE ChatAssumption DEF Types, ThreadsOK, Goto, PC, InLock, Busy, Running, toolVars,
   redisVars, envVars, flagVars, guardHistory
<1>1. ASSUME NEW t \in Turn, Prepare(t)
      PROVE  ThreadsOK'
  BY <1>1 DEF Prepare, ClearCancel
<1>2. ASSUME NEW t \in Turn, AcquireLock(t)
      PROVE  ThreadsOK'
  BY <1>2 DEF AcquireLock
<1>3. ASSUME NEW t \in Turn, GiveUp(t)
      PROVE  ThreadsOK'
  BY <1>3 DEF GiveUp, EnterUnguarded
<1>4. ASSUME NEW t \in Turn, SkipLock(t)
      PROVE  ThreadsOK'
  BY <1>4 DEF SkipLock, EnterUnguarded
<1>5. ASSUME NEW t \in Turn, Command(t)
      PROVE  ThreadsOK'
  BY <1>5 DEF Command
<1>6. ASSUME NEW t \in Turn, SetBusy(t)
      PROVE  ThreadsOK'
  BY <1>6 DEF SetBusy, ReadEnv
<1>7. ASSUME NEW t \in Turn, Compact(t)
      PROVE  ThreadsOK'
  BY <1>7 DEF Compact, ReadEnv
<1>8. ASSUME NEW t \in Turn, SetEnv(t)
      PROVE  ThreadsOK'
  BY <1>8 DEF SetEnv
<1>9. ASSUME NEW t \in Turn, GraphReturns(t)
      PROVE  ThreadsOK'
  BY <1>9 DEF GraphReturns, SetIdle, RestoreEnv
<1>10. ASSUME NEW t \in Turn, Unlock(t)
      PROVE  ThreadsOK'
  BY <1>10 DEF Unlock, Release, End
<1>11. ASSUME NEW t \in Turn, PersistRead(t)
      PROVE  ThreadsOK'
  BY <1>11 DEF PersistRead
<1>12. ASSUME NEW t \in Turn, PersistSave(t)
      PROVE  ThreadsOK'
  BY <1>12 DEF PersistSave
<1>13. ASSUME NEW t \in Turn, Finish(t)
      PROVE  ThreadsOK'
  BY <1>13 DEF Finish, ClearCancel, End
<1>14. ASSUME NEW t \in Turn, PlanNode(t)
      PROVE  ThreadsOK'
  BY <1>14 DEF PlanNode
<1>15. ASSUME NEW t \in Turn, FoldReads(t)
      PROVE  ThreadsOK'
  BY <1>15 DEF FoldReads
<1>16. ASSUME NEW t \in Turn, FoldWrites(t)
      PROVE  ThreadsOK'
  BY <1>16 DEF FoldWrites
<1>17. ASSUME NEW t \in Turn, ThreadEnds(t)
      PROVE  ThreadsOK'
  BY <1>17 DEF ThreadEnds
<1>18. ASSUME NEW t \in Turn, Abort(t)
      PROVE  ThreadsOK'
  BY <1>18 DEF Abort, AbortFlag, RaiseCancel, Release, RestoreEnv, End
<1>19. ASSUME NEW c \in Chat, RequestCancel(c)
      PROVE  ThreadsOK'
  BY <1>19 DEF RequestCancel, Fault, RaiseCancel
<1>20. ASSUME NEW c \in Chat, CancelExpires(c)
      PROVE  ThreadsOK'
  BY <1>20 DEF CancelExpires
<1>21. ASSUME NEW c \in Chat, LeaseExpires(c)
      PROVE  ThreadsOK'
  BY <1>21 DEF LeaseExpires, Fault
<1>22. CASE GatewayCrash
  BY <1>22 DEF GatewayCrash, Fault
<1>23. CASE UNCHANGED vars
  BY <1>23 DEF vars
<1> QED
  BY <1>1, <1>2, <1>3, <1>4, <1>5, <1>6, <1>7, <1>8, <1>9, <1>10, <1>11, <1>12, <1>13,
     <1>14, <1>15, <1>16, <1>17, <1>18, <1>19, <1>20, <1>21, <1>22, <1>23 DEF Next,
     Enter, TaskStep, ThreadStep

\* Who is inside and guarded has the lock.
LEMMA LockStep ==
    Types /\ ThreadsOK /\ LockOK /\ [Next]_vars => LockOK'
<1> SUFFICES ASSUME Types, ThreadsOK, LockOK, [Next]_vars
             PROVE  LockOK'
  OBVIOUS
<1> USE ChatAssumption DEF Types, ThreadsOK, LockOK, Goto, PC, InLock, Busy, Running,
   toolVars, redisVars, envVars, flagVars, guardHistory
<1>1. ASSUME NEW t \in Turn, Prepare(t)
      PROVE  LockOK'
  BY <1>1 DEF Prepare, ClearCancel
<1>2. ASSUME NEW t \in Turn, AcquireLock(t)
      PROVE  LockOK'
  BY <1>2 DEF AcquireLock
<1>3. ASSUME NEW t \in Turn, GiveUp(t)
      PROVE  LockOK'
  BY <1>3 DEF GiveUp, EnterUnguarded
<1>4. ASSUME NEW t \in Turn, SkipLock(t)
      PROVE  LockOK'
  BY <1>4 DEF SkipLock, EnterUnguarded
<1>5. ASSUME NEW t \in Turn, Command(t)
      PROVE  LockOK'
  BY <1>5 DEF Command
<1>6. ASSUME NEW t \in Turn, SetBusy(t)
      PROVE  LockOK'
  BY <1>6 DEF SetBusy, ReadEnv
<1>7. ASSUME NEW t \in Turn, Compact(t)
      PROVE  LockOK'
  BY <1>7 DEF Compact, ReadEnv
<1>8. ASSUME NEW t \in Turn, SetEnv(t)
      PROVE  LockOK'
  BY <1>8 DEF SetEnv
<1>9. ASSUME NEW t \in Turn, GraphReturns(t)
      PROVE  LockOK'
  BY <1>9 DEF GraphReturns, SetIdle, RestoreEnv
<1>10. ASSUME NEW t \in Turn, Unlock(t)
      PROVE  LockOK'
  BY <1>10 DEF Unlock, Release, End
<1>11. ASSUME NEW t \in Turn, PersistRead(t)
      PROVE  LockOK'
  BY <1>11 DEF PersistRead
<1>12. ASSUME NEW t \in Turn, PersistSave(t)
      PROVE  LockOK'
  BY <1>12 DEF PersistSave
<1>13. ASSUME NEW t \in Turn, Finish(t)
      PROVE  LockOK'
  BY <1>13 DEF Finish, ClearCancel, End
<1>14. ASSUME NEW t \in Turn, PlanNode(t)
      PROVE  LockOK'
  BY <1>14 DEF PlanNode
<1>15. ASSUME NEW t \in Turn, FoldReads(t)
      PROVE  LockOK'
  BY <1>15 DEF FoldReads
<1>16. ASSUME NEW t \in Turn, FoldWrites(t)
      PROVE  LockOK'
  BY <1>16 DEF FoldWrites
<1>17. ASSUME NEW t \in Turn, ThreadEnds(t)
      PROVE  LockOK'
  BY <1>17 DEF ThreadEnds
<1>18. ASSUME NEW t \in Turn, Abort(t)
      PROVE  LockOK'
  BY <1>18 DEF Abort, AbortFlag, RaiseCancel, Release, RestoreEnv, End
<1>19. ASSUME NEW c \in Chat, RequestCancel(c)
      PROVE  LockOK'
  BY <1>19 DEF RequestCancel, Fault, RaiseCancel
<1>20. ASSUME NEW c \in Chat, CancelExpires(c)
      PROVE  LockOK'
  BY <1>20 DEF CancelExpires
<1>21. ASSUME NEW c \in Chat, LeaseExpires(c)
      PROVE  LockOK'
  BY <1>21 DEF LeaseExpires, Fault
<1>22. CASE GatewayCrash
  BY <1>22 DEF GatewayCrash, Fault
<1>23. CASE UNCHANGED vars
  BY <1>23 DEF vars
<1> QED
  BY <1>1, <1>2, <1>3, <1>4, <1>5, <1>6, <1>7, <1>8, <1>9, <1>10, <1>11, <1>12, <1>13,
     <1>14, <1>15, <1>16, <1>17, <1>18, <1>19, <1>20, <1>21, <1>22, <1>23 DEF Next,
     Enter, TaskStep, ThreadStep

\* The flag is up for who is to stop for it.
LEMMA FlagStep ==
    Types /\ ThreadsOK /\ FlagOK /\ [Next]_vars => FlagOK'
<1> SUFFICES ASSUME Types, ThreadsOK, FlagOK, [Next]_vars
             PROVE  FlagOK'
  OBVIOUS
<1> USE ChatAssumption DEF Types, ThreadsOK, FlagOK, SameChat, Goto, PC, InLock, Busy,
   Running, toolVars, redisVars, envVars, flagVars, guardHistory
<1>1. ASSUME NEW t \in Turn, Prepare(t)
      PROVE  FlagOK'
  BY <1>1 DEF Prepare, ClearCancel
<1>2. ASSUME NEW t \in Turn, AcquireLock(t)
      PROVE  FlagOK'
  BY <1>2 DEF AcquireLock
<1>3. ASSUME NEW t \in Turn, GiveUp(t)
      PROVE  FlagOK'
  BY <1>3 DEF GiveUp, EnterUnguarded
<1>4. ASSUME NEW t \in Turn, SkipLock(t)
      PROVE  FlagOK'
  BY <1>4 DEF SkipLock, EnterUnguarded
<1>5. ASSUME NEW t \in Turn, Command(t)
      PROVE  FlagOK'
  BY <1>5 DEF Command
<1>6. ASSUME NEW t \in Turn, SetBusy(t)
      PROVE  FlagOK'
  BY <1>6 DEF SetBusy, ReadEnv
<1>7. ASSUME NEW t \in Turn, Compact(t)
      PROVE  FlagOK'
  BY <1>7 DEF Compact, ReadEnv
<1>8. ASSUME NEW t \in Turn, SetEnv(t)
      PROVE  FlagOK'
  BY <1>8 DEF SetEnv
<1>9. ASSUME NEW t \in Turn, GraphReturns(t)
      PROVE  FlagOK'
  BY <1>9 DEF GraphReturns, SetIdle, RestoreEnv
<1>10. ASSUME NEW t \in Turn, Unlock(t)
      PROVE  FlagOK'
  BY <1>10 DEF Unlock, Release, End
<1>11. ASSUME NEW t \in Turn, PersistRead(t)
      PROVE  FlagOK'
  BY <1>11 DEF PersistRead
<1>12. ASSUME NEW t \in Turn, PersistSave(t)
      PROVE  FlagOK'
  BY <1>12 DEF PersistSave
<1>13. ASSUME NEW t \in Turn, Finish(t)
      PROVE  FlagOK'
  BY <1>13 DEF Finish, ClearCancel, End
<1>14. ASSUME NEW t \in Turn, PlanNode(t)
      PROVE  FlagOK'
  BY <1>14 DEF PlanNode
<1>15. ASSUME NEW t \in Turn, FoldReads(t)
      PROVE  FlagOK'
  BY <1>15 DEF FoldReads
<1>16. ASSUME NEW t \in Turn, FoldWrites(t)
      PROVE  FlagOK'
  BY <1>16 DEF FoldWrites
<1>17. ASSUME NEW t \in Turn, ThreadEnds(t)
      PROVE  FlagOK'
  BY <1>17 DEF ThreadEnds
<1>18. ASSUME NEW t \in Turn, Abort(t)
      PROVE  FlagOK'
  BY <1>18 DEF Abort, AbortFlag, RaiseCancel, Release, RestoreEnv, End
<1>19. ASSUME NEW c \in Chat, RequestCancel(c)
      PROVE  FlagOK'
  BY <1>19 DEF RequestCancel, Fault, RaiseCancel
<1>20. ASSUME NEW c \in Chat, CancelExpires(c)
      PROVE  FlagOK'
  BY <1>20 DEF CancelExpires
<1>21. ASSUME NEW c \in Chat, LeaseExpires(c)
      PROVE  FlagOK'
  BY <1>21 DEF LeaseExpires, Fault
<1>22. CASE GatewayCrash
  BY <1>22 DEF GatewayCrash, Fault
<1>23. CASE UNCHANGED vars
  BY <1>23 DEF vars
<1> QED
  BY <1>1, <1>2, <1>3, <1>4, <1>5, <1>6, <1>7, <1>8, <1>9, <1>10, <1>11, <1>12, <1>13,
     <1>14, <1>15, <1>16, <1>17, <1>18, <1>19, <1>20, <1>21, <1>22, <1>23 DEF Next,
     Enter, TaskStep, ThreadStep

\* The BUSY mark has an owner.
LEMMA BusyStep ==
    Types /\ ThreadsOK /\ BusyOK /\ [Next]_vars => BusyOK'
<1> SUFFICES ASSUME Types, ThreadsOK, BusyOK, [Next]_vars
             PROVE  BusyOK'
  OBVIOUS
<1> USE ChatAssumption DEF Types, ThreadsOK, BusyOK, Goto, PC, InLock, Busy, Running,
   toolVars, redisVars, envVars, flagVars, guardHistory
<1>1. ASSUME NEW t \in Turn, Prepare(t)
      PROVE  BusyOK'
  BY <1>1 DEF Prepare, ClearCancel
<1>2. ASSUME NEW t \in Turn, AcquireLock(t)
      PROVE  BusyOK'
  BY <1>2 DEF AcquireLock
<1>3. ASSUME NEW t \in Turn, GiveUp(t)
      PROVE  BusyOK'
  BY <1>3 DEF GiveUp, EnterUnguarded
<1>4. ASSUME NEW t \in Turn, SkipLock(t)
      PROVE  BusyOK'
  BY <1>4 DEF SkipLock, EnterUnguarded
<1>5. ASSUME NEW t \in Turn, Command(t)
      PROVE  BusyOK'
  BY <1>5 DEF Command
<1>6. ASSUME NEW t \in Turn, SetBusy(t)
      PROVE  BusyOK'
  BY <1>6 DEF SetBusy, ReadEnv
<1>7. ASSUME NEW t \in Turn, Compact(t)
      PROVE  BusyOK'
  BY <1>7 DEF Compact, ReadEnv
<1>8. ASSUME NEW t \in Turn, SetEnv(t)
      PROVE  BusyOK'
  BY <1>8 DEF SetEnv
<1>9. ASSUME NEW t \in Turn, GraphReturns(t)
      PROVE  BusyOK'
  BY <1>9 DEF GraphReturns, SetIdle, RestoreEnv
<1>10. ASSUME NEW t \in Turn, Unlock(t)
      PROVE  BusyOK'
  BY <1>10 DEF Unlock, Release, End
<1>11. ASSUME NEW t \in Turn, PersistRead(t)
      PROVE  BusyOK'
  BY <1>11 DEF PersistRead
<1>12. ASSUME NEW t \in Turn, PersistSave(t)
      PROVE  BusyOK'
  BY <1>12 DEF PersistSave
<1>13. ASSUME NEW t \in Turn, Finish(t)
      PROVE  BusyOK'
  BY <1>13 DEF Finish, ClearCancel, End
<1>14. ASSUME NEW t \in Turn, PlanNode(t)
      PROVE  BusyOK'
  BY <1>14 DEF PlanNode
<1>15. ASSUME NEW t \in Turn, FoldReads(t)
      PROVE  BusyOK'
  BY <1>15 DEF FoldReads
<1>16. ASSUME NEW t \in Turn, FoldWrites(t)
      PROVE  BusyOK'
  BY <1>16 DEF FoldWrites
<1>17. ASSUME NEW t \in Turn, ThreadEnds(t)
      PROVE  BusyOK'
  BY <1>17 DEF ThreadEnds
<1>18. ASSUME NEW t \in Turn, Abort(t)
      PROVE  BusyOK'
  BY <1>18 DEF Abort, AbortFlag, RaiseCancel, Release, RestoreEnv, End
<1>19. ASSUME NEW c \in Chat, RequestCancel(c)
      PROVE  BusyOK'
  BY <1>19 DEF RequestCancel, Fault, RaiseCancel
<1>20. ASSUME NEW c \in Chat, CancelExpires(c)
      PROVE  BusyOK'
  BY <1>20 DEF CancelExpires
<1>21. ASSUME NEW c \in Chat, LeaseExpires(c)
      PROVE  BusyOK'
  BY <1>21 DEF LeaseExpires, Fault
<1>22. CASE GatewayCrash
  BY <1>22 DEF GatewayCrash, Fault
<1>23. CASE UNCHANGED vars
  BY <1>23 DEF vars
<1> QED
  BY <1>1, <1>2, <1>3, <1>4, <1>5, <1>6, <1>7, <1>8, <1>9, <1>10, <1>11, <1>12, <1>13,
     <1>14, <1>15, <1>16, <1>17, <1>18, <1>19, <1>20, <1>21, <1>22, <1>23 DEF Next,
     Enter, TaskStep, ThreadStep

\* The variable of the playground vault.
LEMMA EnvStep ==
    Types /\ EnvOK /\ [Next]_vars => EnvOK'
<1> SUFFICES ASSUME Types, EnvOK, [Next]_vars
             PROVE  EnvOK'
  OBVIOUS
<1> USE ChatAssumption DEF Types, EnvOK, InSection, Home, Goto, PC, InLock, Busy,
   Running, toolVars, redisVars, envVars, flagVars, guardHistory
<1>1. ASSUME NEW t \in Turn, Prepare(t)
      PROVE  EnvOK'
  BY <1>1 DEF Prepare, ClearCancel
<1>2. ASSUME NEW t \in Turn, AcquireLock(t)
      PROVE  EnvOK'
  BY <1>2 DEF AcquireLock
<1>3. ASSUME NEW t \in Turn, GiveUp(t)
      PROVE  EnvOK'
  BY <1>3 DEF GiveUp, EnterUnguarded
<1>4. ASSUME NEW t \in Turn, SkipLock(t)
      PROVE  EnvOK'
  BY <1>4 DEF SkipLock, EnterUnguarded
<1>5. ASSUME NEW t \in Turn, Command(t)
      PROVE  EnvOK'
  BY <1>5 DEF Command
<1>6. ASSUME NEW t \in Turn, SetBusy(t)
      PROVE  EnvOK'
  <2>1. CASE ReadEnv(t)
    <3>1. CASE overlap \/ \E u \in Turn : InSection(u)
      BY <2>1, <3>1 DEF ReadEnv
    <3>2. CASE ~overlap /\ \A u \in Turn : ~InSection(u)
      <4>1. env = NoVault
        BY <3>2
      <4>2. pc' = [pc EXCEPT ![t] = "setEnv"] /\ prev' = [prev EXCEPT ![t] = NoVault]
        BY <2>1, <4>1 DEF ReadEnv
      <4>3. UNCHANGED env
        BY <1>6 DEF SetBusy
      <4> QED
        BY <3>2, <4>1, <4>2, <4>3
    <3> QED
      BY <3>1, <3>2
  <2>2. CASE pc' = [pc EXCEPT ![t] = "compact"] /\ UNCHANGED <<prev, overlap>>
    BY <1>6, <2>2 DEF SetBusy
  <2> QED
    BY <1>6, <2>1, <2>2 DEF SetBusy
<1>7. ASSUME NEW t \in Turn, Compact(t)
      PROVE  EnvOK'
  <2>1. CASE ReadEnv(t)
    <3>1. CASE overlap \/ \E u \in Turn : InSection(u)
      BY <2>1, <3>1 DEF ReadEnv
    <3>2. CASE ~overlap /\ \A u \in Turn : ~InSection(u)
      <4>1. env = NoVault
        BY <3>2
      <4>2. pc' = [pc EXCEPT ![t] = "setEnv"] /\ prev' = [prev EXCEPT ![t] = NoVault]
        BY <2>1, <4>1 DEF ReadEnv
      <4>3. UNCHANGED env
        BY <1>7 DEF Compact
      <4> QED
        BY <3>2, <4>1, <4>2, <4>3
    <3> QED
      BY <3>1, <3>2
  <2> QED
    BY <1>7, <2>1 DEF Compact
<1>8. ASSUME NEW t \in Turn, SetEnv(t)
      PROVE  EnvOK'
  BY <1>8 DEF SetEnv
<1>9. ASSUME NEW t \in Turn, GraphReturns(t)
      PROVE  EnvOK'
  BY <1>9 DEF GraphReturns, SetIdle, RestoreEnv
<1>10. ASSUME NEW t \in Turn, Unlock(t)
      PROVE  EnvOK'
  BY <1>10 DEF Unlock, Release, End
<1>11. ASSUME NEW t \in Turn, PersistRead(t)
      PROVE  EnvOK'
  BY <1>11 DEF PersistRead
<1>12. ASSUME NEW t \in Turn, PersistSave(t)
      PROVE  EnvOK'
  BY <1>12 DEF PersistSave
<1>13. ASSUME NEW t \in Turn, Finish(t)
      PROVE  EnvOK'
  BY <1>13 DEF Finish, ClearCancel, End
<1>14. ASSUME NEW t \in Turn, PlanNode(t)
      PROVE  EnvOK'
  BY <1>14 DEF PlanNode
<1>15. ASSUME NEW t \in Turn, FoldReads(t)
      PROVE  EnvOK'
  BY <1>15 DEF FoldReads
<1>16. ASSUME NEW t \in Turn, FoldWrites(t)
      PROVE  EnvOK'
  BY <1>16 DEF FoldWrites
<1>17. ASSUME NEW t \in Turn, ThreadEnds(t)
      PROVE  EnvOK'
  BY <1>17 DEF ThreadEnds
<1>18. ASSUME NEW t \in Turn, Abort(t)
      PROVE  EnvOK'
  BY <1>18 DEF Abort, AbortFlag, RaiseCancel, Release, RestoreEnv, End
<1>19. ASSUME NEW c \in Chat, RequestCancel(c)
      PROVE  EnvOK'
  BY <1>19 DEF RequestCancel, Fault, RaiseCancel
<1>20. ASSUME NEW c \in Chat, CancelExpires(c)
      PROVE  EnvOK'
  BY <1>20 DEF CancelExpires
<1>21. ASSUME NEW c \in Chat, LeaseExpires(c)
      PROVE  EnvOK'
  BY <1>21 DEF LeaseExpires, Fault
<1>22. CASE GatewayCrash
  BY <1>22 DEF GatewayCrash, Fault
<1>23. CASE UNCHANGED vars
  BY <1>23 DEF vars
<1> QED
  BY <1>1, <1>2, <1>3, <1>4, <1>5, <1>6, <1>7, <1>8, <1>9, <1>10, <1>11, <1>12, <1>13,
     <1>14, <1>15, <1>16, <1>17, <1>18, <1>19, <1>20, <1>21, <1>22, <1>23 DEF Next,
     Enter, TaskStep, ThreadStep

-----------------------------------------------------------------------------
(* What a step does to the histories *)

\* Nothing.
Quiet ==
    /\ UNCHANGED <<base, drawn, history, stale, behind>>
    /\ \A u \in Turn : /\ Holds(u)' => Holds(u)
                       /\ thread'[u] = "folding" => thread[u] = "folding"
                       /\ pc[u] \in {"finish", "over"} => pc'[u] \in {"finish", "over"}

\* The task of t ends.
Ends(t) ==
    /\ UNCHANGED <<thread, drawn, history, behind>>
    /\ End(t)

\* The task of t finds the history it starts from.
Finds(t) ==
    /\ UNCHANGED <<thread, drawn, history, behind>>
    /\ pc[t] = "idle" /\ Goto(t, "wait") /\ FindHistory(t)

\* The task of t compacts the history to k, under the lock.
Compacts(t, k) ==
    /\ UNCHANGED <<thread, drawn>>
    /\ WriteHistory(t, k)
    /\ base' = [base EXCEPT ![t] = k] \/ UNCHANGED base
    /\ pc[t] \in {"enter", "compact"} /\ \E l \in {"unlock", "setEnv"} : Goto(t, l)
    /\ t \notin System \/ base[t] # <<>>

\* The task of t saves its exchange.
Saves(t) ==
    /\ UNCHANGED <<thread, drawn, base>>
    /\ WriteHistory(t, Append(base[t], t))
    /\ pc[t] = "save" /\ Goto(t, "finish")

HistoryAction ==
    \/ Quiet
    \/ \E t \in Turn : \/ Ends(t) \/ Finds(t) \/ \E k \in LeavesOf(base[t]) : Compacts(t, k)
                       \/ PersistRead(t) \/ Saves(t) \/ FoldReads(t) \/ FoldWrites(t)
    \/ GatewayCrash

\* Every step is one of these.
LEMMA HistorySteps ==
    Types /\ HistoryTypes /\ [Next]_vars => HistoryAction
<1> SUFFICES ASSUME Types, HistoryTypes, [Next]_vars
             PROVE  HistoryAction
  OBVIOUS
<1> USE ChatAssumption DEF Types, HistoryTypes, Goto, PC, InLock, Busy, toolVars,
   redisVars
<1>1. ASSUME NEW t \in Turn, Prepare(t)
      PROVE  HistoryAction
  <2>1. CASE Goto(t, "wait") /\ FindHistory(t)
    BY <1>1, <2>1 DEF Prepare, Finds, HistoryAction
  <2>2. CASE Goto(t, "over") /\ UNCHANGED <<base, stale>>
    BY <1>1, <2>2 DEF Prepare, Quiet, Holds, HistoryAction
  <2> QED
    BY <1>1, <2>1, <2>2 DEF Prepare
<1>2. ASSUME NEW t \in Turn, AcquireLock(t)
      PROVE  HistoryAction
  BY <1>2 DEF AcquireLock, Quiet, Holds, HistoryAction
<1>3. ASSUME NEW t \in Turn, GiveUp(t)
      PROVE  HistoryAction
  BY <1>3 DEF GiveUp, EnterUnguarded, Quiet, Holds, HistoryAction
<1>4. ASSUME NEW t \in Turn, SkipLock(t)
      PROVE  HistoryAction
  BY <1>4 DEF SkipLock, EnterUnguarded, Quiet, Holds, HistoryAction
<1>5. ASSUME NEW t \in Turn, Command(t)
      PROVE  HistoryAction
  <2>1. CASE UNCHANGED <<base, history, stale, behind>>
    BY <1>5, <2>1 DEF Command, Quiet, Holds, HistoryAction
  <2>2. ASSUME NEW k \in LeavesOf(base[t]), Goto(t, "unlock"), base[t] # <<>>,
               WriteHistory(t, k), base' = [base EXCEPT ![t] = k]
        PROVE  HistoryAction
    BY <1>5, <2>2 DEF Command, Compacts, HistoryAction
  <2> QED
    BY <1>5, <2>1, <2>2 DEF Command
<1>6. ASSUME NEW t \in Turn, SetBusy(t)
      PROVE  HistoryAction
  BY <1>6 DEF SetBusy, ReadEnv, Quiet, Holds, HistoryAction
<1>7. ASSUME NEW t \in Turn, Compact(t)
      PROVE  HistoryAction
  BY <1>7 DEF Compact, CompactHistory, ReadEnv, Compacts, HistoryAction
<1>8. ASSUME NEW t \in Turn, SetEnv(t)
      PROVE  HistoryAction
  BY <1>8 DEF SetEnv, Quiet, Holds, HistoryAction
<1>9. ASSUME NEW t \in Turn, GraphReturns(t)
      PROVE  HistoryAction
  BY <1>9 DEF GraphReturns, Quiet, Holds, HistoryAction
<1>10. ASSUME NEW t \in Turn, Unlock(t)
      PROVE  HistoryAction
  <2>1. CASE pc[t] = "unlockFailed" /\ End(t)
    BY <1>10, <2>1 DEF Unlock, Ends, HistoryAction
  <2>2. CASE pc[t] = "unlock" /\ UNCHANGED <<base, stale>>
    BY <1>10, <2>2 DEF Unlock, Quiet, Holds, HistoryAction
  <2> QED
    BY <1>10, <2>1, <2>2 DEF Unlock
<1>11. ASSUME NEW t \in Turn, PersistRead(t)
      PROVE  HistoryAction
  BY <1>11 DEF HistoryAction
<1>12. ASSUME NEW t \in Turn, PersistSave(t)
      PROVE  HistoryAction
  <2>1. CASE WriteHistory(t, Append(base[t], t))
    BY <1>12, <2>1 DEF PersistSave, Saves, HistoryAction
  <2>2. CASE UNCHANGED <<history, stale, behind>>
    BY <1>12, <2>2 DEF PersistSave, Quiet, Holds, HistoryAction
  <2> QED
    BY <1>12, <2>1, <2>2 DEF PersistSave
<1>13. ASSUME NEW t \in Turn, Finish(t)
      PROVE  HistoryAction
  BY <1>13 DEF Finish, Ends, HistoryAction
<1>14. ASSUME NEW t \in Turn, PlanNode(t)
      PROVE  HistoryAction
  BY <1>14 DEF PlanNode, Quiet, Holds, HistoryAction
<1>15. ASSUME NEW t \in Turn, FoldReads(t)
      PROVE  HistoryAction
  BY <1>15 DEF HistoryAction
<1>16. ASSUME NEW t \in Turn, FoldWrites(t)
      PROVE  HistoryAction
  BY <1>16 DEF HistoryAction
<1>17. ASSUME NEW t \in Turn, ThreadEnds(t)
      PROVE  HistoryAction
  BY <1>17 DEF ThreadEnds, Quiet, Holds, HistoryAction
<1>18. ASSUME NEW t \in Turn, Abort(t)
      PROVE  HistoryAction
  BY <1>18 DEF Abort, Ends, HistoryAction
<1>19. ASSUME NEW c \in Chat, RequestCancel(c)
      PROVE  HistoryAction
  BY <1>19 DEF RequestCancel, Quiet, Holds, HistoryAction
<1>20. ASSUME NEW c \in Chat, CancelExpires(c)
      PROVE  HistoryAction
  BY <1>20 DEF CancelExpires, Quiet, Holds, HistoryAction
<1>21. ASSUME NEW c \in Chat, LeaseExpires(c)
      PROVE  HistoryAction
  BY <1>21 DEF LeaseExpires, Quiet, Holds, HistoryAction
<1>22. CASE GatewayCrash
  BY <1>22 DEF HistoryAction
<1>23. CASE UNCHANGED vars
  BY <1>23 DEF vars, Quiet, Holds, HistoryAction
<1> QED
  BY <1>1, <1>2, <1>3, <1>4, <1>5, <1>6, <1>7, <1>8, <1>9, <1>10, <1>11, <1>12, <1>13,
     <1>14, <1>15, <1>16, <1>17, <1>18, <1>19, <1>20, <1>21, <1>22, <1>23 DEF Next,
     Enter, TaskStep, ThreadStep

\* The types of the histories.
LEMMA HistoryTypesStep ==
    Types /\ HistoryTypes /\ [Next]_vars => HistoryTypes'
<1> SUFFICES ASSUME Types, HistoryTypes, HistoryAction
             PROVE  HistoryTypes'
  BY HistorySteps
<1> USE ChatAssumption DEF HistoryTypes
<1>1. CASE Quiet
  BY <1>1 DEF Quiet
<1>2. ASSUME NEW t \in Turn, Ends(t)
      PROVE  HistoryTypes'
  BY <1>2, SequenceTypes DEF Ends, End
<1>3. ASSUME NEW t \in Turn, Finds(t)
      PROVE  HistoryTypes'
  <2>1. base' \in [Turn -> History]
    <3>1. CASE base' = [base EXCEPT ![t] = IF t \in System THEN <<>> ELSE history[ChatOf[t]]]
      BY <3>1, SequenceTypes
    <3>2. ASSUME NEW u \in Past(t), base' = [base EXCEPT ![t] = <<u>>]
          PROVE  base' \in [Turn -> History]
      <4>1. <<u>> \in History
        BY SequenceTypes DEF Past
      <4> QED
        BY <3>2, <4>1
    <3> QED
      BY <1>3, <3>1, <3>2 DEF Finds, FindHistory
  <2> QED
    BY <1>3, <2>1 DEF Finds, FindHistory
<1>4. ASSUME NEW t \in Turn, NEW k \in LeavesOf(base[t]), Compacts(t, k)
      PROVE  HistoryTypes'
  <2>1. k \in History /\ Capped(k) \in History
    BY LeavesTypes, CappedTypes
  <2> QED
    BY <1>4, <2>1 DEF Compacts, WriteHistory, Readers, Folders
<1>5. ASSUME NEW t \in Turn, PersistRead(t)
      PROVE  HistoryTypes'
  BY <1>5 DEF PersistRead, ReadHistory, toolVars, redisVars
<1>6. ASSUME NEW t \in Turn, Saves(t)
      PROVE  HistoryTypes'
  <2>1. Capped(Append(base[t], t)) \in History
    BY SequenceTypes, CappedTypes
  <2> QED
    BY <1>6, <2>1 DEF Saves, WriteHistory, Readers, Folders
<1>7. ASSUME NEW t \in Turn, FoldReads(t)
      PROVE  HistoryTypes'
  BY <1>7 DEF FoldReads, redisVars
<1>8. ASSUME NEW t \in Turn, FoldWrites(t)
      PROVE  HistoryTypes'
  <2>1. \A k \in LeavesOf(drawn[t]) : Capped(k) \in History
    BY LeavesTypes, CappedTypes
  <2>2. drawn' = [drawn EXCEPT ![t] = <<>>] /\ base' = base
    BY <1>8 DEF FoldWrites
  <2>3. CASE behind' = behind \ {t} /\ UNCHANGED <<history, stale>>
    BY <2>2, <2>3, SequenceTypes
  <2>4. ASSUME NEW k \in LeavesOf(drawn[t]),
               history' = [history EXCEPT ![ChatOf[t]] = Capped(k)],
               stale' = stale \cup Readers(t),
               behind' = (behind \ {t}) \cup Folders(t)
        PROVE  HistoryTypes'
    <3>1. Capped(k) \in History
      BY <2>1
    <3> QED
      BY <2>2, <2>4, <3>1, SequenceTypes DEF Readers, Folders
  <2> QED
    BY <1>8, <2>3, <2>4 DEF FoldWrites
<1>9. CASE GatewayCrash
  BY <1>9, SequenceTypes DEF GatewayCrash, redisVars
<1> QED
  BY <1>1, <1>2, <1>3, <1>4, <1>5, <1>6, <1>7, <1>8, <1>9 DEF HistoryAction

\* A task that has saved its exchange stays where it is, or ends.
LEMMA FinishedStays ==
    Types /\ HistoryTypes /\ [Next]_vars => Finished \subseteq Finished'
<1> SUFFICES ASSUME Types, HistoryAction
             PROVE  Finished \subseteq Finished'
  BY HistorySteps
<1>0. pc \in [Turn -> PC]
  BY DEF Types
<1>1. CASE Quiet
  BY <1>1 DEF Quiet, Finished
<1>2. ASSUME NEW t \in Turn, Ends(t) \/ Finds(t) \/ PersistRead(t) \/ Saves(t)
      PROVE  Finished \subseteq Finished'
  BY <1>0, <1>2 DEF Ends, End, Finds, PersistRead, Saves, Goto, Finished
<1>3. ASSUME NEW t \in Turn, NEW k \in LeavesOf(base[t]), Compacts(t, k)
      PROVE  Finished \subseteq Finished'
  BY <1>0, <1>3 DEF Compacts, Goto, Finished
<1>4. ASSUME NEW t \in Turn, FoldReads(t) \/ FoldWrites(t)
      PROVE  Finished \subseteq Finished'
  BY <1>4 DEF FoldReads, FoldWrites, Finished
<1>5. CASE GatewayCrash
  BY <1>0, <1>5 DEF GatewayCrash, Finished
<1> QED
  BY <1>1, <1>2, <1>3, <1>4, <1>5 DEF HistoryAction

\* Histories hold what was saved.
LEMMA HistoryStep ==
    Types /\ HistoryTypes /\ HistoryOK /\ [Next]_vars => HistoryOK'
<1> SUFFICES ASSUME Types, HistoryTypes, HistoryOK, [Next]_vars
             PROVE  HistoryOK'
  OBVIOUS
<1> USE ChatAssumption DEF HistoryTypes, HistoryOK
<1>0. HistoryAction /\ Finished \subseteq Finished'
  BY HistorySteps, FinishedStays
<1>m. ASSUME NEW h \in History, NEW c, Saved(h, c, Finished)
      PROVE  Saved(h, c, Finished')
  BY <1>m, <1>0 DEF Saved
<1>c. ASSUME NEW h \in History, NEW c, Saved(h, c, Finished')
      PROVE  Saved(Capped(h), c, Finished') /\ Len(Capped(h)) <= MaxKept
  BY <1>c, CappedTypes, NewestSaved
<1>k. ASSUME NEW h \in History, NEW k \in LeavesOf(h), NEW c, Saved(h, c, Finished)
      PROVE  k \in History /\ Saved(k, c, Finished')
  <2>1. k \in History /\ IsNewest(k, h)
    BY LeavesTypes
  <2>2. Saved(k, c, Finished)
    BY <1>k, <2>1, NewestSaved
  <2> QED
    BY <1>m, <2>1, <2>2
<1>s. /\ \A c \in Chat : Saved(history[c], c, Finished')
      /\ \A t \in Turn : /\ Saved(base[t], ChatOf[t], Finished')
                         /\ Saved(drawn[t], ChatOf[t], Finished')
  BY <1>m
<1>1. CASE Quiet
  BY <1>1, <1>s DEF Quiet
<1>2. ASSUME NEW t \in Turn, Ends(t)
      PROVE  HistoryOK'
  BY <1>2, <1>s, SequenceTypes DEF Ends, End
<1>3. ASSUME NEW t \in Turn, Finds(t)
      PROVE  HistoryOK'
  <2>1. CASE base' = [base EXCEPT ![t] = IF t \in System THEN <<>> ELSE history[ChatOf[t]]]
    BY <1>3, <1>s, <2>1, SequenceTypes DEF Finds
  <2>2. ASSUME NEW u \in Past(t), base' = [base EXCEPT ![t] = <<u>>]
        PROVE  HistoryOK'
    <3>1. ChatOf[u] = ChatOf[t] /\ u \in Finished'
      BY <1>0 DEF Past, Finished
    <3>2. Saved(<<u>>, ChatOf[t], Finished')
      BY <3>1 DEF Saved
    <3> QED
      BY <1>3, <1>s, <2>2, <3>2 DEF Finds
  <2> QED
    BY <1>3, <2>1, <2>2 DEF Finds, FindHistory
<1>4. ASSUME NEW t \in Turn, NEW k \in LeavesOf(base[t]), Compacts(t, k)
      PROVE  HistoryOK'
  <2>1. k \in History /\ Saved(k, ChatOf[t], Finished')
    BY <1>k
  <2>2. Saved(Capped(k), ChatOf[t], Finished') /\ Len(Capped(k)) <= MaxKept
    BY <1>c, <2>1
  <2> QED
    BY <1>4, <1>s, <2>1, <2>2 DEF Compacts, WriteHistory
<1>5. ASSUME NEW t \in Turn, PersistRead(t)
      PROVE  HistoryOK'
  BY <1>5, <1>s DEF PersistRead, ReadHistory, toolVars, redisVars
<1>6. ASSUME NEW t \in Turn, Saves(t)
      PROVE  HistoryOK'
  <2>1. t \in Finished'
    BY <1>6 DEF Saves, Goto, Types, Finished
  <2>2. Append(base[t], t) \in History /\ Saved(Append(base[t], t), ChatOf[t], Finished')
    BY <1>s, <2>1 DEF Saved, History
  <2>3. /\ Saved(Capped(Append(base[t], t)), ChatOf[t], Finished')
        /\ Len(Capped(Append(base[t], t))) <= MaxKept
    BY <1>c, <2>2
  <2> QED
    BY <1>6, <1>s, <2>3 DEF Saves, WriteHistory
<1>7. ASSUME NEW t \in Turn, FoldReads(t)
      PROVE  HistoryOK'
  BY <1>7, <1>s DEF FoldReads, redisVars
<1>8. ASSUME NEW t \in Turn, FoldWrites(t)
      PROVE  HistoryOK'
  <2>1. \A k \in LeavesOf(drawn[t]) : /\ Saved(Capped(k), ChatOf[t], Finished')
                                     /\ Len(Capped(k)) <= MaxKept
    BY <1>k, <1>c
  <2>2. drawn' = [drawn EXCEPT ![t] = <<>>] /\ base' = base
    BY <1>8 DEF FoldWrites
  <2>3. CASE UNCHANGED history
    BY <1>s, <2>2, <2>3, SequenceTypes
  <2>4. ASSUME NEW k \in LeavesOf(drawn[t]), history' = [history EXCEPT ![ChatOf[t]] = Capped(k)]
        PROVE  HistoryOK'
    <3>1. Saved(Capped(k), ChatOf[t], Finished') /\ Len(Capped(k)) <= MaxKept
      BY <2>1
    <3> QED
      BY <1>s, <2>2, <2>4, <3>1, SequenceTypes
  <2> QED
    BY <1>8, <2>3, <2>4 DEF FoldWrites
<1>9. CASE GatewayCrash
  BY <1>9, <1>s, SequenceTypes DEF GatewayCrash, redisVars
<1> QED
  BY <1>0, <1>1, <1>2, <1>3, <1>4, <1>5, <1>6, <1>7, <1>8, <1>9 DEF HistoryAction

\* What will be written back.
LEMMA BaseStep ==
    Types /\ HistoryTypes /\ ThreadsOK /\ BaseOK /\ [Next]_vars => BaseOK'
<1> SUFFICES ASSUME Types, HistoryTypes, ThreadsOK, BaseOK, HistoryAction
             PROVE  BaseOK'
  BY HistorySteps
<1> USE ChatAssumption DEF HistoryTypes, BaseOK
<1>t. pc \in [Turn -> PC] /\ thread \in [Turn -> {"none", "running", "folding"}]
  BY DEF Types
<1>n. \A u \in Turn : thread[u] = "folding" => pc[u] \in {"graph", "over"}
  BY DEF ThreadsOK, Running
<1>1. CASE Quiet
  BY <1>1 DEF Quiet
<1>2. ASSUME NEW t \in Turn, Ends(t)
      PROVE  BaseOK'
  BY <1>2, <1>t DEF Ends, End, Goto, Holds, Busy
<1>3. ASSUME NEW t \in Turn, Finds(t)
      PROVE  BaseOK'
  BY <1>3, <1>t, <1>n, SequenceTypes DEF Finds, FindHistory, Goto, Holds, Busy
<1>4. ASSUME NEW t \in Turn, NEW k \in LeavesOf(base[t]), Compacts(t, k)
      PROVE  BaseOK'
  <2>1. /\ k \in History /\ IsNewest(k, base[t])
        /\ Capped(k) \in History /\ IsNewest(Capped(k), k)
    BY LeavesTypes, CappedTypes
  <2>2. IsNewest(Capped(k), base[t])
    BY <2>1, NewestTrans
  <2> QED
    BY <1>4, <1>t, <1>n, <2>1, <2>2 DEF Compacts, WriteHistory, Readers, Folders, SameChat, Goto,
       Holds, Busy
<1>5. ASSUME NEW t \in Turn, PersistRead(t)
      PROVE  BaseOK'
  BY <1>5, <1>t, <1>n, SequenceTypes DEF PersistRead, ReadHistory, toolVars, redisVars, Goto,
     Holds, Busy
<1>6. ASSUME NEW t \in Turn, Saves(t)
      PROVE  BaseOK'
  BY <1>6, <1>t, <1>n DEF Saves, WriteHistory, Readers, Folders, SameChat, Goto, Holds, Busy
<1>7. ASSUME NEW t \in Turn, FoldReads(t)
      PROVE  BaseOK'
  BY <1>7, <1>t, SequenceTypes DEF FoldReads, redisVars, Holds
<1>8. ASSUME NEW t \in Turn, FoldWrites(t)
      PROVE  BaseOK'
  <2>1. CASE behind' = behind \ {t} /\ UNCHANGED <<history, stale>>
    BY <1>8, <1>t, <2>1 DEF FoldWrites, Holds
  <2>2. ASSUME NEW k \in LeavesOf(drawn[t]),
               history' = [history EXCEPT ![ChatOf[t]] = Capped(k)],
               stale' = stale \cup Readers(t),
               behind' = (behind \ {t}) \cup Folders(t)
        PROVE  BaseOK'
    <3>1. Capped(k) \in History /\ IsNewest(Capped(k), drawn[t])
      BY LeavesTypes, CappedTypes, NewestTrans
    <3>2. Holds(t) /\ t \notin stale => IsNewest(Capped(k), base[t])
      BY <1>8, <3>1, NewestTrans DEF FoldWrites
    <3> QED
      BY <1>8, <1>t, <2>2, <3>2 DEF FoldWrites, Readers, Folders, SameChat, Holds
  <2> QED
    BY <1>8, <2>1, <2>2 DEF FoldWrites
<1>9. CASE GatewayCrash
  BY <1>9, <1>t DEF GatewayCrash, Holds, Busy
<1> QED
  BY <1>1, <1>2, <1>3, <1>4, <1>5, <1>6, <1>7, <1>8, <1>9 DEF HistoryAction

-----------------------------------------------------------------------------
(* Theorems *)

\* The inductive invariant.
THEOREM ChatInvariant == Spec => []ChatIInv
<1>1. Init => ChatIInv
  <2> SUFFICES ASSUME Init PROVE ChatIInv
    OBVIOUS
  <2> USE ChatAssumption DEF Init, PC, InLock, Busy
  <2>1. Types
    <3>1. /\ pc \in [Turn -> PC]
          /\ thread \in [Turn -> {"none", "running", "folding"}]
          /\ prev \in [Turn -> Vault \cup {NoVault}]
          /\ lock \in [Chat -> Turn \cup {NoTurn}]
      OBVIOUS
    <3>2. \A t \in System : pc[t] # "compact"
      OBVIOUS
    <3>3. env \in Vault \cup {NoVault} /\ overlap \in BOOLEAN
      OBVIOUS
    <3>4. faults \in 0 .. MaxFaults
      OBVIOUS
    <3>5. /\ busy \in SUBSET Chat /\ cancel \in SUBSET Chat /\ aborted \in SUBSET Chat
          /\ overtaken \in SUBSET Turn /\ unguarded \in SUBSET Turn /\ asked \in SUBSET Turn
      OBVIOUS
    <3> QED
      BY <3>1, <3>2, <3>3, <3>4, <3>5 DEF Types
  <2>6. HistoryTypes
    <3>1. <<>> \in History
      BY SequenceTypes
    <3> QED
      BY <3>1 DEF HistoryTypes
  <2>2. HistoryOK
    BY SequenceTypes DEF HistoryOK
  <2>3. ThreadsOK /\ LockOK /\ FlagOK /\ BusyOK
    BY DEF ThreadsOK, Running, LockOK, FlagOK, BusyOK
  <2>4. EnvOK
    BY DEF EnvOK, InSection
  <2>5. BaseOK
    BY DEF BaseOK, Holds
  <2> QED
    BY <2>1, <2>2, <2>3, <2>4, <2>5, <2>6 DEF ChatIInv
<1>2. ChatIInv /\ [Next]_vars => ChatIInv'
  BY TypesStep, HistoryTypesStep, HistoryStep, ThreadsStep, LockStep, FlagStep, BusyStep, EnvStep, BaseStep
     DEF ChatIInv
<1> QED
  BY <1>1, <1>2, PTL DEF Spec

\* Every variable has its type, and a history holds saved exchanges of its chat.
THEOREM ChatTypes == Spec => []TypeOK
<1>1. ChatIInv => TypeOK
  BY DEF ChatIInv, Types, HistoryTypes, History, HistoryOK, Saved, Finished, TypeOK
<1> QED
  BY <1>1, ChatInvariant, PTL

\* A turn keeps the lock until it releases it or its lease runs out, and two graphs
\* of a chat run at once only if one of them has lost its claim to the lock.
THEOREM ChatSerializedWhileGuarded == Spec => []SerializedWhileGuarded
<1>1. ChatIInv => SerializedWhileGuarded
  BY DEF ChatIInv, ThreadsOK, LockOK, InLock, SameChat, Types, SerializedWhileGuarded
<1> QED
  BY <1>1, ChatInvariant, PTL

\* A graph that is to stop for the cancel flag finds it up.
THEOREM ChatCancelReachesGraph == Spec => []CancelReachesGraph
<1>1. ChatIInv => CancelReachesGraph
  BY DEF ChatIInv, FlagOK, CancelReachesGraph
<1> QED
  BY <1>1, ChatInvariant, PTL

\* A chat stays BUSY with nothing running only after one of its tasks was cancelled
\* or died.
THEOREM ChatBusyOnlyAfterAbort == Spec => []BusyOnlyAfterAbort
<1>1. ChatIInv => BusyOnlyAfterAbort
  BY DEF ChatIInv, BusyOK, Busy, PC, InLock, BusyOnlyAfterAbort
<1> QED
  BY <1>1, ChatInvariant, PTL

\* A graph whose task waits for it would put a report in a foreign vault only after
\* two turns were in the section of the environment variable at once.
THEOREM ChatMisplacedOnlyByOverlap == Spec => []MisplacedOnlyByOverlap
<1>1. ChatIInv => MisplacedOnlyByOverlap
  BY DEF ChatIInv, EnvOK, ReportVault, MisplacedOnlyByOverlap
<1> QED
  BY <1>1, ChatInvariant, PTL

\* From a history only the oldest exchanges go, except in a write by a turn, or by
\* the tool of its graph, that had read it before another turn of the chat wrote, or
\* by a turn whose client sent it another one.
THEOREM ChatLostOnlyByOverlap == Spec => LostOnlyByOverlap
<1> DEFINE Kept ==
      \A c \in Chat : OnlyOldestGo(history[c], history'[c])
                         \/ \E t \in Turn : ChatOf[t] = c /\ WritesOld(t)
<1>1. ChatIInv /\ [Next]_vars => Kept
  <2> SUFFICES ASSUME ChatIInv, [Next]_vars PROVE Kept
    OBVIOUS
  <2> USE ChatAssumption DEF ChatIInv, HistoryTypes
  <2>0. ASSUME NEW h \in History PROVE IsNewest(h, h) /\ OnlyOldestGo(h, h)
    BY SequenceTypes DEF OnlyOldestGo
  <2>1. ASSUME NEW b \in History, NEW h \in History, NEW k \in LeavesOf(b), IsNewest(h, b)
        PROVE  OnlyOldestGo(h, Capped(k))
    <3>1. k \in History /\ Capped(k) \in History /\ IsNewest(k, b) /\ IsNewest(Capped(k), k)
      BY LeavesTypes, CappedTypes
    <3>2. IsNewest(Capped(k), b)
      BY <3>1, NewestTrans
    <3>3. Len(h) \in Nat /\ Len(Capped(k)) \in Nat
      BY <3>1 DEF History
    <3>4. Len(h) <= Len(Capped(k)) \/ Len(Capped(k)) <= Len(h)
      BY <3>3
    <3>5. IsNewest(h, Capped(k)) \/ IsNewest(Capped(k), h)
      BY <2>1, <3>1, <3>2, <3>4, NewestOfSame
    <3> QED
      BY <3>5 DEF OnlyOldestGo
  <2>2. ASSUME NEW t \in Turn, NEW h,
               history' = [history EXCEPT ![ChatOf[t]] = h],
               WritesOld(t) \/ OnlyOldestGo(history[ChatOf[t]], h)
        PROVE  Kept
    BY <2>0, <2>2
  <2>3. CASE UNCHANGED history
    BY <2>0, <2>3
  <2>4. ASSUME NEW t \in Turn, NEW k \in LeavesOf(base[t]), WriteHistory(t, k),
               pc[t] \in {"enter", "compact"}, pc'[t] # pc[t], t \notin System \/ base[t] # <<>>
        PROVE  Kept
    <3>1. t \in stale => WritesOld(t)
      BY <2>4 DEF WritesOld
    <3>2. t \notin stale => IsNewest(history[ChatOf[t]], base[t])
      BY <2>4 DEF BaseOK, Holds, Busy, PC, InLock
    <3>3. base[t] \in History /\ history[ChatOf[t]] \in History
      OBVIOUS
    <3>4. WritesOld(t) \/ OnlyOldestGo(history[ChatOf[t]], Capped(k))
      BY <2>1, <2>4, <3>1, <3>2, <3>3
    <3> QED
      BY <2>2, <2>4, <3>4 DEF WriteHistory
  <2>5. ASSUME NEW t \in Turn, Command(t) PROVE Kept
    <3>1. CASE UNCHANGED history
      BY <2>3, <3>1
    <3>2. ASSUME NEW k \in LeavesOf(base[t]), WriteHistory(t, k), base[t] # <<>>, Goto(t, "unlock")
          PROVE  Kept
      <4>1. pc[t] = "enter" /\ pc'[t] = "unlock"
        BY <2>5, <3>2 DEF Command, Goto, Types
      <4> QED
        BY <2>4, <3>2, <4>1
    <3> QED
      BY <2>5, <3>1, <3>2 DEF Command
  <2>6. ASSUME NEW t \in Turn, Compact(t) PROVE Kept
    <3>1. PICK k \in LeavesOf(base[t]) : WriteHistory(t, k)
      BY <2>6 DEF Compact, CompactHistory
    <3>2. pc[t] = "compact" /\ pc'[t] = "setEnv" /\ t \notin System
      BY <2>6 DEF Compact, ReadEnv, Goto, Types
    <3> QED
      BY <2>4, <3>1, <3>2
  <2>7. ASSUME NEW t \in Turn, PersistSave(t) PROVE Kept
    <3>1. CASE WriteHistory(t, Append(base[t], t))
      <4>1. pc[t] = "save" /\ pc'[t] = "finish"
        BY <2>7 DEF PersistSave, Goto, Types
      <4>2. t \in stale => WritesOld(t)
        BY <4>1 DEF WritesOld
      <4>3. t \notin stale => IsNewest(history[ChatOf[t]], base[t])
        BY <4>1 DEF BaseOK, Holds, Busy, PC, InLock
      <4>4. base[t] \in History /\ history[ChatOf[t]] \in History
        OBVIOUS
      <4>5. WritesOld(t) \/ OnlyOldestGo(history[ChatOf[t]], Capped(Append(base[t], t)))
        BY <4>2, <4>3, <4>4, SaveKeeps
      <4> QED
        BY <2>2, <3>1, <4>5 DEF WriteHistory
    <3> QED
      BY <2>3, <2>7, <3>1 DEF PersistSave
  <2>8. ASSUME NEW t \in Turn, FoldWrites(t) PROVE Kept
    <3>1. ASSUME NEW k \in LeavesOf(drawn[t]),
                 history' = [history EXCEPT ![ChatOf[t]] = Capped(k)]
          PROVE  Kept
      <4>1. thread[t] = "folding" /\ thread'[t] = "running"
        BY <2>8 DEF FoldWrites, Types
      <4>2. t \in behind => WritesOld(t)
        BY <4>1 DEF WritesOld
      <4>3. t \notin behind => IsNewest(history[ChatOf[t]], drawn[t])
        BY <4>1 DEF BaseOK
      <4>4. drawn[t] \in History /\ history[ChatOf[t]] \in History
        OBVIOUS
      <4>5. WritesOld(t) \/ OnlyOldestGo(history[ChatOf[t]], Capped(k))
        BY <2>1, <4>2, <4>3, <4>4
      <4> QED
        BY <2>2, <3>1, <4>5
    <3> QED
      BY <2>3, <2>8, <3>1 DEF FoldWrites
  <2>9. \/ UNCHANGED history
        \/ \E t \in Turn : Command(t) \/ Compact(t) \/ PersistSave(t) \/ FoldWrites(t)
    BY DEF Next, vars, Enter, TaskStep, ThreadStep, Prepare, AcquireLock, GiveUp, SkipLock,
       EnterUnguarded, SetBusy, SetEnv, GraphReturns, Unlock, PersistRead, Finish, PlanNode,
       FoldReads, ThreadEnds, Abort, RequestCancel, CancelExpires, LeaseExpires, GatewayCrash,
       redisVars
  <2> QED
    BY <2>3, <2>5, <2>6, <2>7, <2>8, <2>9
<1> QED
  BY <1>1, ChatInvariant, PTL DEF Spec, LostOnlyByOverlap
=============================================================================
