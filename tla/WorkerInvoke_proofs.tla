--------------------------- MODULE WorkerInvoke_proofs ---------------------------
(***************************************************************************)
(* For any turns, chats, vaults and bounds, and any way in which workers   *)
(* delegate (circles included): the locks of the vaults are held by the    *)
(* turns that use them, and a turn is interrupted for a cause.             *)
(***************************************************************************)
EXTENDS WorkerInvoke, TLAPS

\* While a turn runs, a flag of its chat was raised after it began.
FlagsExplained ==
    \A t \in Turn : pc[t] \notin {"idle", "over"} /\ Flagged(t) => t \in asked \cup struck

\* What is inductive: no property below is so without the types.
InvokeIInv == TypeOK /\ NothingHeld /\ FlagsExplained /\ InterruptedForACause

-----------------------------------------------------------------------------
\* Every step keeps the types.
LEMMA TypeStep == TypeOK /\ [Next]_vars => TypeOK'
<1> SUFFICES ASSUME TypeOK, [Next]_vars PROVE TypeOK'
  OBVIOUS
<1> USE InvokeAssumption DEF TypeOK, PC, HoldsSlot, HoldsVault, InGraph, Delegating, Result,
        Goto, lockVars, flagVars, historyVars, Ongoing
<1>1. ASSUME NEW t \in Turn, Begin(t)
      PROVE  TypeOK'
  BY <1>1 DEF Begin
<1>2. ASSUME NEW t \in Turn, StopBeforeInvoke(t)
      PROVE  TypeOK'
  BY <1>2 DEF StopBeforeInvoke, Stop
<1>3. ASSUME NEW t \in Turn, NoWorker(t)
      PROVE  TypeOK'
  BY <1>3 DEF NoWorker
<1>4. ASSUME NEW t \in Turn, TakeSlot(t)
      PROVE  TypeOK'
  BY <1>4 DEF TakeSlot
<1>5. ASSUME NEW t \in Turn, LockVault(t)
      PROVE  TypeOK'
  BY <1>5 DEF LockVault, Take
<1>6. ASSUME NEW t \in Turn, PreparationFails(t)
      PROVE  TypeOK'
  BY <1>6 DEF PreparationFails
<1>7. ASSUME NEW t \in Turn, StopAtStart(t)
      PROVE  TypeOK'
  BY <1>7 DEF StopAtStart, Stop
<1>8. ASSUME NEW t \in Turn, CheckFlags(t)
      PROVE  TypeOK'
  BY <1>8 DEF CheckFlags
<1>9. ASSUME NEW t \in Turn, Submit(t)
      PROVE  TypeOK'
  BY <1>9 DEF Submit
<1>10. ASSUME NEW t \in Turn, Timeout(t)
      PROVE  TypeOK'
  BY <1>10 DEF Timeout, PassLimit
<1>11. ASSUME NEW t \in Turn, GraphReturns(t)
      PROVE  TypeOK'
  BY <1>11 DEF GraphReturns, EndGraph
<1>12. ASSUME NEW t \in Turn, GraphStops(t)
      PROVE  TypeOK'
  BY <1>12 DEF GraphStops, EndGraph
<1>13. ASSUME NEW t \in Turn, Delegate(t)
      PROVE  TypeOK'
  BY <1>13 DEF Delegate
<1>14. ASSUME NEW t \in Turn, LockDelegateVault(t)
      PROVE  TypeOK'
  BY <1>14 DEF LockDelegateVault, Take
<1>15. ASSUME NEW t \in Turn, DelegateStopped(t)
      PROVE  TypeOK'
  BY <1>15 DEF DelegateStopped, LeaveDelegate, Release
<1>16. ASSUME NEW t \in Turn, DelegateCheckFlags(t)
      PROVE  TypeOK'
  BY <1>16 DEF DelegateCheckFlags
<1>17. ASSUME NEW t \in Turn, DelegateSubmit(t)
      PROVE  TypeOK'
  BY <1>17 DEF DelegateSubmit
<1>18. ASSUME NEW t \in Turn, DelegateTimeout(t)
      PROVE  TypeOK'
  BY <1>18 DEF DelegateTimeout, PassLimit
<1>19. ASSUME NEW t \in Turn, DelegateEnds(t)
      PROVE  TypeOK'
  BY <1>19 DEF DelegateEnds, LeaveDelegate, Release
<1>20. ASSUME NEW t \in Turn, Cleanup(t)
      PROVE  TypeOK'
  BY <1>20 DEF Cleanup, Release, Replan
<1>21. ASSUME NEW t \in Turn, AuditFails(t)
      PROVE  TypeOK'
  BY <1>21 DEF AuditFails, Release
<1>22. ASSUME NEW t \in Turn, Reply(t)
      PROVE  TypeOK'
  BY <1>22 DEF Reply
<1>23. ASSUME NEW c \in Chat, RequestCancel(c)
      PROVE  TypeOK'
  BY <1>23 DEF RequestCancel
<1>24. ASSUME NEW c \in Chat, FlagsExpire(c)
      PROVE  TypeOK'
  BY <1>24 DEF FlagsExpire
<1>25. CASE UNCHANGED vars
  BY <1>25 DEF vars
<1> QED
  BY <1>1, <1>2, <1>3, <1>4, <1>5, <1>6, <1>7, <1>8, <1>9, <1>10, <1>11, <1>12, <1>13,
     <1>14, <1>15, <1>16, <1>17, <1>18, <1>19, <1>20, <1>21, <1>22, <1>23, <1>24, <1>25
     DEF Next
-----------------------------------------------------------------------------
\* Every step keeps locks and slots with the turns that use them.
LEMMA HeldStep == TypeOK /\ NothingHeld /\ [Next]_vars => NothingHeld'
<1> SUFFICES ASSUME TypeOK, NothingHeld, [Next]_vars PROVE NothingHeld'
  OBVIOUS
<1> USE InvokeAssumption DEF TypeOK, NothingHeld, Open, SameVault, PC, HoldsSlot, HoldsVault,
        InGraph, Delegating, Goto, lockVars, flagVars, historyVars
<1>1. ASSUME NEW t \in Turn, Begin(t)
      PROVE  NothingHeld'
  BY <1>1 DEF Begin
<1>2. ASSUME NEW t \in Turn, StopBeforeInvoke(t)
      PROVE  NothingHeld'
  BY <1>2 DEF StopBeforeInvoke, Stop
<1>3. ASSUME NEW t \in Turn, NoWorker(t)
      PROVE  NothingHeld'
  BY <1>3 DEF NoWorker
<1>4. ASSUME NEW t \in Turn, TakeSlot(t)
      PROVE  NothingHeld'
  BY <1>4 DEF TakeSlot
<1>5. ASSUME NEW t \in Turn, LockVault(t)
      PROVE  NothingHeld'
  BY <1>5 DEF LockVault, Take
<1>6. ASSUME NEW t \in Turn, PreparationFails(t)
      PROVE  NothingHeld'
  BY <1>6 DEF PreparationFails
<1>7. ASSUME NEW t \in Turn, StopAtStart(t)
      PROVE  NothingHeld'
  BY <1>7 DEF StopAtStart, Stop
<1>8. ASSUME NEW t \in Turn, CheckFlags(t)
      PROVE  NothingHeld'
  BY <1>8 DEF CheckFlags
<1>9. ASSUME NEW t \in Turn, Submit(t)
      PROVE  NothingHeld'
  BY <1>9 DEF Submit
<1>10. ASSUME NEW t \in Turn, Timeout(t)
      PROVE  NothingHeld'
  BY <1>10 DEF Timeout, PassLimit
<1>11. ASSUME NEW t \in Turn, GraphReturns(t)
      PROVE  NothingHeld'
  BY <1>11 DEF GraphReturns, EndGraph
<1>12. ASSUME NEW t \in Turn, GraphStops(t)
      PROVE  NothingHeld'
  BY <1>12 DEF GraphStops, EndGraph
<1>13. ASSUME NEW t \in Turn, Delegate(t)
      PROVE  NothingHeld'
  BY <1>13 DEF Delegate
<1>14. ASSUME NEW t \in Turn, LockDelegateVault(t)
      PROVE  NothingHeld'
  BY <1>14 DEF LockDelegateVault, Take
<1>15. ASSUME NEW t \in Turn, DelegateStopped(t)
      PROVE  NothingHeld'
  BY <1>15 DEF DelegateStopped, LeaveDelegate, Release
<1>16. ASSUME NEW t \in Turn, DelegateCheckFlags(t)
      PROVE  NothingHeld'
  BY <1>16 DEF DelegateCheckFlags
<1>17. ASSUME NEW t \in Turn, DelegateSubmit(t)
      PROVE  NothingHeld'
  BY <1>17 DEF DelegateSubmit
<1>18. ASSUME NEW t \in Turn, DelegateTimeout(t)
      PROVE  NothingHeld'
  BY <1>18 DEF DelegateTimeout, PassLimit
<1>19. ASSUME NEW t \in Turn, DelegateEnds(t)
      PROVE  NothingHeld'
  BY <1>19 DEF DelegateEnds, LeaveDelegate, Release
<1>20. ASSUME NEW t \in Turn, Cleanup(t)
      PROVE  NothingHeld'
  BY <1>20 DEF Cleanup, Release, Replan
<1>21. ASSUME NEW t \in Turn, AuditFails(t)
      PROVE  NothingHeld'
  BY <1>21 DEF AuditFails, Release
<1>22. ASSUME NEW t \in Turn, Reply(t)
      PROVE  NothingHeld'
  BY <1>22 DEF Reply
<1>23. ASSUME NEW c \in Chat, RequestCancel(c)
      PROVE  NothingHeld'
  BY <1>23 DEF RequestCancel
<1>24. ASSUME NEW c \in Chat, FlagsExpire(c)
      PROVE  NothingHeld'
  BY <1>24 DEF FlagsExpire
<1>25. CASE UNCHANGED vars
  BY <1>25 DEF vars
<1> QED
  BY <1>1, <1>2, <1>3, <1>4, <1>5, <1>6, <1>7, <1>8, <1>9, <1>10, <1>11, <1>12, <1>13,
     <1>14, <1>15, <1>16, <1>17, <1>18, <1>19, <1>20, <1>21, <1>22, <1>23, <1>24, <1>25
     DEF Next
-----------------------------------------------------------------------------
\* Every step explains the flags it leaves and the interruptions it makes.
LEMMA CauseStep ==
    TypeOK /\ FlagsExplained /\ InterruptedForACause /\ [Next]_vars
        => FlagsExplained' /\ InterruptedForACause'
<1> SUFFICES ASSUME TypeOK, FlagsExplained, InterruptedForACause, [Next]_vars
             PROVE  FlagsExplained' /\ InterruptedForACause'
  OBVIOUS
<1> USE InvokeAssumption
    DEF TypeOK, FlagsExplained, InterruptedForACause, Flagged, Ongoing, PC,
        HoldsSlot, HoldsVault, InGraph, Delegating, Result, Goto, lockVars, flagVars,
        historyVars
<1>1. ASSUME NEW t \in Turn, Begin(t)
      PROVE  FlagsExplained' /\ InterruptedForACause'
  BY <1>1 DEF Begin
<1>2. ASSUME NEW t \in Turn, StopBeforeInvoke(t)
      PROVE  FlagsExplained' /\ InterruptedForACause'
  BY <1>2 DEF StopBeforeInvoke, Stop
<1>3. ASSUME NEW t \in Turn, NoWorker(t)
      PROVE  FlagsExplained' /\ InterruptedForACause'
  BY <1>3 DEF NoWorker
<1>4. ASSUME NEW t \in Turn, TakeSlot(t)
      PROVE  FlagsExplained' /\ InterruptedForACause'
  BY <1>4 DEF TakeSlot
<1>5. ASSUME NEW t \in Turn, LockVault(t)
      PROVE  FlagsExplained' /\ InterruptedForACause'
  BY <1>5 DEF LockVault, Take
<1>6. ASSUME NEW t \in Turn, PreparationFails(t)
      PROVE  FlagsExplained' /\ InterruptedForACause'
  BY <1>6 DEF PreparationFails
<1>7. ASSUME NEW t \in Turn, StopAtStart(t)
      PROVE  FlagsExplained' /\ InterruptedForACause'
  BY <1>7 DEF StopAtStart, Stop
<1>8. ASSUME NEW t \in Turn, CheckFlags(t)
      PROVE  FlagsExplained' /\ InterruptedForACause'
  BY <1>8 DEF CheckFlags
<1>9. ASSUME NEW t \in Turn, Submit(t)
      PROVE  FlagsExplained' /\ InterruptedForACause'
  BY <1>9 DEF Submit
<1>10. ASSUME NEW t \in Turn, Timeout(t)
      PROVE  FlagsExplained' /\ InterruptedForACause'
  BY <1>10 DEF Timeout, PassLimit
<1>11. ASSUME NEW t \in Turn, GraphReturns(t)
      PROVE  FlagsExplained' /\ InterruptedForACause'
  BY <1>11 DEF GraphReturns, EndGraph
<1>12. ASSUME NEW t \in Turn, GraphStops(t)
      PROVE  FlagsExplained' /\ InterruptedForACause'
  BY <1>12 DEF GraphStops, EndGraph
<1>13. ASSUME NEW t \in Turn, Delegate(t)
      PROVE  FlagsExplained' /\ InterruptedForACause'
  BY <1>13 DEF Delegate
<1>14. ASSUME NEW t \in Turn, LockDelegateVault(t)
      PROVE  FlagsExplained' /\ InterruptedForACause'
  BY <1>14 DEF LockDelegateVault, Take
<1>15. ASSUME NEW t \in Turn, DelegateStopped(t)
      PROVE  FlagsExplained' /\ InterruptedForACause'
  BY <1>15 DEF DelegateStopped, LeaveDelegate, Release
<1>16. ASSUME NEW t \in Turn, DelegateCheckFlags(t)
      PROVE  FlagsExplained' /\ InterruptedForACause'
  BY <1>16 DEF DelegateCheckFlags
<1>17. ASSUME NEW t \in Turn, DelegateSubmit(t)
      PROVE  FlagsExplained' /\ InterruptedForACause'
  BY <1>17 DEF DelegateSubmit
<1>18. ASSUME NEW t \in Turn, DelegateTimeout(t)
      PROVE  FlagsExplained' /\ InterruptedForACause'
  BY <1>18 DEF DelegateTimeout, PassLimit
<1>19. ASSUME NEW t \in Turn, DelegateEnds(t)
      PROVE  FlagsExplained' /\ InterruptedForACause'
  BY <1>19 DEF DelegateEnds, LeaveDelegate, Release
<1>20. ASSUME NEW t \in Turn, Cleanup(t)
      PROVE  FlagsExplained' /\ InterruptedForACause'
  BY <1>20 DEF Cleanup, Release, Replan
<1>21. ASSUME NEW t \in Turn, AuditFails(t)
      PROVE  FlagsExplained' /\ InterruptedForACause'
  BY <1>21 DEF AuditFails, Release
<1>22. ASSUME NEW t \in Turn, Reply(t)
      PROVE  FlagsExplained' /\ InterruptedForACause'
  BY <1>22 DEF Reply
<1>23. ASSUME NEW c \in Chat, RequestCancel(c)
      PROVE  FlagsExplained' /\ InterruptedForACause'
  BY <1>23 DEF RequestCancel
<1>24. ASSUME NEW c \in Chat, FlagsExpire(c)
      PROVE  FlagsExplained' /\ InterruptedForACause'
  BY <1>24 DEF FlagsExpire
<1>25. CASE UNCHANGED vars
  BY <1>25 DEF vars
<1> QED
  BY <1>1, <1>2, <1>3, <1>4, <1>5, <1>6, <1>7, <1>8, <1>9, <1>10, <1>11, <1>12, <1>13,
     <1>14, <1>15, <1>16, <1>17, <1>18, <1>19, <1>20, <1>21, <1>22, <1>23, <1>24, <1>25
     DEF Next
-----------------------------------------------------------------------------
(* Theorems *)

\* The inductive invariant.
THEOREM InvokeInvariant == Spec => []InvokeIInv
<1>1. Init => InvokeIInv
  BY InvokeAssumption DEF Init, InvokeIInv, TypeOK, NothingHeld, FlagsExplained,
     InterruptedForACause, Open, PC, HoldsSlot, HoldsVault, InGraph, Delegating, Result
<1>2. InvokeIInv /\ [Next]_vars => InvokeIInv'
  BY TypeStep, HeldStep, CauseStep DEF InvokeIInv
<1> QED
  BY <1>1, <1>2, PTL DEF Spec

\* Every variable of an invocation has its type (plan attempts are bounded).
THEOREM InvokeTypes == Spec => []TypeOK
<1>1. InvokeIInv => TypeOK
  BY DEF InvokeIInv
<1> QED
  BY <1>1, InvokeInvariant, PTL

\* A turn holds exactly the locks of the vaults it has open, and a slot exactly as
\* long as it invokes a worker, on every path through the node and its finally.
THEOREM InvokeNothingHeld == Spec => []NothingHeld
<1>1. InvokeIInv => NothingHeld
  BY DEF InvokeIInv
<1> QED
  BY <1>1, InvokeInvariant, PTL

\* No vault is open in two turns, however they delegate.
THEOREM InvokeVaultExclusive == Spec => []VaultExclusive
<1>1. InvokeIInv => VaultExclusive
  <2> SUFFICES ASSUME InvokeIInv, NEW t \in Turn, NEW u \in Turn, t # u,
                      NEW v \in Open(t), v \in Open(u)
               PROVE  FALSE
    BY DEF VaultExclusive
  <2>1. v \in Vault
    BY DEF Open
  <2>2. holder[v] = t /\ holder[v] = u
    BY <2>1 DEF InvokeIInv, NothingHeld
  <2> QED
    BY <2>2
<1> QED
  BY <1>1, InvokeInvariant, PTL

\* A turn is answered as interrupted only if its chat was asked to stop, or a limit
\* passed in it, after the turn began.
THEOREM InvokeInterruptedForACause == Spec => []InterruptedForACause
<1>1. InvokeIInv => InterruptedForACause
  BY DEF InvokeIInv
<1> QED
  BY <1>1, InvokeInvariant, PTL
=============================================================================
