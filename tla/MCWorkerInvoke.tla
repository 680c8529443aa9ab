----------------------------- MODULE MCWorkerInvoke -----------------------------
(* An instance of WorkerInvoke for TLC. *)
EXTENDS WorkerInvoke, TLC

CONSTANTS t1, t2, c1, v1, v2

\* t1 and t2 belong to one chat; t1 delegates to the vault t2's worker has.
ChainChatOf == t1 :> c1 @@ t2 :> c1
ChainVaultOf == t1 :> v1 @@ t2 :> v2
ChainDelegate == t1 :> v2 @@ t2 :> v2
=============================================================================
