------------------------------- MODULE MCChatTurn -------------------------------
(* An instance of ChatTurn for TLC. *)
EXTENDS ChatTurn, TLC

CONSTANTS t1, t2, t3, c1, v1

\* One chat: a turn of the console, one of a public stream that is trusted too but
\* has no vault, and one of the heartbeat, which takes no lock.
OneChatOf == t1 :> c1 @@ t2 :> c1 @@ t3 :> c1
OneStreamOf == t1 :> "admin" @@ t2 :> "stream" @@ t3 :> "post"
OneVaultOf == t1 :> v1 @@ t2 :> NoVault @@ t3 :> NoVault
=============================================================================
