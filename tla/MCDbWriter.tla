----------------------------- MODULE MCDbWriter -----------------------------
(* Instances of DbWriter for TLC: a typed, a legacy and a malformed message. *)
EXTENDS DbWriter, TLC

CONSTANTS m1, m2, m3, t1, t2

\* Two messages of two tasks, each sent up to MaxSend times.
TypedAndLegacy == {m1, m2}
\* Two texts with the same task id (a retry that was rebuilt) and a bad one.
RetryAndMalformed == {m1, m2, m3}

TwoTasks == {t1, t2}
OneTask == {t1}

DistinctTasks == (m1 :> t1) @@ (m2 :> t2)
DistinctKinds == (m1 :> "typed") @@ (m2 :> "legacy")
SharedTask == (m1 :> t1) @@ (m2 :> t1) @@ (m3 :> t1)
SharedKinds == (m1 :> "typed") @@ (m2 :> "legacy") @@ (m3 :> "malformed")
=============================================================================
