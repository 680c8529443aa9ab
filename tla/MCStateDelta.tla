---------------------------- MODULE MCStateDelta ----------------------------
(* Instances of StateDelta for TLC. *)
EXTENDS StateDelta, TLC

CONSTANT m1

OneMsg == {m1}
=============================================================================
