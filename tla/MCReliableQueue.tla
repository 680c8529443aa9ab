-------------------------- MODULE MCReliableQueue --------------------------
(* Instances of ReliableQueue for TLC. *)
EXTENDS ReliableQueue

CONSTANTS m1, m2

MCMsg == {m1, m2}
OneMsg == {m1}
=============================================================================
