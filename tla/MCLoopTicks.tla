----------------------------- MODULE MCLoopTicks -----------------------------
(* An instance of LoopTicks for TLC. *)
EXTENDS LoopTicks

CONSTANT p1
=============================================================================
