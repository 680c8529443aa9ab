--------------------------- MODULE MCTelegramInbound ---------------------------
(* An instance of TelegramInbound for TLC: an album of two photos and a text. *)
EXTENDS TelegramInbound
CONSTANTS p1, p2, x1
=============================================================================
