--------------------------- MODULE SprayStageMC ---------------------------
(* Pools of two and three, swipes of one or two notes on at most three.     *)
EXTENDS SprayStage
=============================================================================
