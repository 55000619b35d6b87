--------------------------- MODULE SprayClientMC ---------------------------
(* Notes of 2 naira and charges of at most two of them, so that a balance   *)
(* of 3 ends in a note worth more than what is left.                        *)
EXTENDS SprayClient
=============================================================================
