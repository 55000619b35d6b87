--------------------------- MODULE JoinByCodeMC ---------------------------
(* Three events, and a code that no event has. *)
EXTENDS JoinByCode
=============================================================================
