---------------------------- MODULE TransferMC ----------------------------
(* Two users, transfers both ways and to oneself, with a top-up and a      *)
(* debit job among them.                                                   *)
EXTENDS Transfer

CONSTANTS r1, r2

Move(kind, from, to, ref) ==
  [kind |-> kind, from |-> from, to |-> to, amount |-> 1, ref |-> ref]

(* One reference is shared by moves that meet at a row and by moves that   *)
(* do not.                                                                 *)
AllRequests ==
  {Move("transfer", a, b, IF a <= b THEN r1 ELSE r2) : a \in Users, b \in Users}
    \cup {Move("credit", 1, 1, r1), Move("credit", 2, 2, r2)}
    \cup {Move("debit", 1, 1, r2), Move("debit", 2, 2, r1)}
=============================================================================
