---------------------------- MODULE Account ----------------------------
(* What a wallet promises its holder: an account is opened once, empty; a  *)
(* top-up adds its amount; a debit takes its amount only if the balance    *)
(* covers it; nothing else ever moves the balance.  Wallet implements this *)
(* with a Redis cache, a Postgres row and a queue of debits in between.    *)
EXTENDS Integers

CONSTANTS Users, Amounts, Missing

VARIABLE balance      \* the spendable balance, Missing before the account is opened

Init == balance \in [Users -> Nat \cup {Missing}]

Open(u) ==
  /\ balance[u] = Missing
  /\ balance' = [balance EXCEPT ![u] = 0]

TopUp(u, a) ==
  /\ balance[u] # Missing
  /\ balance' = [balance EXCEPT ![u] = @ + a]

Spend(u, a) ==
  /\ balance[u] # Missing
  /\ a <= balance[u]
  /\ balance' = [balance EXCEPT ![u] = @ - a]

Next ==
  \E u \in Users :
    \/ Open(u)
    \/ \E a \in Amounts : TopUp(u, a) \/ Spend(u, a)

Spec == Init /\ [][Next]_balance
=============================================================================
