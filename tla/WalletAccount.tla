---------------------------- MODULE WalletAccount ----------------------------
(* The wallet as an Account: the balance its holder may still spend is the *)
(* Postgres row less the debits Redis has accepted and Postgres has not    *)
(* taken yet.                                                              *)
EXTENDS Wallet

Spendable == [u \in Users |-> IF wallet[u] = Missing THEN Missing
                              ELSE wallet[u] - Owed(u)]

A == INSTANCE Account WITH balance <- Spendable

(* Every step of the wallet is a step of the account or leaves it alone:   *)
(* a debit is charged when Redis accepts it and the job's UPDATE moves     *)
(* nothing the holder can see.                                             *)
ImplementsAccount == A!Spec
=============================================================================
