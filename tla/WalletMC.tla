---------------------------- MODULE WalletMC ----------------------------
(* Instances of Wallet for TLC. *)
EXTENDS WalletAccount, TLC

CONSTANTS u1, r1, r2

Ask(ops, amounts, references) ==
  [op : ops, user : Users, amount : amounts, ref : references]

(* Every operation; amounts matter only to credits and debits. *)
AllRequests == Ask({"create", "balance", "sync"}, {1}, {r1})
                 \cup Ask({"credit", "debit"}, {1, 2}, {r1, r2})

(* Top-ups retried under one payment reference beside debits. *)
RetriedTopUps == Ask({"create", "balance", "sync"}, {1}, {r1})
                   \cup Ask({"credit"}, {1}, {r1})
                   \cup Ask({"debit"}, {2}, {r2})

TopUpAndSprays == Ask({"credit"}, {1}, {r1}) \cup Ask({"debit"}, {1, 2}, Refs \ {r1})

Symmetric == Permutations(Calls)
=============================================================================
