---------------------------- MODULE Transfer ----------------------------
(* The Postgres transactions that write wallets rows: WalletService's       *)
(* transfer and credit, and WalletProcessor's debit.  They meet at the row  *)
(* locks of wallets (SELECT ... FOR UPDATE, or the UPDATE itself) and at    *)
(* the unique index on wallet_transactions.reference, where an insert waits *)
(* for another transaction's uncommitted row.  Locks are held to the end.   *)
EXTENDS Integers, FiniteSets, Sequences

CONSTANTS
  Users,      \* user ids, ordered the way Array.prototype.sort orders them
  Txns,       \* transactions
  Refs,       \* references
  Requests,   \* [kind, from, to, amount, ref]; a credit or debit has from = to
  Openings,   \* initial balances
  Missing     \* no wallets row

Kinds == {"transfer", "credit", "debit"}

ASSUME UsersAssumption == Users \subseteq Int /\ Missing \notin Int
ASSUME OpeningAssumption == Openings \subseteq Nat
ASSUME RequestAssumption ==
  /\ Requests \subseteq
       [kind : Kinds, from : Users, to : Users, amount : Nat \ {0}, ref : Refs]
  /\ \A r \in Requests : r.kind # "transfer" => r.from = r.to

VARIABLES
  wallet,     \* committed balance of each user, or Missing
  rows,       \* committed references
  req,        \* what each transaction does
  pc,
  seen,       \* balance credit read before it took any lock
  locked,     \* wallets rows each transaction has locked
  inserted    \* references each transaction has inserted and not committed

vars == <<wallet, rows, req, pc, seen, locked, inserted>>

(* The order t locks its rows in: sorted, whichever way the money goes.    *)
(* The variant above each of these helpers makes one mistake, for the      *)
(* properties to notice.                                                   *)
Unsorted(t) == <<req[t].from, req[t].to>>
Sorted(t) == IF req[t].from <= req[t].to THEN <<req[t].from, req[t].to>>
                                         ELSE <<req[t].to, req[t].from>>
First(t) == Sorted(t)[1]
Second(t) == Sorted(t)[2]

Steps == {"read", "first", "second", "check", "insert", "commit", "done", "failed"}
FirstStep == [transfer |-> "first", credit |-> "read", debit |-> "first"]

Init ==
  /\ wallet \in [Users -> Openings \cup {Missing}]
  /\ rows = {}
  /\ req \in [Txns -> Requests]
  /\ pc = [t \in Txns |-> FirstStep[req[t].kind]]
  /\ seen = [t \in Txns |-> 0]
  /\ locked = [t \in Txns |-> {}]
  /\ inserted = [t \in Txns |-> {}]

Goto(t, step) == pc' = [pc EXCEPT ![t] = step]

(* The row t asks for at its present step. *)
Wanted(t) == IF pc[t] = "second" THEN Second(t) ELSE First(t)

Free(t, u) == \A o \in Txns \ {t} : u \notin locked[o]

(* The references t inserts: transfer gives its two rows the same one. *)
OneEach(t) == <<req[t].ref>>
NewRows(t) == IF req[t].kind = "transfer" THEN <<req[t].ref, req[t].ref>> ELSE <<req[t].ref>>

Unique(t) ==
  /\ \A i, j \in 1..Len(NewRows(t)) : i # j => NewRows(t)[i] # NewRows(t)[j]
  /\ req[t].ref \notin rows

RollBack(t) ==
  /\ Goto(t, "failed")
  /\ locked' = [locked EXCEPT ![t] = {}]
  /\ inserted' = [inserted EXCEPT ![t] = {}]
  /\ UNCHANGED <<wallet, rows, req, seen>>

NoRow(t) == wallet[First(t)] = Missing

(* credit's findOne takes no lock. *)
ReadUnlocked(t) ==
  /\ pc[t] = "read"
  /\ IF NoRow(t)
     THEN RollBack(t)
     ELSE /\ seen' = [seen EXCEPT ![t] = wallet[First(t)]]
          /\ Goto(t, "first")
          /\ UNCHANGED <<wallet, rows, req, locked, inserted>>

(* What follows a lock.  The processor goes on to its INSERT whether or    *)
(* not its UPDATE found a row with enough money: the check between the two *)
(* reads an array TypeORM always answers with.                             *)
AfterLock(t) ==
  IF req[t].kind # "transfer" THEN "insert"
  ELSE IF pc[t] = "first" THEN "second" ELSE "check"

(* A statement that finds no row: none is there, or an UPDATE's guard fails. *)
Misses(t) ==
  \/ wallet[Wanted(t)] = Missing
  \/ req[t].kind = "debit" /\ wallet[Wanted(t)] < req[t].amount

(* What it locks.  One that locks nothing waits for nobody.                 *)
SelectUnlocked(t) == IF Misses(t) \/ req[t].kind = "transfer" THEN {} ELSE {Wanted(t)}
Acquired(t) == IF Misses(t) THEN {} ELSE {Wanted(t)}

(* Lock a row: transfer's two FOR UPDATE selects, the UPDATE of the others. *)
LockRow(t) ==
  /\ pc[t] \in {"first", "second"}
  /\ Acquired(t) # {} => Free(t, Wanted(t))
  /\ locked' = [locked EXCEPT ![t] = @ \cup Acquired(t)]
  /\ Goto(t, AfterLock(t))
  /\ UNCHANGED <<wallet, rows, req, seen, inserted>>

(* transfer with both rows in hand: both must exist, the sender must have  *)
(* the money; then the two balances are saved.                             *)
Check(t) ==
  /\ pc[t] = "check"
  /\ IF \/ Missing \in {wallet[First(t)], wallet[Second(t)]}
        \/ wallet[req[t].from] < req[t].amount
     THEN RollBack(t)
     ELSE /\ Goto(t, "insert")
          /\ UNCHANGED <<wallet, rows, req, seen, locked, inserted>>

(* Insert the ledger rows, once no other open transaction holds the same   *)
(* reference.  A duplicate rolls back; the processor's ON CONFLICT skips it. *)
Insert(t) ==
  /\ pc[t] = "insert"
  /\ \A o \in Txns \ {t} : req[t].ref \notin inserted[o]
  /\ IF Unique(t)
     THEN /\ inserted' = [inserted EXCEPT ![t] = {req[t].ref}]
          /\ Goto(t, "commit")
          /\ UNCHANGED <<wallet, rows, req, seen, locked>>
     ELSE IF req[t].kind = "debit"
     THEN /\ Goto(t, "commit")
          /\ UNCHANGED <<wallet, rows, req, seen, locked, inserted>>
     ELSE RollBack(t)

(* The UPDATE of a debit job found its row; no statement undoes that.      *)
Took(t) == req[t].from \in locked[t]

(* The balances t leaves behind: a transfer saves sender and receiver in   *)
(* that order, a credit its stale sum, a debit a decrement in place, if    *)
(* its UPDATE found the row.                                               *)
Balances(t) ==
  LET r == req[t]
  IN  IF r.kind = "transfer"
      THEN [wallet EXCEPT ![r.from] = @ - r.amount, ![r.to] = wallet[r.to] + r.amount]
      ELSE IF r.kind = "credit" THEN [wallet EXCEPT ![r.to] = seen[t] + r.amount]
      ELSE IF Took(t) THEN [wallet EXCEPT ![r.from] = @ - r.amount] ELSE wallet

Commit(t) ==
  /\ pc[t] = "commit"
  /\ wallet' = Balances(t)
  /\ rows' = rows \cup inserted[t]
  /\ locked' = [locked EXCEPT ![t] = {}]
  /\ inserted' = [inserted EXCEPT ![t] = {}]
  /\ Goto(t, "done")
  /\ UNCHANGED <<req, seen>>

Step(t) == ReadUnlocked(t) \/ LockRow(t) \/ Check(t) \/ Insert(t) \/ Commit(t)

Finished == \A t \in Txns : pc[t] \in {"done", "failed"}

Next == (\E t \in Txns : Step(t)) \/ (Finished /\ UNCHANGED vars)

Spec == Init /\ [][Next]_vars

(* Postgres grants a lock that stays free, and an open transaction's client *)
(* sends its next statement.                                               *)
FairSpec == Spec /\ \A t \in Txns : WF_vars(Step(t))

-----------------------------------------------------------------------------
(* Every variable has its type. *)
TypeOK ==
  /\ wallet \in [Users -> Int \cup {Missing}]
  /\ rows \in SUBSET Refs
  /\ req \in [Txns -> Requests]
  /\ pc \in [Txns -> Steps]
  /\ seen \in [Txns -> Int]
  /\ locked \in [Txns -> SUBSET Users]
  /\ inserted \in [Txns -> SUBSET Refs]

(* A row has one holder at a time. *)
RowsExclusive == \A s, t \in Txns : s # t => locked[s] \cap locked[t] = {}

(* A sender who could pay when a transfer looked, or when a debit job's    *)
(* UPDATE took its row, can still pay when that transaction writes: nothing *)
(* that overlaps it, a top-up with its stale sum included, moves the row.  *)
ChecksHold ==
  \A t \in Txns :
    /\ pc[t] \in {"insert", "commit"}
    /\ \/ req[t].kind = "transfer"
       \/ req[t].kind = "debit" /\ Took(t)
    => wallet[req[t].from] # Missing /\ wallet[req[t].from] >= req[t].amount

(* A transaction waiting for a row has locked only rows that sort before   *)
(* it, and one waiting for a reference has inserted none.                  *)
LocksInOrder ==
  \A t \in Txns :
    /\ pc[t] \in {"first", "second"} => \A u \in locked[t] : u <= Wanted(t)
    /\ pc[t] \in {"first", "second", "insert"} => inserted[t] = {}

(* Every transaction ends. *)
EveryTransactionEnds == \A t \in Txns : <>(pc[t] \in {"done", "failed"})

(* No transfer ever commits: its two ledger rows carry one reference, the   *)
(* column is unique, and the transaction rolls back whatever the balances. *)
TransfersNeverLand == \A t \in Txns : req[t].kind = "transfer" => pc[t] # "done"
=============================================================================
