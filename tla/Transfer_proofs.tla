------------------------- MODULE Transfer_proofs -------------------------
(* For any number of users, transactions and references: row locks are     *)
(* taken in sorted order, what is checked under them holds until it is     *)
(* used, and no transfer ever commits.                                     *)
EXTENDS Transfer, TLAPS

(* Where a transaction may be, by its kind. *)
Stages ==
  \A t \in Txns :
    /\ req[t].kind = "transfer" => pc[t] \notin {"read", "commit", "done"}
    /\ pc[t] \in {"second", "check"} => req[t].kind = "transfer"
    /\ pc[t] = "read" => req[t].kind = "credit"

(* What a transaction holds, by where it is. *)
Holdings ==
  \A t \in Txns :
    /\ pc[t] \in {"read", "first"} => locked[t] = {}
    /\ pc[t] = "second" => locked[t] \subseteq {First(t)}
    /\ pc[t] \in {"read", "first", "second", "check", "insert"} => inserted[t] = {}

(* A credit that has read its row, and a debit whose UPDATE took its row,  *)
(* find the row there from then on.                                        *)
Found ==
  \A t \in Txns :
    /\ req[t].kind = "credit" /\ pc[t] \in {"first", "insert", "commit"}
         => wallet[First(t)] # Missing
    /\ req[t].kind = "debit" /\ pc[t] \in {"insert", "commit"} /\ Took(t)
         => wallet[First(t)] # Missing

(* Past a lock statement, a transaction has the row if there is one, but   *)
(* for a debit whose UPDATE found too little.                              *)
Keeps(t, u) == wallet[u] # Missing => u \in locked[t]
Held ==
  \A t \in Txns :
    /\ req[t].kind # "debit" /\ pc[t] \in {"second", "check", "insert", "commit"}
         => Keeps(t, First(t))
    /\ req[t].kind = "transfer" /\ pc[t] \in {"check", "insert"} => Keeps(t, Second(t))

IInv == TypeOK /\ Stages /\ Holdings /\ Found /\ RowsExclusive /\ Held /\ ChecksHold

-----------------------------------------------------------------------------
(* A request's fields, and the users the locking order names. *)
LEMMA RequestTypes ==
  ASSUME req \in [Txns -> Requests], NEW t \in Txns
  PROVE  /\ req[t] \in Requests
         /\ req[t].kind \in Kinds
         /\ req[t].from \in Users /\ req[t].to \in Users
         /\ req[t].amount \in Nat /\ req[t].ref \in Refs
         /\ First(t) \in Users /\ Second(t) \in Users
         /\ First(t) <= Second(t)
         /\ req[t].kind # "transfer" => First(t) = req[t].from /\ First(t) = req[t].to
         /\ req[t].from \in {First(t), Second(t)}
<1>1. /\ req[t] \in Requests
      /\ req[t] \in [kind : Kinds, from : Users, to : Users, amount : Nat \ {0}, ref : Refs]
  BY RequestAssumption
<1>2. /\ req[t].kind \in Kinds
      /\ req[t].from \in Users /\ req[t].to \in Users
      /\ req[t].amount \in Nat /\ req[t].ref \in Refs
  BY <1>1
<1>3. req[t].from \in Int /\ req[t].to \in Int
  BY <1>2, UsersAssumption
<1>4. req[t].kind # "transfer" => req[t].from = req[t].to
  BY <1>1, RequestAssumption
<1>5. CASE req[t].from <= req[t].to
  <2>1. First(t) = req[t].from /\ Second(t) = req[t].to
    BY <1>5 DEF First, Second, Sorted
  <2> QED
    BY <2>1, <1>1, <1>2, <1>4, <1>5
<1>6. CASE ~(req[t].from <= req[t].to)
  <2>1. First(t) = req[t].to /\ Second(t) = req[t].from
    BY <1>6 DEF First, Second, Sorted
  <2>2. First(t) <= Second(t)
    BY <2>1, <1>3, <1>6
  <2> QED
    BY <2>1, <2>2, <1>1, <1>2, <1>3, <1>4
<1> QED
  BY <1>5, <1>6

(* The invariant holds at the start: nothing is locked or inserted. *)
LEMMA InvInit == Init => IInv
<1> SUFFICES ASSUME Init PROVE IInv
  OBVIOUS
<1>1. req \in [Txns -> Requests]
  BY DEF Init
<1>2. ASSUME NEW t \in Txns
      PROVE  /\ req[t].kind \in Kinds
             /\ pc[t] = FirstStep[req[t].kind]
             /\ req[t].kind = "transfer" => pc[t] = "first"
             /\ req[t].kind = "credit" => pc[t] = "read"
             /\ req[t].kind = "debit" => pc[t] = "first"
  BY <1>1, RequestTypes DEF Init, FirstStep, Kinds
<1>3. TypeOK
  <2>1. pc \in [Txns -> Steps]
    BY <1>2 DEF Init, Kinds, Steps
  <2>2. wallet \in [Users -> Int \cup {Missing}]
    <3>1. wallet \in [Users -> Openings \cup {Missing}]
      BY DEF Init
    <3>2. \A o \in Openings : o \in Nat
      BY OpeningAssumption
    <3>3. \A o \in Openings \cup {Missing} : o \in Int \cup {Missing}
      BY <3>2
    <3> QED
      BY <3>1, <3>3
  <2>3. /\ rows \in SUBSET Refs
        /\ seen \in [Txns -> Int]
        /\ locked \in [Txns -> SUBSET Users]
        /\ inserted \in [Txns -> SUBSET Refs]
    BY DEF Init
  <2> QED
    BY <1>1, <2>1, <2>2, <2>3 DEF TypeOK
<1>4. Stages
  BY <1>2 DEF Stages, Kinds
<1>5. Holdings
  BY DEF Init, Holdings
<1>6. Found
  BY <1>2 DEF Found, Kinds
<1>7. RowsExclusive
  BY DEF Init, RowsExclusive
<1>8. Held
  BY <1>2 DEF Held, Kinds
<1>9. ChecksHold
  BY <1>2 DEF ChecksHold, Kinds
<1> QED
  BY <1>3, <1>4, <1>5, <1>6, <1>7, <1>8, <1>9 DEF IInv

-----------------------------------------------------------------------------
(* Giving everything up and stopping keeps the invariant. *)
LEMMA RollBackKeeps ==
  ASSUME IInv, NEW t \in Txns, RollBack(t), pc[t] # "done"
  PROVE  IInv'
<1>1. /\ pc' = [pc EXCEPT ![t] = "failed"]
      /\ locked' = [locked EXCEPT ![t] = {}]
      /\ inserted' = [inserted EXCEPT ![t] = {}]
      /\ UNCHANGED <<wallet, rows, req, seen>>
  BY DEF RollBack, Goto
<1>2. TypeOK'
  BY <1>1 DEF IInv, TypeOK, Steps
<1>3. \A s \in Txns : /\ First(s)' = First(s) /\ Second(s)' = Second(s)
                      /\ s # t => pc'[s] = pc[s] /\ locked'[s] = locked[s]
                                    /\ inserted'[s] = inserted[s]
                      /\ s = t => pc'[s] = "failed" /\ locked'[s] = {}
                                    /\ inserted'[s] = {}
  BY <1>1 DEF IInv, TypeOK, First, Second, Sorted
<1>4. Stages'
  BY <1>1, <1>3 DEF IInv, Stages
<1>5. Holdings'
  BY <1>3 DEF IInv, Holdings
<1>6. Found'
  BY <1>1, <1>3 DEF IInv, Found, Took
<1>7. RowsExclusive'
  BY <1>3 DEF IInv, RowsExclusive
<1>8. Held'
  BY <1>1, <1>3 DEF IInv, Held, Keeps
<1>9. ChecksHold'
  BY <1>1, <1>3 DEF IInv, ChecksHold, Took
<1> QED
  BY <1>2, <1>4, <1>5, <1>6, <1>7, <1>8, <1>9 DEF IInv

LEMMA ReadKeeps ==
  ASSUME IInv, NEW t \in Txns, ReadUnlocked(t)
  PROVE  IInv'
<1>1. CASE NoRow(t)
  BY <1>1, RollBackKeeps DEF ReadUnlocked
<1>2. CASE ~NoRow(t)
  <2>1. /\ pc[t] = "read"
        /\ wallet[First(t)] # Missing
        /\ seen' = [seen EXCEPT ![t] = wallet[First(t)]]
        /\ pc' = [pc EXCEPT ![t] = "first"]
        /\ UNCHANGED <<wallet, rows, req, locked, inserted>>
    BY <1>2 DEF ReadUnlocked, NoRow, Goto
  <2>2. wallet[First(t)] \in Int
    BY <2>1, RequestTypes DEF IInv, TypeOK
  <2>3. TypeOK'
    BY <2>1, <2>2 DEF IInv, TypeOK, Steps
  <2>4. \A s \in Txns : /\ First(s)' = First(s) /\ Second(s)' = Second(s)
                        /\ s # t => pc'[s] = pc[s]
                        /\ s = t => pc'[s] = "first"
    BY <2>1 DEF IInv, TypeOK, First, Second, Sorted
  <2>5. req[t].kind = "credit"
    BY <2>1 DEF IInv, Stages
  <2>6. Stages'
    BY <2>1, <2>4, <2>5 DEF IInv, Stages
  <2>7. Holdings'
    BY <2>1, <2>4 DEF IInv, Holdings
  <2>8. Found'
    BY <2>1, <2>4, <2>5 DEF IInv, Found, Took
  <2>9. RowsExclusive'
    BY <2>1 DEF IInv, RowsExclusive
  <2>10. Held'
    BY <2>1, <2>4, <2>5 DEF IInv, Held, Keeps
  <2>11. ChecksHold'
    BY <2>1, <2>4 DEF IInv, ChecksHold, Took
  <2> QED
    BY <2>3, <2>6, <2>7, <2>8, <2>9, <2>10, <2>11 DEF IInv
<1> QED
  BY <1>1, <1>2

(* Locking a row that nobody holds. *)
LEMMA LockKeeps ==
  ASSUME IInv, NEW t \in Txns, LockRow(t)
  PROVE  IInv'
<1> DEFINE w == Wanted(t)
<1> DEFINE next == AfterLock(t)
<1>1. /\ pc[t] \in {"first", "second"}
      /\ Acquired(t) # {} => Free(t, w)
      /\ locked' = [locked EXCEPT ![t] = @ \cup Acquired(t)]
      /\ Acquired(t) \subseteq {w}
      /\ req[t].kind # "debit" /\ wallet[w] # Missing => w \in Acquired(t)
      /\ req[t].kind = "debit" /\ Acquired(t) # {} =>
           wallet[w] # Missing /\ ~(wallet[w] < req[t].amount)
      /\ pc' = [pc EXCEPT ![t] = next]
      /\ UNCHANGED <<wallet, rows, req, seen, inserted>>
  BY DEF LockRow, Acquired, Misses, Goto
<1>2. w \in Users /\ (pc[t] = "first" => w = First(t)) /\ First(t) \in Users
  BY RequestTypes DEF Wanted, IInv, TypeOK
<1>3. /\ req[t].kind = "transfer" /\ pc[t] = "first" => next = "second"
      /\ req[t].kind = "transfer" /\ pc[t] = "second" => next = "check"
      /\ req[t].kind = "credit" => pc[t] = "first" /\ next = "insert"
      /\ req[t].kind = "debit" => pc[t] = "first" /\ next = "insert"
      /\ req[t].kind \in {"transfer", "credit", "debit"}
  BY <1>1, RequestTypes DEF AfterLock, IInv, Stages, TypeOK, Kinds
<1>4. next \in {"second", "check", "insert"}
  BY <1>1, <1>3
<1>5. \A s \in Txns : /\ First(s)' = First(s) /\ Second(s)' = Second(s)
                      /\ s # t => pc'[s] = pc[s] /\ locked'[s] = locked[s]
                      /\ s = t => pc'[s] = next /\ locked'[s] \subseteq locked[s] \cup {w}
                      /\ locked[s] \subseteq locked'[s]
  BY <1>1 DEF IInv, TypeOK, First, Second, Sorted
<1>6. TypeOK'
  BY <1>1, <1>2, <1>4 DEF IInv, TypeOK, Steps
<1>7. Stages'
  BY <1>1, <1>3, <1>4, <1>5 DEF IInv, Stages
<1>8. Holdings'
  <2>1. pc[t] = "first" => locked[t] = {}
    BY DEF IInv, Holdings
  <2>2. inserted[t] = {}
    BY <1>1 DEF IInv, Holdings
  <2>3. next = "second" => pc[t] = "first"
    BY <1>1, <1>3
  <2>4. next = "second" => locked'[t] \subseteq {First(t)}
    BY <2>1, <2>3, <1>2, <1>5
  <2> QED
    BY <1>1, <1>4, <1>5, <2>2, <2>4 DEF IInv, Holdings
<1>taken. ASSUME req[t].kind = "debit", Took(t)'
          PROVE  wallet[First(t)] # Missing /\ ~(wallet[First(t)] < req[t].amount)
  <2>1. pc[t] = "first" /\ w = First(t) /\ locked[t] = {} /\ req'[t] = req[t]
    BY <1>taken, <1>1, <1>2, <1>3 DEF IInv, Holdings
  <2>2. Acquired(t) # {}
    BY <1>taken, <1>1, <2>1 DEF Took, IInv, TypeOK
  <2> QED
    BY <1>taken, <1>1, <2>1, <2>2
<1>9. Found'
  <2>1. \A s \in Txns : s # t => (Took(s)' <=> Took(s))
    BY <1>1, <1>5 DEF Took
  <2> QED
    BY <1>1, <1>3, <1>5, <1>taken, <2>1 DEF IInv, Found
<1>10. RowsExclusive'
  <2>1. CASE Acquired(t) = {}
    <3>1. locked' = locked
      BY <1>1, <2>1 DEF IInv, TypeOK
    <3> QED
      BY <3>1 DEF IInv, RowsExclusive
  <2>2. CASE Acquired(t) # {}
    <3>1. \A s \in Txns \ {t} : w \notin locked[s]
      BY <1>1, <2>2 DEF Free
    <3>2. \A s \in Txns \ {t} : locked'[s] \cap locked'[t] = {}
      BY <1>5, <3>1 DEF IInv, RowsExclusive
    <3> QED
      BY <1>5, <3>2 DEF IInv, RowsExclusive
  <2> QED
    BY <2>1, <2>2
<1>11. req[t].kind # "debit" /\ wallet'[w] # Missing => w \in locked'[t]
  BY <1>1, <1>2 DEF IInv, TypeOK
<1>12. Held'
  <2>1. \A s \in Txns, u \in Users :
          (wallet[u] # Missing => u \in locked[s]) => (wallet'[u] # Missing => u \in locked'[s])
    BY <1>1, <1>5
  <2>2. \A s \in Txns : First(s) \in Users /\ Second(s) \in Users
    BY RequestTypes DEF IInv, TypeOK
  <2>3. pc[t] = "second" =>
          /\ w = Second(t) /\ next = "check"
          /\ wallet[First(t)] # Missing => First(t) \in locked[t]
    BY <1>1, <1>3 DEF IInv, Held, Keeps, Stages, Wanted
  <2>4. pc[t] = "first" => next \in {"second", "insert"}
    BY <1>1, <1>3
  <2>5. req[t].kind # "debit" /\ wallet'[First(t)] # Missing => First(t) \in locked'[t]
    BY <1>1, <1>2, <1>11, <2>1, <2>2, <2>3, <1>5
  <2>6. /\ next \in {"check", "insert"} /\ req[t].kind = "transfer"
        /\ wallet'[Second(t)] # Missing
        => Second(t) \in locked'[t]
    BY <1>1, <1>3, <1>11, <2>3, <1>5
  <2>7. \A s \in Txns : s # t =>
          /\ req[s].kind # "debit" /\ pc'[s] \in {"second", "check", "insert", "commit"} =>
               (wallet'[First(s)] # Missing => First(s) \in locked'[s])
          /\ req[s].kind = "transfer" /\ pc'[s] \in {"check", "insert"} =>
               (wallet'[Second(s)] # Missing => Second(s) \in locked'[s])
    BY <1>5, <2>1, <2>2 DEF IInv, Held, Keeps
  <2> QED
    BY <1>1, <1>4, <1>5, <2>5, <2>6, <2>7 DEF Held, Keeps
<1>13. ChecksHold'
  <2>1. req[t].kind = "transfer" => next \in {"second", "check"}
    BY <1>1, <1>3
  <2>2. req[t].kind = "debit" /\ Took(t)' =>
          wallet[req[t].from] # Missing /\ wallet[req[t].from] >= req[t].amount
    <3>1. req[t].kind = "debit" => First(t) = req[t].from
      BY RequestTypes DEF IInv, TypeOK
    <3>2. wallet[First(t)] # Missing => wallet[First(t)] \in Int
      BY <1>2 DEF IInv, TypeOK
    <3>3. req[t].amount \in Nat
      BY RequestTypes DEF IInv, TypeOK
    <3> QED
      BY <3>1, <3>2, <3>3, <1>taken
  <2>3. \A s \in Txns : s # t => (Took(s)' <=> Took(s))
    BY <1>1, <1>5 DEF Took
  <2> QED
    BY <1>1, <1>3, <1>4, <1>5, <2>1, <2>2, <2>3 DEF IInv, ChecksHold
<1> QED
  BY <1>6, <1>7, <1>8, <1>9, <1>10, <1>12, <1>13 DEF IInv

LEMMA CheckKeeps ==
  ASSUME IInv, NEW t \in Txns, Check(t)
  PROVE  IInv'
<1>1. CASE RollBack(t)
  BY <1>1, RollBackKeeps DEF Check
<1>2. CASE ~RollBack(t)
  <2>1. /\ pc[t] = "check"
        /\ pc' = [pc EXCEPT ![t] = "insert"]
        /\ UNCHANGED <<wallet, rows, req, seen, locked, inserted>>
    BY <1>2 DEF Check, Goto
  <2>2. req[t].kind = "transfer"
    BY <2>1 DEF IInv, Stages
  <2>3. TypeOK'
    BY <2>1 DEF IInv, TypeOK, Steps
  <2>4. \A s \in Txns : /\ First(s)' = First(s) /\ Second(s)' = Second(s)
                        /\ s # t => pc'[s] = pc[s]
                        /\ s = t => pc'[s] = "insert"
    BY <2>1 DEF IInv, TypeOK, First, Second, Sorted
  <2>5. Stages'
    BY <2>1, <2>2, <2>4 DEF IInv, Stages
  <2>6. Holdings'
    BY <2>1, <2>4 DEF IInv, Holdings
  <2>7. Found'
    BY <2>1, <2>2, <2>4 DEF IInv, Found, Took
  <2>8. RowsExclusive'
    BY <2>1 DEF IInv, RowsExclusive
  <2>9. Held'
    BY <2>1, <2>2, <2>4 DEF IInv, Held, Keeps
  <2>10. wallet[req[t].from] # Missing /\ wallet[req[t].from] >= req[t].amount
    <3>1. /\ wallet[First(t)] # Missing /\ wallet[Second(t)] # Missing
          /\ ~(wallet[req[t].from] < req[t].amount)
      BY <1>2 DEF Check
    <3>2. req[t].from \in {First(t), Second(t)} /\ req[t].from \in Users /\ req[t].amount \in Nat
      BY RequestTypes DEF IInv, TypeOK
    <3>3. wallet[req[t].from] \in Int
      BY <3>1, <3>2 DEF IInv, TypeOK
    <3> QED
      BY <3>1, <3>2, <3>3
  <2>11. ChecksHold'
    BY <2>1, <2>4, <2>10 DEF IInv, ChecksHold, Took
  <2> QED
    BY <2>3, <2>5, <2>6, <2>7, <2>8, <2>9, <2>11 DEF IInv
<1> QED
  BY <1>1, <1>2

(* A transfer's two rows break the unique index by themselves. *)
LEMMA TransferNotUnique ==
  ASSUME NEW t \in Txns, req[t].kind = "transfer"
  PROVE  ~Unique(t)
<1>1. NewRows(t) = <<req[t].ref, req[t].ref>>
  BY DEF NewRows
<1>2. Len(NewRows(t)) = 2 /\ NewRows(t)[1] = NewRows(t)[2]
  BY <1>1
<1>3. 1 \in 1..Len(NewRows(t)) /\ 2 \in 1..Len(NewRows(t)) /\ 1 # 2
  BY <1>2
<1> QED
  BY <1>2, <1>3 DEF Unique

LEMMA InsertKeeps ==
  ASSUME IInv, NEW t \in Txns, Insert(t)
  PROVE  IInv'
<1>1. CASE RollBack(t)
  BY <1>1, RollBackKeeps DEF Insert
<1>2. CASE ~RollBack(t)
  <2>1. req[t].kind # "transfer"
    BY <1>2, TransferNotUnique DEF Insert
  <2>2. /\ pc[t] = "insert"
        /\ pc' = [pc EXCEPT ![t] = "commit"]
        /\ inserted' \in {inserted, [inserted EXCEPT ![t] = {req[t].ref}]}
        /\ UNCHANGED <<wallet, rows, req, seen, locked>>
    BY <1>2 DEF Insert, Goto
  <2>3. req[t].ref \in Refs
    BY RequestTypes DEF IInv, TypeOK
  <2>4. TypeOK'
    BY <2>2, <2>3 DEF IInv, TypeOK, Steps
  <2>5. \A s \in Txns : /\ First(s)' = First(s) /\ Second(s)' = Second(s)
                        /\ s # t => pc'[s] = pc[s] /\ inserted'[s] = inserted[s]
                        /\ s = t => pc'[s] = "commit"
    BY <2>2 DEF IInv, TypeOK, First, Second, Sorted
  <2>6. Stages'
    BY <2>1, <2>2, <2>5 DEF IInv, Stages
  <2>7. Holdings'
    BY <2>2, <2>5 DEF IInv, Holdings
  <2>8. Found'
    BY <2>2, <2>5 DEF IInv, Found, Took
  <2>9. RowsExclusive'
    BY <2>2 DEF IInv, RowsExclusive
  <2>10. Held'
    BY <2>1, <2>2, <2>5 DEF IInv, Held, Keeps
  <2>11. ChecksHold'
    BY <2>2, <2>5 DEF IInv, ChecksHold, Took
  <2> QED
    BY <2>4, <2>6, <2>7, <2>8, <2>9, <2>10, <2>11 DEF IInv
<1> QED
  BY <1>1, <1>2

LEMMA CommitKeeps ==
  ASSUME IInv, NEW t \in Txns, Commit(t)
  PROVE  IInv'
<1>1. /\ pc[t] = "commit"
      /\ wallet' = Balances(t)
      /\ rows' = rows \cup inserted[t]
      /\ locked' = [locked EXCEPT ![t] = {}]
      /\ inserted' = [inserted EXCEPT ![t] = {}]
      /\ pc' = [pc EXCEPT ![t] = "done"]
      /\ UNCHANGED <<req, seen>>
  BY DEF Commit, Goto
<1>2. /\ req[t].kind \in {"credit", "debit"}
      /\ req[t].amount \in Nat
      /\ First(t) \in Users /\ First(t) = req[t].from /\ First(t) = req[t].to
  BY <1>1, RequestTypes DEF IInv, Stages, TypeOK, Kinds
<1>3. seen[t] \in Int
  BY DEF IInv, TypeOK
<1>4. \/ wallet' = wallet
      \/ /\ First(t) \in locked[t] /\ wallet[First(t)] # Missing
         /\ \E b \in Int : wallet' = [wallet EXCEPT ![First(t)] = b]
  <2>1. CASE req[t].kind = "credit"
    <3>1. wallet' = [wallet EXCEPT ![First(t)] = seen[t] + req[t].amount]
      BY <1>1, <1>2, <2>1 DEF Balances
    <3>2. seen[t] + req[t].amount \in Int
      BY <1>2, <1>3
    <3>3. wallet[First(t)] # Missing /\ First(t) \in locked[t]
      BY <1>1, <2>1 DEF IInv, Found, Held, Keeps
    <3> QED
      BY <3>1, <3>2, <3>3
  <2>2. CASE req[t].kind = "debit" /\ Took(t)
    <3>1. wallet[First(t)] # Missing /\ First(t) \in locked[t] /\ wallet[First(t)] \in Int
      BY <1>1, <1>2, <2>2 DEF IInv, Found, Took, TypeOK
    <3>2. wallet' = [wallet EXCEPT ![First(t)] = wallet[First(t)] - req[t].amount]
      <4>1. First(t) \in DOMAIN wallet
        BY <1>2 DEF IInv, TypeOK
      <4> QED
        BY <1>1, <1>2, <2>2, <4>1 DEF Balances
    <3>3. wallet[First(t)] - req[t].amount \in Int
      BY <1>2, <3>1
    <3> QED
      BY <3>1, <3>2, <3>3
  <2>3. CASE req[t].kind = "debit" /\ ~Took(t)
    BY <1>1, <1>2, <2>3 DEF Balances
  <2> QED
    BY <1>2, <2>1, <2>2, <2>3
<1>5. \/ wallet' = wallet
      \/ /\ First(t) \in locked[t] /\ wallet[First(t)] # Missing
         /\ wallet'[First(t)] \in Int
         /\ wallet' \in [Users -> Int \cup {Missing}]
         /\ \A u \in Users : u # First(t) => wallet'[u] = wallet[u]
  BY <1>2, <1>4 DEF IInv, TypeOK
<1>6. TypeOK'
  BY <1>1, <1>2, <1>5 DEF IInv, TypeOK, Steps
<1>7. \A s \in Txns : /\ First(s)' = First(s) /\ Second(s)' = Second(s)
                      /\ s # t => pc'[s] = pc[s] /\ locked'[s] = locked[s]
                                    /\ inserted'[s] = inserted[s]
                      /\ s = t => pc'[s] = "done" /\ locked'[s] = {}
                                    /\ inserted'[s] = {}
  BY <1>1 DEF IInv, TypeOK, First, Second, Sorted
<1>8. \A u \in Users : wallet[u] # Missing => wallet'[u] # Missing
  BY <1>5, UsersAssumption
<1>9. \A s \in Txns : First(s) \in Users
  BY RequestTypes DEF IInv, TypeOK
<1>10. Stages'
  BY <1>1, <1>2, <1>7 DEF IInv, Stages
<1>11. Holdings'
  BY <1>7 DEF IInv, Holdings
<1>12. Found'
  BY <1>1, <1>7, <1>8, <1>9 DEF IInv, Found, Took
<1>13. RowsExclusive'
  BY <1>7 DEF IInv, RowsExclusive
<1>14. \A s \in Txns : Second(s) \in Users
  BY RequestTypes DEF IInv, TypeOK
<1>15. \A u \in Users : wallet'[u] # Missing => wallet[u] # Missing
  BY <1>5
<1>16. Held'
  BY <1>1, <1>7, <1>9, <1>14, <1>15 DEF IInv, Held, Keeps
<1>17. \A u \in Users : wallet'[u] = wallet[u] \/ (u = First(t) /\ First(t) \in locked[t])
  BY <1>5
<1>19. ChecksHold'
  <2>1. ASSUME NEW s \in Txns, s # t, pc[s] \in {"insert", "commit"},
               req[s].kind = "transfer" \/ (req[s].kind = "debit" /\ Took(s))
        PROVE  wallet'[req[s].from] = wallet[req[s].from]
    <3>1. req[s].from \in locked[s]
      <4>1. CASE req[s].kind = "debit"
        BY <2>1, <4>1 DEF Took
      <4>2. CASE req[s].kind = "transfer"
        <5>1. wallet[req[s].from] # Missing
          BY <2>1, <4>2 DEF IInv, ChecksHold
        <5>2. pc[s] = "insert"
          BY <2>1, <4>2 DEF IInv, Stages
        <5> QED
          BY <4>2, <5>1, <5>2, RequestTypes DEF IInv, Held, Keeps, TypeOK
      <4> QED
        BY <2>1, <4>1, <4>2
    <3>2. First(t) \in locked[t] => req[s].from # First(t)
      BY <2>1, <3>1 DEF IInv, RowsExclusive
    <3>3. req[s].from \in Users
      BY RequestTypes DEF IInv, TypeOK
    <3> QED
      BY <3>2, <3>3, <1>17
  <2>2. \A s \in Txns : s # t => (Took(s)' <=> Took(s))
    BY <1>1, <1>7 DEF Took
  <2> QED
    BY <1>1, <1>7, <2>1, <2>2 DEF IInv, ChecksHold
<1> QED
  BY <1>6, <1>10, <1>11, <1>12, <1>13, <1>16, <1>19 DEF IInv

LEMMA InvStep == IInv /\ [Next]_vars => IInv'
<1> SUFFICES ASSUME IInv, [Next]_vars PROVE IInv'
  OBVIOUS
<1>1. CASE UNCHANGED vars
  BY <1>1 DEF vars, IInv, TypeOK, Stages, Holdings, Found, RowsExclusive,
              Held, Keeps, ChecksHold, Took, First, Second, Sorted
<1>2. CASE \E t \in Txns : Step(t)
  <2>1. PICK t \in Txns : Step(t)
    BY <1>2
  <2> QED
    BY <2>1, ReadKeeps, LockKeeps, CheckKeeps, InsertKeeps, CommitKeeps DEF Step
<1> QED
  BY <1>1, <1>2 DEF Next

(* The invariant implies that locks are taken in order. *)
LEMMA InvImpliesOrder == IInv => LocksInOrder
<1> SUFFICES ASSUME IInv, NEW t \in Txns
             PROVE  /\ pc[t] \in {"first", "second"} => \A u \in locked[t] : u <= Wanted(t)
                    /\ pc[t] \in {"first", "second", "insert"} => inserted[t] = {}
  BY DEF LocksInOrder
<1>1. First(t) <= Second(t)
  BY RequestTypes DEF IInv, TypeOK
<1>2. pc[t] = "second" => locked[t] \subseteq {First(t)} /\ Wanted(t) = Second(t)
  BY DEF IInv, Holdings, Wanted
<1>3. pc[t] = "first" => locked[t] = {}
  BY DEF IInv, Holdings
<1>4. pc[t] \in {"first", "second", "insert"} => inserted[t] = {}
  BY DEF IInv, Holdings
<1> QED
  BY <1>1, <1>2, <1>3, <1>4

-----------------------------------------------------------------------------
(* Every variable always has its type: no commit ever subtracts from a row *)
(* that is not there.                                                      *)
THEOREM TransferTypes == Spec => []TypeOK
<1>1. IInv => TypeOK
  BY DEF IInv
<1> QED
  BY <1>1, InvInit, InvStep, PTL DEF Spec

(* What a transfer found under its row locks, and the row a debit's UPDATE *)
(* took, still cover the amount when it writes, for any number of them:    *)
(* the strengthening says which rows each holds, and that no row has two   *)
(* holders.                                                                *)
THEOREM CheckedFundsStay == Spec => []ChecksHold
<1>1. IInv => ChecksHold
  BY DEF IInv
<1> QED
  BY <1>1, InvInit, InvStep, PTL DEF Spec

(* A transaction only ever waits for a row that sorts after those it has,  *)
(* which is what the sort in transfer is for.                              *)
THEOREM LocksTakenInOrder == Spec => []LocksInOrder
  BY InvInit, InvStep, InvImpliesOrder, PTL DEF Spec

(* No transfer ever commits, whatever the users, balances and references.  *)
THEOREM NoTransferLands == Spec => []TransfersNeverLand
<1>1. IInv => TransfersNeverLand
  BY DEF IInv, Stages, TransfersNeverLand
<1> QED
  BY <1>1, InvInit, InvStep, PTL DEF Spec
=============================================================================
