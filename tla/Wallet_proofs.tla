---------------------------- MODULE Wallet_proofs ----------------------------
(* Theorems about Wallet for any number of users, requests and references, *)
(* any bound on the balance and any number of faults.                      *)
EXTENDS WalletAccount, FiniteSums

(* What a well-typed request asks for. *)
LEMMA RequestTypes ==
  ASSUME TypeOK, NEW c \in Calls
  PROVE  /\ User(c) \in Users
         /\ Amount(c) \in Int /\ Amount(c) > 0
         /\ Ref(c) \in Refs
         /\ req[c].op \in Ops
<1>1. req[c] \in [op : Ops, user : Users, amount : Amounts, ref : Refs]
  BY RequestAssumption DEF TypeOK
<1>2. QED
  BY <1>1, BalanceAssumption DEF User, Amount, Ref, Amounts

(* Every variable keeps its type, whatever interleaving, failure, retry or *)
(* expiry happens.                                                         *)
LEMMA TypeStep == TypeOK /\ [Next]_vars => TypeOK'
<1> SUFFICES ASSUME TypeOK, [Next]_vars PROVE TypeOK'
  OBVIOUS
<1> USE DEF TypeOK, Steps, JobStates, Goto, JobTo, stores, jobs
<1>1. ASSUME NEW c \in Calls, GetCached(c) PROVE TypeOK'
  BY <1>1 DEF GetCached
<1>2. ASSUME NEW c \in Calls, FindWallet(c) PROVE TypeOK'
  <2>1. User(c) \in Users /\ req[c].op \in Ops
    BY RequestTypes
  <2>2. CASE NoWallet(c)
    BY <1>2, <2>1, <2>2 DEF FindWallet
  <2>3. CASE ~NoWallet(c)
    <3>1. wallet[User(c)] \in Int
      BY <2>1, <2>3 DEF NoWallet
    <3>2. seen' \in [Calls -> Int]
      BY <1>2, <2>3, <3>1 DEF FindWallet
    <3>3. pc' \in [Calls -> Steps]
      BY <1>2, <2>1, <2>3 DEF FindWallet, Ops, AfterFound
    <3>4. QED
      BY <1>2, <3>2, <3>3 DEF FindWallet
  <2>4. QED
    BY <2>2, <2>3
<1>3. ASSUME NEW c \in Calls, InsertWallet(c) PROVE TypeOK'
  BY <1>3, RequestTypes DEF InsertWallet
<1>4. ASSUME NEW c \in Calls, CommitCredit(c) PROVE TypeOK'
  <2>1. User(c) \in Users /\ Amount(c) \in Int /\ Ref(c) \in Refs
    BY RequestTypes
  <2>2. QED
    BY <1>4, <2>1 DEF CommitCredit
<1>5. ASSUME NEW c \in Calls, Publish(c) PROVE TypeOK'
  BY <1>5, RequestTypes DEF Publish
<1>6. ASSUME NEW c \in Calls, Lua(c) PROVE TypeOK'
  <2>1. User(c) \in Users /\ Amount(c) \in Int
    BY RequestTypes
  <2>2. QED
    BY <1>6, <2>1 DEF Lua
<1>7. ASSUME NEW c \in Calls, Hydrate(c) PROVE TypeOK'
  BY <1>7, RequestTypes DEF Hydrate
<1>8. ASSUME NEW c \in Calls, Work(c) PROVE TypeOK'
  <2>1. User(c) \in Users /\ Amount(c) \in Int /\ Ref(c) \in Refs
    BY RequestTypes
  <2>2. CASE Enqueue(c)
    BY <2>2 DEF Enqueue
  <2>3. CASE Take(c)
    BY <2>3 DEF Take
  <2>4. CASE ApplyDebit(c)
    <3>1. Booked(c) \in Int
      BY <2>1 DEF Booked
    <3>2. wallet' \in [Users -> Int \cup {Missing}]
      BY <2>1, <2>4 DEF ApplyDebit, Covers
    <3>3. QED
      BY <2>1, <2>4, <3>1, <3>2 DEF ApplyDebit
  <2>5. CASE Complete(c)
    BY <2>5 DEF Complete
  <2>6. QED
    BY <1>8, <2>2, <2>3, <2>4, <2>5 DEF Work
<1>9. ASSUME NEW c \in Calls, Fault(c) PROVE TypeOK'
  <2>1. faults < MaxFaults => faults + 1 \in 0..MaxFaults
    BY BoundAssumption
  <2>2. QED
    BY <1>9, <2>1 DEF Fault, CallFails, PublishFails, EnqueueLost, ApplyFails, AfterFailure, Stall
<1>10. ASSUME NEW u \in Users, Expire(u) PROVE TypeOK'
  BY <1>10 DEF Expire
<1>11. CASE UNCHANGED vars
  BY <1>11 DEF vars
<1>12. QED
  BY <1>1, <1>2, <1>3, <1>4, <1>5, <1>6, <1>7, <1>8, <1>9, <1>10, <1>11
     DEF Next, Request

(* The balances a model starts from. *)
LEMMA OpeningTypes ==
  ASSUME Init, NEW u \in Users
  PROVE  wallet[u] \in Int \cup {Missing} /\ ~Overdrawn(wallet[u])
<1>1. \A x \in Openings : x \in Int /\ x >= 0
  BY BalanceAssumption
<1>2. wallet[u] \in Openings \cup {Missing}
  BY DEF Init
<1>3. QED
  BY <1>1, <1>2 DEF Overdrawn

(* The models start in well-typed states. *)
LEMMA TypeInit == Init => TypeOK
<1> SUFFICES ASSUME Init PROVE TypeOK
  OBVIOUS
<1>1. wallet \in [Users -> Int \cup {Missing}]
  BY OpeningTypes DEF Init
<1>2. net \in [Users -> Int]
  BY <1>1 DEF Init
<1>3. pc \in [Calls -> Steps]
  BY RequestAssumption DEF Init, FirstStep, Steps, Ops
<1>4. QED
  BY <1>1, <1>2, <1>3, BoundAssumption DEF Init, TypeOK, JobStates

(* The state of the wallet, its requests and its jobs keeps its types in   *)
(* every behaviour of the service.                                         *)
THEOREM TypeCorrect == Spec => []TypeOK
  BY TypeInit, TypeStep, PTL DEF Spec

-----------------------------------------------------------------------------
(* No balance is ever negative.  Not inductive alone: a request writes     *)
(* back a balance it read before, so those must not be negative either.    *)

SnapshotsSound == \A c \in Calls : seen[c] >= 0
OverdraftInv == TypeOK /\ NeverOverdrawn /\ SnapshotsSound

LEMMA OverdraftInit == Init => OverdraftInv
<1> SUFFICES ASSUME Init PROVE OverdraftInv
  OBVIOUS
<1>1. TypeOK
  BY TypeInit
<1>2. NeverOverdrawn
  <2>1. ASSUME NEW u \in Users PROVE ~Overdrawn(cache[u])
    BY DEF Init, Overdrawn
  <2>2. QED
    BY <2>1, OpeningTypes DEF NeverOverdrawn
<1>3. SnapshotsSound
  BY DEF Init, SnapshotsSound
<1>4. QED
  BY <1>1, <1>2, <1>3 DEF OverdraftInv

LEMMA OverdraftStep == OverdraftInv /\ [Next]_vars => OverdraftInv'
<1> SUFFICES ASSUME OverdraftInv, [Next]_vars PROVE OverdraftInv'
  OBVIOUS
<1>1. TypeOK /\ TypeOK'
  BY TypeStep DEF OverdraftInv
<1> USE <1>1 DEF TypeOK, OverdraftInv, NeverOverdrawn, SnapshotsSound, Overdrawn
<1>2. ASSUME NEW c \in Calls, GetCached(c) PROVE OverdraftInv'
  BY <1>2 DEF GetCached, stores
<1>3. ASSUME NEW c \in Calls, FindWallet(c) PROVE OverdraftInv'
  <2>1. User(c) \in Users
    BY RequestTypes
  <2>2. QED
    BY <1>3, <2>1 DEF FindWallet, stores, NoWallet
<1>4. ASSUME NEW c \in Calls, InsertWallet(c) PROVE OverdraftInv'
  <2>1. User(c) \in Users
    BY RequestTypes
  <2>2. QED
    BY <1>4, <2>1 DEF InsertWallet
<1>5. ASSUME NEW c \in Calls, CommitCredit(c) PROVE OverdraftInv'
  <2>1. User(c) \in Users /\ Amount(c) \in Int /\ Amount(c) > 0
    BY RequestTypes
  <2>2. seen[c] + Amount(c) >= 0 /\ seen[c] + Amount(c) \in Int
    BY <2>1
  <2>3. QED
    BY <1>5, <2>1, <2>2 DEF CommitCredit
<1>6. ASSUME NEW c \in Calls, Publish(c) PROVE OverdraftInv'
  <2>1. User(c) \in Users
    BY RequestTypes
  <2>2. QED
    BY <1>6, <2>1 DEF Publish
<1>7. ASSUME NEW c \in Calls, Lua(c) PROVE OverdraftInv'
  <2>1. User(c) \in Users /\ Amount(c) \in Int
    BY RequestTypes
  <2>2. QED
    BY <1>7, <2>1 DEF Lua, Affords
<1>8. ASSUME NEW c \in Calls, Hydrate(c) PROVE OverdraftInv'
  <2>1. User(c) \in Users
    BY RequestTypes
  <2>2. QED
    BY <1>8, <2>1 DEF Hydrate
<1>9. ASSUME NEW c \in Calls, ApplyDebit(c) PROVE OverdraftInv'
  <2>1. User(c) \in Users /\ Amount(c) \in Int
    BY RequestTypes
  <2>2. QED
    BY <1>9, <2>1 DEF ApplyDebit, Covers
<1>10. ASSUME NEW c \in Calls, Enqueue(c) \/ Take(c) \/ Complete(c) \/ Fault(c)
       PROVE  OverdraftInv'
  BY <1>10 DEF Enqueue, Take, Complete, Fault, CallFails, PublishFails,
               EnqueueLost, ApplyFails, Stall, stores
<1>11. ASSUME NEW u \in Users, Expire(u) PROVE OverdraftInv'
  BY <1>11 DEF Expire
<1>12. CASE UNCHANGED vars
  BY <1>12 DEF vars
<1>13. QED
  BY <1>2, <1>3, <1>4, <1>5, <1>6, <1>7, <1>8, <1>9, <1>10, <1>11, <1>12
     DEF Next, Request, Work

(* Neither Redis nor Postgres ever holds a negative balance, whatever      *)
(* debits, top-ups, redeliveries, expiries and failures interleave.        *)
THEOREM NoOverdraft == Spec => []NeverOverdrawn
<1>1. OverdraftInv => NeverOverdrawn
  BY DEF OverdraftInv
<1>2. QED
  BY OverdraftInit, OverdraftStep, <1>1, PTL DEF Spec

-----------------------------------------------------------------------------
(* A payment reference is credited once.  Inductive: which steps an        *)
(* operation goes through, and that a committed top-up has its row.        *)

CreditInv ==
  /\ TypeOK
  /\ CreditedOnce
  /\ \A c \in Calls :
       /\ pc[c] = "get" => req[c].op = "balance"
       /\ pc[c] = "insert" => req[c].op = "create"
       /\ pc[c] = "commit" => req[c].op = "credit"
       /\ pc[c] \in {"lua", "hydrate", "retry"} => req[c].op = "debit"
       /\ req[c].op = "credit" /\ pc[c] \in {"publish", "done"} => Ref(c) \in refs

LEMMA CreditInit == Init => CreditInv
<1> SUFFICES ASSUME Init PROVE CreditInv
  OBVIOUS
<1>1. TypeOK
  BY TypeInit
<1>2. ASSUME NEW c \in Calls
      PROVE  /\ pc[c] = "get" => req[c].op = "balance"
             /\ pc[c] = "lua" => req[c].op = "debit"
             /\ pc[c] \in {"get", "lua", "read"}
  <2>1. req[c].op \in Ops
    BY <1>1, RequestTypes
  <2>2. QED
    BY <2>1 DEF Init, FirstStep, Ops
<1>3. QED
  BY <1>1, <1>2 DEF CreditInv, CreditedOnce

LEMMA CreditStep == CreditInv /\ [Next]_vars => CreditInv'
<1> SUFFICES ASSUME CreditInv, [Next]_vars PROVE CreditInv'
  OBVIOUS
<1>1. TypeOK /\ TypeOK'
  BY TypeStep DEF CreditInv
<1>2. req' = req
  BY DEF Next, Request, Work, Fault, GetCached, FindWallet, InsertWallet,
         CommitCredit, Publish, Lua, Hydrate, CallFails, PublishFails, Enqueue, EnqueueLost,
         Take, ApplyDebit, ApplyFails, Complete, Stall, Expire, vars
<1>3. \A c \in Calls : Ref(c)' = Ref(c)
  BY <1>2 DEF Ref
<1> USE <1>1, <1>2, <1>3 DEF CreditInv, CreditedOnce, Goto
<1>4. ASSUME NEW c \in Calls, GetCached(c) PROVE CreditInv'
  BY <1>4 DEF GetCached, stores, TypeOK
<1>5. ASSUME NEW c \in Calls, FindWallet(c) PROVE CreditInv'
  <2>1. req[c].op \in Ops
    BY RequestTypes
  <2>2. pc' = [pc EXCEPT ![c] = "failed"] \/ pc' = [pc EXCEPT ![c] = "insert"]
          \/ pc' = [pc EXCEPT ![c] = AfterFound[req[c].op]]
    BY <1>5 DEF FindWallet
  <2>3. QED
    BY <1>5, <2>1, <2>2 DEF FindWallet, stores, AfterFound, Ops, TypeOK
<1>6. ASSUME NEW c \in Calls, InsertWallet(c) PROVE CreditInv'
  BY <1>6 DEF InsertWallet, TypeOK
<1>7. ASSUME NEW c \in Calls, CommitCredit(c) PROVE CreditInv'
  BY <1>7 DEF CommitCredit, ReferenceTaken, TypeOK
<1>8. ASSUME NEW c \in Calls, Publish(c) PROVE CreditInv'
  BY <1>8 DEF Publish, TypeOK
<1>9. ASSUME NEW c \in Calls, Lua(c) \/ Hydrate(c) \/ CallFails(c) \/ PublishFails(c)
       PROVE  CreditInv'
  BY <1>9 DEF Lua, Hydrate, CallFails, PublishFails, stores, TypeOK
<1>10. ASSUME NEW c \in Calls, ApplyDebit(c) PROVE CreditInv'
  BY <1>10 DEF ApplyDebit, TypeOK
<1>11. ASSUME NEW c \in Calls,
              Enqueue(c) \/ Take(c) \/ Complete(c) \/ EnqueueLost(c)
                \/ ApplyFails(c) \/ Stall(c)
       PROVE  CreditInv'
  BY <1>11 DEF Enqueue, Take, Complete, EnqueueLost, ApplyFails, Stall, stores
<1>12. ASSUME NEW u \in Users, Expire(u) PROVE CreditInv'
  BY <1>12 DEF Expire
<1>13. CASE UNCHANGED vars
  BY <1>13 DEF vars
<1>14. QED
  BY <1>4, <1>5, <1>6, <1>7, <1>8, <1>9, <1>10, <1>11, <1>12, <1>13
     DEF Next, Request, Work, Fault

(* Two top-ups that carry one payment reference never both succeed: the    *)
(* unique column holds against every interleaving of the two requests.     *)
THEOREM TopUpCreditedOnce == Spec => []CreditedOnce
<1>1. CreditInv => CreditedOnce
  BY DEF CreditInv
<1>2. QED
  BY CreditInit, CreditStep, <1>1, PTL DEF Spec

-----------------------------------------------------------------------------
(* While all is quiet, a top-up about to commit still holds the row's      *)
(* balance.                                                                *)

SnapshotInv ==
  /\ CreditInv
  /\ Quiet
  /\ \A c \in Calls :
       pc[c] = "commit" => wallet[User(c)] # Missing /\ seen[c] = wallet[User(c)]

LEMMA SnapshotInit == Init => SnapshotInv
<1> SUFFICES ASSUME Init PROVE SnapshotInv
  OBVIOUS
<1>1. CreditInv
  BY CreditInit
<1>2. ASSUME NEW c \in Calls PROVE pc[c] \in {"get", "lua", "read"}
  <2>1. req[c].op \in Ops
    BY <1>1, RequestTypes DEF CreditInv
  <2>2. QED
    BY <2>1 DEF Init, FirstStep, Ops
<1>3. Quiet
  BY <1>2 DEF Init, Quiet, Overwriting, MissIsFresh, Unsettled
<1>4. QED
  BY <1>1, <1>2, <1>3 DEF SnapshotInv

(* In a quiet state a debit still to be taken has a reference of its own   *)
(* and no top-up of its user is between its read and its commit.           *)
LEMMA QuietDebit ==
  ASSUME CreditInv, Quiet, NEW c \in Calls, Unsettled(c)
  PROVE  /\ ~ReferenceTaken(c)
         /\ \A d \in Calls : User(d) = User(c) => pc[d] # "commit"
<1>1. ~ReferenceTaken(c)
  BY DEF Quiet, ReferenceIsFresh, ReferenceTaken
<1>2. ASSUME NEW d \in Calls, User(d) = User(c), pc[d] = "commit" PROVE FALSE
  <2>1. Overwriting(d)
    BY <1>2 DEF CreditInv, Overwriting
  <2>2. QED
    BY <1>2, <2>1 DEF Quiet, OverwritesAlone
<1>3. QED
  BY <1>1, <1>2

(* In a quiet state a top-up about to commit is its user's only one. *)
LEMMA QuietCredit ==
  ASSUME CreditInv, Quiet, NEW c \in Calls, pc[c] = "commit"
  PROVE  \A d \in Calls : User(d) = User(c) /\ pc[d] = "commit" => d = c
<1>1. \A d \in Calls : pc[d] = "commit" => Overwriting(d)
  BY DEF CreditInv, Overwriting
<1>2. QED
  BY <1>1 DEF Quiet, OverwritesAlone

LEMMA SnapshotStep == SnapshotInv /\ [Next /\ Quiet']_vars => SnapshotInv'
<1> SUFFICES ASSUME SnapshotInv, [Next /\ Quiet']_vars PROVE SnapshotInv'
  OBVIOUS
<1>1. CreditInv /\ CreditInv' /\ TypeOK /\ TypeOK'
  BY CreditStep DEF SnapshotInv, CreditInv
<1>2. CASE UNCHANGED vars
  BY <1>1, <1>2 DEF SnapshotInv, vars, Quiet, Overwriting, OverwritesAlone, Unsettled,
       Hydrating, MissIsFresh, ReferenceIsFresh, User, Ref
<1> SUFFICES ASSUME Next, Quiet' PROVE SnapshotInv'
  BY <1>2
<1>3. req' = req
  BY DEF Next, Request, Work, Fault, GetCached, FindWallet, InsertWallet,
         CommitCredit, Publish, Lua, Hydrate, CallFails, PublishFails, Enqueue, EnqueueLost,
         Take, ApplyDebit, ApplyFails, Complete, Stall, Expire
<1>4. \A c \in Calls : User(c)' = User(c)
  BY <1>3 DEF User
<1> DEFINE Rest ==
      \A c \in Calls :
        pc[c] = "commit" => wallet[User(c)] # Missing /\ seen[c] = wallet[User(c)]
<1>5. Rest
  BY DEF SnapshotInv
<1> SUFFICES Rest'
  BY <1>1 DEF SnapshotInv
<1>6. ASSUME NEW c \in Calls, FindWallet(c) PROVE Rest'
  <2>1. /\ wallet' = wallet
        /\ User(c) \in Users /\ req[c].op \in Ops
    BY <1>1, <1>6, RequestTypes DEF FindWallet, stores
  <2>2. ASSUME NEW d \in Calls, pc'[d] = "commit"
        PROVE  wallet[User(d)] # Missing /\ seen'[d] = wallet[User(d)]
    <3>1. CASE d = c
      BY <1>1, <1>6, <2>1, <2>2, <3>1 DEF FindWallet, Goto, NoWallet, TypeOK
    <3>2. CASE d # c
      BY <1>1, <1>5, <1>6, <2>2, <3>2 DEF FindWallet, Goto, TypeOK
    <3>3. QED
      BY <3>1, <3>2
  <2>3. QED
    BY <1>4, <2>1, <2>2
<1>7. ASSUME NEW c \in Calls, InsertWallet(c) PROVE Rest'
  <2>1. CASE UserTaken(c)
    BY <1>1, <1>4, <1>5, <1>7, <2>1 DEF InsertWallet, Goto, TypeOK
  <2>2. CASE ~UserTaken(c)
    <3>1. /\ wallet' = [wallet EXCEPT ![User(c)] = 0]
          /\ pc' = [pc EXCEPT ![c] = "publish"] /\ seen' = [seen EXCEPT ![c] = 0]
          /\ wallet[User(c)] = Missing
      BY <1>7, <2>2 DEF InsertWallet, Goto, UserTaken
    <3>2. ASSUME NEW d \in Calls, pc'[d] = "commit"
          PROVE  wallet'[User(d)] # Missing /\ seen'[d] = wallet'[User(d)]
      <4>1. d # c /\ pc[d] = "commit"
        BY <1>1, <3>1, <3>2 DEF TypeOK
      <4>2. User(d) # User(c)
        BY <1>5, <3>1, <4>1
      <4>3. QED
        BY <1>1, <1>5, <3>1, <4>1, <4>2 DEF TypeOK
    <3>3. QED
      BY <1>4, <3>2
  <2>3. QED
    BY <2>1, <2>2
<1>8. ASSUME NEW c \in Calls, CommitCredit(c) PROVE Rest'
  <2>1. pc[c] = "commit"
    BY <1>8 DEF CommitCredit
  <2>2. \A d \in Calls : User(d) = User(c) /\ pc[d] = "commit" => d = c
    BY <1>1, <2>1, QuietCredit DEF SnapshotInv
  <2>3. CASE UNCHANGED <<wallet, refs, net, seen>> /\ Goto(c, "failed")
    BY <1>1, <1>4, <1>5, <2>3 DEF Goto, TypeOK
  <2>4. CASE /\ wallet' = [wallet EXCEPT ![User(c)] = seen[c] + Amount(c)]
             /\ seen' = [seen EXCEPT ![c] = seen[c] + Amount(c)]
             /\ Goto(c, "publish")
    <3>1. ASSUME NEW d \in Calls, pc'[d] = "commit"
          PROVE  wallet'[User(d)] # Missing /\ seen'[d] = wallet'[User(d)]
      <4>1. d # c /\ pc[d] = "commit"
        BY <1>1, <2>4, <3>1 DEF Goto, TypeOK
      <4>2. User(d) # User(c)
        BY <2>2, <4>1
      <4>3. QED
        BY <1>1, <1>5, <2>4, <4>1, <4>2 DEF TypeOK
    <3>2. QED
      BY <1>4, <3>1
  <2>5. QED
    BY <1>8, <2>3, <2>4 DEF CommitCredit
<1>9. ASSUME NEW c \in Calls, ApplyDebit(c) PROVE Rest'
  <2>1. \A d \in Calls : User(d) = User(c) => pc[d] # "commit"
    BY <1>1, <1>9, QuietDebit DEF SnapshotInv, ApplyDebit, Unsettled
  <2>2. pc' = pc /\ seen' = seen /\ \A u \in Users : u # User(c) => wallet'[u] = wallet[u]
    BY <1>1, <1>9 DEF ApplyDebit, TypeOK
  <2>3. \A d \in Calls : User(d) \in Users
    BY <1>1, RequestTypes
  <2>4. QED
    BY <1>4, <1>5, <2>1, <2>2, <2>3
<1>10. ASSUME NEW c \in Calls,
              \/ GetCached(c) \/ Publish(c) \/ Lua(c) \/ Hydrate(c) \/ Fault(c)
              \/ Enqueue(c) \/ Take(c) \/ Complete(c)
       PROVE  Rest'
  BY <1>1, <1>4, <1>5, <1>10
     DEF GetCached, Publish, Lua, Hydrate, Fault, CallFails, PublishFails, EnqueueLost,
         ApplyFails, Stall, Enqueue, Take, Complete, Goto, stores, TypeOK
<1>11. ASSUME NEW u \in Users, Expire(u) PROVE Rest'
  BY <1>4, <1>5, <1>11 DEF Expire
<1>12. QED
  BY <1>6, <1>7, <1>8, <1>9, <1>10, <1>11 DEF Next, Request, Work

-----------------------------------------------------------------------------
(* A wallet row moves by money only. *)

(* createWallet, racing with top-ups and debits at every login, never      *)
(* opens an existing row again: a row's balance moves only when a top-up   *)
(* commits or a debit job takes its amount.                                *)
THEOREM MoneyMoves == Spec => OnlyMoneyMoves
<1> DEFINE Moved(u) ==
      \E c \in Calls :
        /\ User(c) = u
        /\ \/ req[c].op = "credit" /\ pc[c] = "commit"
           \/ wallet'[u] = wallet[u] - Amount(c) /\ job[c] = "active"
           Moves == \A u \in Users : wallet[u] # Missing /\ wallet'[u] # wallet[u] => Moved(u)
<1>1. ASSUME CreditInv, Next PROVE Moves
  <2>1. TypeOK
    BY <1>1 DEF CreditInv
  <2>2. ASSUME NEW c \in Calls, InsertWallet(c) PROVE Moves
    BY <2>1, <2>2 DEF InsertWallet, UserTaken, TypeOK
  <2>3. ASSUME NEW c \in Calls, CommitCredit(c) PROVE Moves
    <3>1. req[c].op = "credit" /\ pc[c] = "commit"
      BY <1>1, <2>3 DEF CreditInv, CommitCredit
    <3>2. \A u \in Users : u # User(c) => wallet'[u] = wallet[u]
      BY <2>1, <2>3 DEF CommitCredit, TypeOK
    <3> QED
      BY <3>1, <3>2
  <2>4. ASSUME NEW c \in Calls, ApplyDebit(c) PROVE Moves
    <3>1. job[c] = "active"
      BY <2>4 DEF ApplyDebit
    <3>2. \A u \in Users : \/ wallet'[u] = wallet[u]
                           \/ u = User(c) /\ wallet'[u] = wallet[u] - Amount(c)
      BY <2>1, <2>4 DEF ApplyDebit, TypeOK
    <3> QED
      BY <3>1, <3>2
  <2>5. CASE wallet' = wallet
    BY <2>5
  <2>6. \/ wallet' = wallet
        \/ \E c \in Calls : InsertWallet(c) \/ CommitCredit(c) \/ ApplyDebit(c)
    BY <1>1 DEF Next, Request, Work, Fault, GetCached, FindWallet, Publish, Lua, Hydrate,
         CallFails, PublishFails, Enqueue, EnqueueLost, Take, ApplyFails, Complete, Stall, Expire, stores
  <2> QED
    BY <2>2, <2>3, <2>4, <2>5, <2>6
<1>2. CreditInv /\ [Next]_vars => [Moves]_vars
  BY <1>1
<1>3. Spec => [][Moves]_vars
  BY CreditInit, CreditStep, <1>2, PTL DEF Spec
<1> QED
  BY <1>3 DEF OnlyMoneyMoves

-----------------------------------------------------------------------------
(* What is owed: a sum over the calls, of which a step changes one term. *)

LEMMA DueTypes ==
  ASSUME TypeOK, NEW u, NEW c \in Calls
  PROVE  Due(u)[c] \in Int /\ Due(u)[c] >= 0
BY RequestTypes DEF Due

LEMMA OwedTypes ==
  ASSUME TypeOK, NEW u
  PROVE  /\ Owed(u) \in Int /\ Owed(u) >= 0
         /\ \A c \in Calls : Due(u)[c] <= Owed(u)
<1>1. Owed(u) = SumFunctionOnSet(Due(u), Calls)
  BY DEF Owed, SumFunction, Due
<1>2. \A c \in Calls : Due(u)[c] \in Int /\ Due(u)[c] >= 0
  BY DueTypes
<1> QED
  BY <1>1, <1>2, CallsAssumption, SumType, SumMember

(* Nothing is owed by a user none of whose debits is on its way. *)
LEMMA NothingOwed ==
  ASSUME TypeOK, NEW u, \A c \in Calls : User(c) = u => ~Unsettled(c)
  PROVE  Owed(u) = 0
<1> DEFINE zero == [c \in Calls |-> 0]
<1>1. Due(u) = zero
  BY DEF Due
<1>2. Owed(u) = SumFunctionOnSet(zero, Calls)
  BY <1>1 DEF Owed, SumFunction
<1> QED
  BY <1>2, CallsAssumption, SumZero

(* A step that touches one call's job adds that call's debit to what its   *)
(* user owes, takes it off, or leaves every user's debts alone.            *)
LEMMA OwedStep ==
  ASSUME TypeOK, TypeOK', req' = req, NEW c \in Calls, NEW u,
         \A d \in Calls : d # c => job'[d] = job[d]
  PROVE  Owed(u)' = Owed(u) - Due(u)[c] + Due(u)'[c]
<1>1. Owed(u) = SumFunctionOnSet(Due(u), Calls) /\ Owed(u)' = SumFunctionOnSet(Due(u)', Calls)
  BY DEF Owed, SumFunction, Due
<1>2. \A d \in Calls : Due(u)[d] \in Int /\ Due(u)'[d] \in Int
  <2>1. \A d \in Calls : Due(u)[d] \in Int
    BY DueTypes
  <2>2. \A d \in Calls : Due(u)'[d] \in Int
    <3>1. \A d \in Calls : Amount(d) \in Int
      BY RequestTypes
    <3> QED
      BY <3>1 DEF Due, Amount
  <2> QED
    BY <2>1, <2>2
<1>3. \A d \in Calls : d # c => Due(u)[d] = Due(u)'[d]
  BY DEF Due, Unsettled, User, Amount
<1> QED
  BY <1>1, <1>2, <1>3, CallsAssumption, SumChange
-----------------------------------------------------------------------------
(* Redis promises no more than Postgres can pay, in every quiet behaviour. *)
(* Inductive: a row covers what its user owes; a balance about to be       *)
(* published is the row's; only a finished debit call has a job.           *)

Backed(c) ==
  /\ job[c] # "none" => pc[c] = "done"
  /\ job[c] = "applied" => Ref(c) \in refs
  /\ pc[c] \in {"commit", "hydrate", "publish"} => wallet[User(c)] # Missing
  /\ pc[c] = "publish" => req[c].op # "debit" /\ seen[c] = wallet[User(c)]

Solvent(u) ==
  /\ wallet[u] = Missing => cache[u] = Missing
  /\ wallet[u] # Missing => Owed(u) <= wallet[u]
  /\ cache[u] # Missing => cache[u] <= wallet[u] - Owed(u)

PromiseInv ==
  /\ SnapshotInv
  /\ OverdraftInv
  /\ \A c \in Calls : Backed(c)
  /\ \A u \in Users : Solvent(u)

LEMMA PromiseInit == Init => PromiseInv
<1> SUFFICES ASSUME Init PROVE PromiseInv
  OBVIOUS
<1>1. SnapshotInv /\ OverdraftInv /\ TypeOK
  BY SnapshotInit, OverdraftInit, TypeInit
<1>2. ASSUME NEW c \in Calls PROVE Backed(c)
  <2>1. req[c].op \in Ops
    BY <1>1, RequestTypes
  <2> QED
    BY <2>1 DEF Init, FirstStep, Ops, Backed
<1>3. ASSUME NEW u \in Users PROVE Solvent(u)
  <2>1. Owed(u) = 0
    BY <1>1, NothingOwed DEF Init, Unsettled
  <2>2. cache[u] = Missing
    BY DEF Init
  <2>3. wallet[u] # Missing => wallet[u] \in Int /\ wallet[u] >= 0
    BY OpeningTypes DEF Overdrawn
  <2> QED
    BY <2>1, <2>2, <2>3 DEF Solvent
<1> QED
  BY <1>1, <1>2, <1>3 DEF PromiseInv

(* A user whose Redis key is missing owes nothing while all is quiet, nor  *)
(* does one whose balance is about to be overwritten.                      *)
LEMMA QuietOwed ==
  ASSUME TypeOK, Quiet
  PROVE  /\ \A u \in Users : cache[u] = Missing => Owed(u) = 0
         /\ \A c \in Calls : Overwriting(c) => Owed(User(c)) = 0
<1>1. ASSUME NEW u \in Users, cache[u] = Missing PROVE Owed(u) = 0
  <2>1. \A c \in Calls : User(c) = u => ~Unsettled(c)
    BY <1>1 DEF Quiet, MissIsFresh
  <2> QED
    BY <2>1, NothingOwed
<1>2. ASSUME NEW c \in Calls, Overwriting(c) PROVE Owed(User(c)) = 0
  <2>1. \A d \in Calls : User(d) = User(c) => ~Unsettled(d)
    BY <1>2 DEF Quiet, OverwritesAlone
  <2> QED
    BY <2>1, NothingOwed
<1> QED
  BY <1>1, <1>2

(* What every leaf of the step needs: types, and that requests stay. *)
LEMMA PromiseFacts ==
  ASSUME PromiseInv, Next, Quiet'
  PROVE  /\ TypeOK /\ TypeOK' /\ SnapshotInv' /\ OverdraftInv'
         /\ req' = req
         /\ \A c \in Calls : /\ User(c) \in Users /\ User(c)' = User(c)
                             /\ Amount(c) \in Int /\ Amount(c) > 0 /\ Amount(c)' = Amount(c)
                             /\ Ref(c)' = Ref(c)
         /\ \A u \in Users : Owed(u) \in Int /\ Owed(u) >= 0
         /\ \A u \in Users : /\ wallet[u] # Missing => wallet[u] \in Int
                             /\ cache[u] # Missing => cache[u] \in Int
<1>1. SnapshotInv' /\ OverdraftInv'
  BY SnapshotStep, OverdraftStep DEF PromiseInv
<1>2. TypeOK /\ TypeOK'
  BY <1>1 DEF PromiseInv, OverdraftInv
<1>3. req' = req
  BY DEF Next, Request, Work, Fault, GetCached, FindWallet, InsertWallet,
         CommitCredit, Publish, Lua, Hydrate, CallFails, PublishFails, Enqueue, EnqueueLost,
         Take, ApplyDebit, ApplyFails, Complete, Stall, Expire
<1>4. \A c \in Calls : User(c) \in Users /\ Amount(c) \in Int /\ Amount(c) > 0
  BY <1>2, RequestTypes
<1>5. \A c \in Calls : User(c)' = User(c) /\ Amount(c)' = Amount(c) /\ Ref(c)' = Ref(c)
  BY <1>3 DEF User, Amount, Ref
<1>6. \A u \in Users : Owed(u) \in Int /\ Owed(u) >= 0
  BY <1>2, OwedTypes
<1>7. \A u \in Users : /\ wallet[u] # Missing => wallet[u] \in Int
                       /\ cache[u] # Missing => cache[u] \in Int
  BY <1>2 DEF TypeOK
<1> QED
  BY <1>1, <1>2, <1>3, <1>4, <1>5, <1>6, <1>7

(* The debts of every user while no job moves, and while one does. *)
LEMMA OwedStays ==
  ASSUME TypeOK, TypeOK', req' = req, job' = job, NEW u
  PROVE  Owed(u)' = Owed(u)
<1>1. Due(u)' = Due(u)
  BY DEF Due, Unsettled, User, Amount
<1> QED
  BY <1>1 DEF Owed
LEMMA OwedMoves ==
  ASSUME TypeOK, TypeOK', req' = req, NEW c \in Calls, NEW u \in Users,
         \A d \in Calls : d # c => job'[d] = job[d]
  PROVE  /\ (Unsettled(c)' <=> Unsettled(c)) \/ u # User(c) => Owed(u)' = Owed(u)
         /\ u = User(c) /\ ~Unsettled(c) /\ Unsettled(c)' => Owed(u)' = Owed(u) + Amount(c)
         /\ u = User(c) /\ Unsettled(c) /\ ~Unsettled(c)' => Owed(u)' = Owed(u) - Amount(c)
<1>1. Amount(c) \in Int /\ User(c)' = User(c) /\ Amount(c)' = Amount(c)
  BY RequestTypes DEF User, Amount
<1>2. /\ Due(u)[c] = IF User(c) = u /\ Unsettled(c) THEN Amount(c) ELSE 0
      /\ Due(u)'[c] = IF User(c) = u /\ Unsettled(c)' THEN Amount(c) ELSE 0
  BY <1>1 DEF Due
<1>3. Owed(u)' = Owed(u) - Due(u)[c] + Due(u)'[c]
  BY OwedStep
<1>4. Owed(u) \in Int
  BY OwedTypes
<1> QED
  BY <1>1, <1>2, <1>3, <1>4

(* A step of the queue or its worker that is not the UPDATE itself. *)
Handles(c) ==
  Enqueue(c) \/ Take(c) \/ Complete(c) \/ EnqueueLost(c) \/ ApplyFails(c) \/ Stall(c)

(* Such a step moves no debt while all is quiet: a job that committed is   *)
(* not delivered again, for its reference is in the ledger.                *)
LEMMA JobsKeepDebts ==
  ASSUME PromiseInv, Next, Quiet', NEW c \in Calls, Handles(c)
  PROVE  /\ cache' = cache /\ wallet' = wallet /\ refs' = refs /\ seen' = seen /\ pc' = pc
         /\ job[c] # "none" /\ job'[c] \notin {"none", "applied"}
         /\ \A d \in Calls : d # c => job'[d] = job[d]
         /\ \A u \in Users : Owed(u)' = Owed(u)
<1>1. TypeOK /\ TypeOK' /\ req' = req /\ Ref(c)' = Ref(c)
  BY PromiseFacts
<1>2. Backed(c)
  BY DEF PromiseInv
<1>3. /\ cache' = cache /\ wallet' = wallet /\ refs' = refs /\ seen' = seen /\ pc' = pc
      /\ job[c] \in {"adding", "waiting", "active", "applied"}
      /\ job'[c] \in {"lost", "waiting", "active", "done", "failed"}
      /\ job'[c] = "done" => job[c] = "applied"
      /\ job[c] = "applied" => job'[c] \in {"done", "waiting"}
      /\ \A d \in Calls : d # c => job'[d] = job[d]
  BY <1>1, <1>2
     DEF Handles, Enqueue, Take, Complete, EnqueueLost, ApplyFails, Stall, stores, JobTo,
         TypeOK, AfterFailure
<1>4. ~(job[c] = "applied" /\ job'[c] = "waiting")
  <2>1. SUFFICES ASSUME job[c] = "applied", job'[c] = "waiting" PROVE FALSE
    OBVIOUS
  <2>2. Ref(c) \in refs
    BY <1>2, <2>1 DEF Backed
  <2>3. (Ref(c) \notin refs)'
    BY <2>1 DEF Quiet, Unsettled, ReferenceIsFresh
  <2> QED
    BY <1>1, <1>3, <2>2, <2>3
<1>5. Unsettled(c)' <=> Unsettled(c)
  BY <1>3, <1>4 DEF Unsettled
<1>6. \A u \in Users : Owed(u)' = Owed(u)
  BY <1>1, <1>3, <1>5, OwedMoves
<1> QED
  BY <1>3, <1>6

(* A debit its worker is about to take is covered by the row. *)
LEMMA DebitCovered ==
  ASSUME PromiseInv, NEW c \in Calls, job[c] = "active"
  PROVE  /\ Unsettled(c) /\ Covers(c)
         /\ cache[User(c)] # Missing /\ wallet[User(c)] # Missing /\ wallet[User(c)] \in Int
<1>1. TypeOK /\ User(c) \in Users /\ Amount(c) \in Int
  BY RequestTypes DEF PromiseInv, OverdraftInv
<1>2. Unsettled(c)
  BY DEF Unsettled
<1>3. cache[User(c)] # Missing
  BY <1>2 DEF PromiseInv, SnapshotInv, Quiet, MissIsFresh
<1>4. Solvent(User(c))
  BY <1>1 DEF PromiseInv
<1>5. wallet[User(c)] # Missing /\ wallet[User(c)] \in Int
  BY <1>1, <1>3, <1>4 DEF Solvent, TypeOK
<1>6. Due(User(c))[c] = Amount(c)
  BY <1>2 DEF Due
<1>7. Amount(c) <= Owed(User(c)) /\ Owed(User(c)) \in Int
  BY <1>1, <1>6, OwedTypes
<1>8. Amount(c) <= wallet[User(c)]
  BY <1>1, <1>4, <1>5, <1>7 DEF Solvent
<1> QED
  BY <1>1, <1>2, <1>3, <1>5, <1>8 DEF Covers

LEMMA PromiseStep == PromiseInv /\ [Next /\ Quiet']_vars => PromiseInv'
<1> SUFFICES ASSUME PromiseInv, [Next /\ Quiet']_vars PROVE PromiseInv'
  OBVIOUS
<1>1. CASE UNCHANGED vars
  <2>1. SnapshotInv' /\ OverdraftInv'
    BY SnapshotStep, OverdraftStep DEF PromiseInv
  <2>2. \A u \in Users : Owed(u)' = Owed(u)
    BY <1>1, <2>1, OwedStays DEF PromiseInv, OverdraftInv, vars
  <2>3. \A u \in Users : Solvent(u)'
    BY <1>1, <2>2 DEF PromiseInv, Solvent, vars
  <2> QED
    BY <1>1, <2>1, <2>3 DEF PromiseInv, Backed, User, Ref, vars
<1> SUFFICES ASSUME Next, Quiet' PROVE PromiseInv'
  BY <1>1
<1> DEFINE Good == /\ \A c \in Calls : Backed(c)
                   /\ \A u \in Users : Solvent(u)
<1>2. /\ TypeOK /\ TypeOK' /\ SnapshotInv' /\ OverdraftInv'
      /\ req' = req
      /\ \A c \in Calls : /\ User(c) \in Users /\ User(c)' = User(c)
                          /\ Amount(c) \in Int /\ Amount(c) > 0 /\ Amount(c)' = Amount(c)
                          /\ Ref(c)' = Ref(c)
      /\ \A u \in Users : Owed(u) \in Int /\ Owed(u) >= 0
      /\ \A u \in Users : /\ wallet[u] # Missing => wallet[u] \in Int
                          /\ cache[u] # Missing => cache[u] \in Int
  BY PromiseFacts
<1>3. Good /\ Quiet /\ CreditInv
  BY DEF PromiseInv, SnapshotInv
<1>4. Missing \notin Int
  BY BalanceAssumption
<1>5. SUFFICES Good'
  BY <1>2 DEF PromiseInv
<1>6. /\ \A u \in Users : cache[u] = Missing => Owed(u) = 0
      /\ \A c \in Calls : Overwriting(c) => Owed(User(c)) = 0
  BY <1>2, <1>3, QuietOwed
<1>7. job' = job => \A u \in Users : Owed(u)' = Owed(u)
  BY <1>2, OwedStays
<1>8. ASSUME NEW c \in Calls, GetCached(c) \/ CallFails(c) \/ PublishFails(c) PROVE Good'
  <2>1. /\ cache' = cache /\ wallet' = wallet /\ refs' = refs /\ seen' = seen /\ job' = job
        /\ pc[c] # "done" /\ pc'[c] \in {"read", "done", "failed"}
        /\ \A d \in Calls : d # c => pc'[d] = pc[d]
    BY <1>2, <1>8 DEF GetCached, CallFails, PublishFails, Goto, stores, jobs, TypeOK
  <2>2. \A u \in Users : Solvent(u)'
    BY <1>3, <1>7, <2>1 DEF Solvent
  <2>3. \A d \in Calls : Backed(d)'
    BY <1>2, <1>3, <2>1 DEF Backed
  <2> QED
    BY <1>3, <2>1, <2>2, <2>3
<1>9. ASSUME NEW c \in Calls, FindWallet(c) PROVE Good'
  <2>1. /\ cache' = cache /\ wallet' = wallet /\ refs' = refs /\ job' = job
        /\ pc[c] = "read"
        /\ \A d \in Calls : d # c => pc'[d] = pc[d] /\ seen'[d] = seen[d]
    BY <1>2, <1>9 DEF FindWallet, Goto, stores, jobs, TypeOK
  <2>2. \A u \in Users : Solvent(u)'
    BY <1>3, <1>7, <2>1 DEF Solvent
  <2>3. Backed(c)'
    <3>1. job[c] = "none"
      BY <1>3, <2>1 DEF Backed
    <3>2. CASE NoWallet(c)
      <4>1. pc'[c] \in {"insert", "failed"}
        BY <1>2, <1>9, <3>2 DEF FindWallet, Goto, TypeOK
      <4> QED
        BY <2>1, <3>1, <4>1 DEF Backed
    <3>3. CASE ~NoWallet(c)
      <4>1. pc'[c] = AfterFound[req[c].op] /\ seen'[c] = wallet[User(c)]
        BY <1>2, <1>9, <3>3 DEF FindWallet, Goto, TypeOK
      <4>2. req[c].op \in Ops
        BY <1>2, RequestTypes
      <4>3. pc'[c] = "publish" => req[c].op # "debit"
        BY <4>1, <4>2 DEF AfterFound, Ops
      <4> QED
        BY <1>2, <2>1, <3>1, <3>3, <4>1, <4>3 DEF Backed, NoWallet
    <3> QED
      BY <3>2, <3>3
  <2>4. \A d \in Calls : d # c => Backed(d)'
    BY <1>2, <1>3, <2>1 DEF Backed
  <2> QED
    BY <1>3, <2>1, <2>2, <2>3, <2>4
<1>10. ASSUME NEW c \in Calls, InsertWallet(c) PROVE Good'
  <2>1. /\ cache' = cache /\ refs' = refs /\ job' = job
        /\ pc[c] = "insert" /\ job[c] = "none"
    BY <1>3, <1>10 DEF InsertWallet, jobs, Backed
  <2>2. CASE UserTaken(c)
    <3>1. wallet' = wallet /\ seen' = seen /\ pc' = [pc EXCEPT ![c] = "failed"]
      BY <1>10, <2>2 DEF InsertWallet, Goto
    <3>2. \A u \in Users : Solvent(u)'
      BY <1>3, <1>7, <2>1, <3>1 DEF Solvent
    <3>3. \A d \in Calls : Backed(d)'
      BY <1>2, <1>3, <2>1, <3>1 DEF Backed, TypeOK
    <3> QED
      BY <1>3, <2>1, <3>2, <3>3
  <2>3. CASE ~UserTaken(c)
    <3>1. /\ wallet' = [wallet EXCEPT ![User(c)] = 0] /\ seen' = [seen EXCEPT ![c] = 0]
          /\ pc' = [pc EXCEPT ![c] = "publish"]
          /\ wallet[User(c)] = Missing
      BY <1>10, <2>3 DEF InsertWallet, Goto, UserTaken
    <3>2. \A u \in Users : Solvent(u)'
      BY <1>2, <1>3, <1>4, <1>6, <1>7, <2>1, <3>1 DEF Solvent, TypeOK
    <3>3. req[c].op = "create"
      BY <1>3, <2>1 DEF CreditInv
    <3>4. \A d \in Calls : Backed(d)'
      BY <1>2, <1>3, <1>4, <2>1, <3>1, <3>3 DEF Backed, TypeOK
    <3> QED
      BY <1>3, <2>1, <3>2, <3>4
  <2> QED
    BY <2>2, <2>3
<1>11. ASSUME NEW c \in Calls, CommitCredit(c) PROVE Good'
  <2>1. /\ cache' = cache /\ job' = job /\ pc[c] = "commit" /\ req[c].op = "credit"
        /\ wallet[User(c)] # Missing /\ seen[c] = wallet[User(c)] /\ job[c] = "none"
    BY <1>3, <1>11 DEF CommitCredit, jobs, PromiseInv, SnapshotInv, CreditInv, Backed
  <2>2. CASE UNCHANGED <<wallet, refs, net, seen>> /\ Goto(c, "failed")
    <3>1. \A u \in Users : Solvent(u)'
      BY <1>3, <1>7, <2>1, <2>2 DEF Solvent
    <3>2. \A d \in Calls : Backed(d)'
      BY <1>2, <1>3, <2>1, <2>2 DEF Backed, TypeOK, Goto
    <3> QED
      BY <1>3, <2>1, <3>1, <3>2
  <2>3. CASE /\ wallet' = [wallet EXCEPT ![User(c)] = seen[c] + Amount(c)]
             /\ refs' = refs \cup {Ref(c)}
             /\ seen' = [seen EXCEPT ![c] = seen[c] + Amount(c)]
             /\ Goto(c, "publish")
    <3>1. \A u \in Users : Solvent(u)'
      <4>1. wallet'[User(c)] = wallet[User(c)] + Amount(c)
        BY <1>2, <2>1, <2>3 DEF TypeOK
      <4>2. \A u \in Users : u # User(c) => wallet'[u] = wallet[u]
        BY <1>2, <2>3 DEF TypeOK
      <4> QED
        BY <1>2, <1>3, <1>4, <1>7, <2>1, <4>1, <4>2 DEF Solvent
    <3>2. ASSUME NEW d \in Calls, d # c PROVE Backed(d)'
      <4>1. pc[d] = "publish" => User(d) # User(c)
        <5>1. pc[d] = "publish" => Overwriting(d)
          BY <1>3 DEF Backed, Overwriting
        <5>2. Overwriting(c)
          BY <2>1 DEF Overwriting
        <5> QED
          BY <1>3, <3>2, <5>1, <5>2 DEF Quiet, OverwritesAlone
      <4>2. /\ pc'[d] = pc[d] /\ seen'[d] = seen[d] /\ job'[d] = job[d]
            /\ refs \subseteq refs'
            /\ User(d) # User(c) => wallet'[User(d)] = wallet[User(d)]
            /\ wallet[User(d)] # Missing => wallet'[User(d)] # Missing
        BY <1>2, <1>4, <2>1, <2>3, <3>2 DEF TypeOK, Goto
      <4>3. Backed(d)
        BY <1>3
      <4> QED
        BY <1>2, <4>1, <4>2, <4>3 DEF Backed
    <3>3. Backed(c)'
      <4>1. /\ pc'[c] = "publish" /\ seen'[c] = seen[c] + Amount(c) /\ job'[c] = "none"
            /\ wallet'[User(c)] = seen[c] + Amount(c) /\ seen[c] + Amount(c) \in Int
        BY <1>2, <2>1, <2>3 DEF TypeOK, Goto
      <4> QED
        BY <1>2, <1>4, <2>1, <4>1 DEF Backed
    <3> QED
      BY <1>3, <2>1, <3>1, <3>2, <3>3
  <2> QED
    BY <1>11, <2>2, <2>3 DEF CommitCredit
<1>12. ASSUME NEW c \in Calls, Publish(c) PROVE Good'
  <2>1. /\ wallet' = wallet /\ refs' = refs /\ seen' = seen /\ job' = job
        /\ pc[c] = "publish" /\ pc' = [pc EXCEPT ![c] = "done"]
        /\ cache' = [cache EXCEPT ![User(c)] = seen[c]]
    BY <1>12 DEF Publish, jobs, Goto
  <2>2. seen[c] = wallet[User(c)] /\ wallet[User(c)] # Missing /\ Owed(User(c)) = 0
    BY <1>3, <1>6, <2>1 DEF Backed, Overwriting
  <2>3. \A u \in Users : Solvent(u)'
    BY <1>2, <1>3, <1>7, <2>1, <2>2 DEF Solvent, TypeOK
  <2>4. \A d \in Calls : Backed(d)'
    BY <1>2, <1>3, <2>1 DEF Backed, TypeOK
  <2> QED
    BY <1>3, <2>1, <2>3, <2>4
<1>13. ASSUME NEW c \in Calls, Lua(c) PROVE Good'
  <2>1. /\ wallet' = wallet /\ refs' = refs /\ seen' = seen
        /\ pc[c] \in {"lua", "retry"} /\ job[c] = "none"
    BY <1>3, <1>13 DEF Lua, Backed
  <2>2. CASE cache' = cache /\ job' = job /\ (Goto(c, "failed") \/ Goto(c, "read"))
    <3>1. \A u \in Users : Solvent(u)'
      BY <1>3, <1>7, <2>1, <2>2 DEF Solvent
    <3>2. pc'[c] \in {"failed", "read"} /\ \A d \in Calls : d # c => pc'[d] = pc[d]
      BY <1>2, <2>2 DEF Goto, TypeOK
    <3>3. \A d \in Calls : Backed(d)'
      BY <1>2, <1>3, <2>1, <2>2, <3>2 DEF Backed
    <3> QED
      BY <1>3, <2>2, <3>1, <3>3
  <2>3. CASE /\ cache[User(c)] # Missing /\ Affords(c)
             /\ cache' = [cache EXCEPT ![User(c)] = @ - Amount(c)]
             /\ JobTo(c, "adding") /\ Goto(c, "done")
    <3>1. /\ job'[c] = "adding" /\ pc'[c] = "done"
          /\ \A d \in Calls : d # c => job'[d] = job[d] /\ pc'[d] = pc[d]
          /\ cache[User(c)] \in Int /\ cache[User(c)] >= Amount(c)
          /\ cache'[User(c)] = cache[User(c)] - Amount(c)
          /\ \A u \in Users : u # User(c) => cache'[u] = cache[u]
      BY <1>2, <2>3 DEF JobTo, Goto, TypeOK, Affords
    <3>2. \A u \in Users : u = User(c) => Owed(u)' = Owed(u) + Amount(c)
      BY <1>2, <2>1, <3>1, OwedMoves DEF Unsettled
    <3>3. \A u \in Users : u # User(c) => Owed(u)' = Owed(u)
      BY <1>2, <3>1, OwedMoves
    <3>4. ASSUME NEW u \in Users, u # User(c) PROVE Solvent(u)'
      BY <1>3, <2>1, <3>1, <3>3, <3>4 DEF Solvent
    <3>5. ASSUME NEW u \in Users, u = User(c) PROVE Solvent(u)'
      <4>1. Solvent(u) /\ Amount(c) \in Int /\ Owed(u) \in Int /\ Owed(u)' = Owed(u) + Amount(c)
        BY <1>2, <1>3, <3>2, <3>5
      <4>2. wallet[u] # Missing /\ wallet[u] \in Int
        BY <1>2, <2>3, <3>5, <4>1 DEF Solvent
      <4> QED
        BY <1>4, <2>1, <3>1, <3>5, <4>1, <4>2 DEF Solvent
    <3>6. \A d \in Calls : Backed(d)'
      BY <1>2, <1>3, <2>1, <3>1 DEF Backed
    <3> QED
      BY <1>3, <3>1, <3>4, <3>5, <3>6
  <2> QED
    BY <1>13, <2>2, <2>3 DEF Lua
<1>14. ASSUME NEW c \in Calls, Hydrate(c) PROVE Good'
  <2>1. /\ wallet' = wallet /\ refs' = refs /\ seen' = seen /\ job' = job
        /\ pc[c] = "hydrate" /\ pc' = [pc EXCEPT ![c] = "retry"]
        /\ wallet[User(c)] # Missing /\ job[c] = "none"
    BY <1>3, <1>14 DEF Hydrate, jobs, Goto, Backed
  <2>2. \A d \in Calls : Backed(d)'
    BY <1>2, <1>3, <2>1 DEF Backed, TypeOK
  <2>3. CASE ~MaySet(c)
    <3>1. cache' = cache
      BY <1>14, <2>3 DEF Hydrate
    <3>2. \A u \in Users : Solvent(u)'
      BY <1>3, <1>7, <2>1, <3>1 DEF Solvent
    <3> QED
      BY <1>3, <2>1, <2>2, <3>2
  <2>4. CASE MaySet(c)
    <3>1. cache' = [cache EXCEPT ![User(c)] = seen[c]] /\ cache[User(c)] = Missing
      BY <1>14, <2>4 DEF Hydrate, MaySet
    <3>2. seen[c] = wallet[User(c)] /\ Owed(User(c)) = 0
      BY <1>2, <1>3, <1>6, <2>1, <3>1 DEF Quiet, MissIsFresh
    <3>3. \A u \in Users : Solvent(u)'
      BY <1>2, <1>3, <1>7, <2>1, <3>1, <3>2 DEF Solvent, TypeOK
    <3> QED
      BY <1>3, <2>1, <2>2, <3>3
  <2> QED
    BY <2>3, <2>4
<1>15. ASSUME NEW c \in Calls, Handles(c) PROVE Good'
  <2>1. /\ cache' = cache /\ wallet' = wallet /\ refs' = refs /\ seen' = seen /\ pc' = pc
        /\ job[c] # "none" /\ job'[c] \notin {"none", "applied"}
        /\ \A d \in Calls : d # c => job'[d] = job[d]
        /\ \A u \in Users : Owed(u)' = Owed(u)
    BY <1>15, JobsKeepDebts
  <2>2. pc[c] = "done"
    BY <1>3, <2>1 DEF Backed
  <2>3. \A u \in Users : Solvent(u)'
    BY <1>3, <2>1 DEF Solvent
  <2>4. \A d \in Calls : Backed(d)'
    BY <1>2, <1>3, <2>1, <2>2 DEF Backed
  <2> QED
    BY <1>3, <2>1, <2>3, <2>4
<1>16. ASSUME NEW c \in Calls, ApplyDebit(c) PROVE Good'
  <2>1. /\ cache' = cache /\ seen' = seen /\ pc' = pc /\ job[c] = "active"
    BY <1>16 DEF ApplyDebit
  <2>2. /\ Unsettled(c) /\ Covers(c)
        /\ cache[User(c)] # Missing /\ wallet[User(c)] # Missing /\ wallet[User(c)] \in Int
    BY <2>1, DebitCovered
  <2>3. /\ wallet'[User(c)] = wallet[User(c)] - Amount(c)
        /\ wallet'[User(c)] # Missing
        /\ \A u \in Users : u # User(c) => wallet'[u] = wallet[u]
        /\ refs' = refs \cup {Ref(c)}
        /\ job'[c] = "applied" /\ \A d \in Calls : d # c => job'[d] = job[d]
    BY <1>2, <1>4, <1>16, <2>2 DEF ApplyDebit, JobTo, TypeOK
  <2>4. /\ \A u \in Users : u = User(c) => Owed(u)' = Owed(u) - Amount(c)
        /\ \A u \in Users : u # User(c) => Owed(u)' = Owed(u)
    BY <1>2, <2>2, <2>3, OwedMoves DEF Unsettled
  <2>5. ASSUME NEW u \in Users, u # User(c) PROVE Solvent(u)'
    BY <1>3, <2>1, <2>3, <2>4, <2>5 DEF Solvent
  <2>6. ASSUME NEW u \in Users, u = User(c) PROVE Solvent(u)'
    <3>1. /\ Solvent(u) /\ Amount(c) \in Int /\ Owed(u) \in Int /\ cache[u] \in Int
          /\ wallet[u] \in Int /\ wallet[u] # Missing /\ Owed(u)' = Owed(u) - Amount(c)
          /\ wallet'[u] = wallet[u] - Amount(c)
      BY <1>2, <1>3, <2>2, <2>3, <2>4, <2>6
    <3> QED
      BY <2>1, <2>3, <2>6, <3>1 DEF Solvent
  <2>7. ASSUME NEW d \in Calls PROVE Backed(d)'
    <3>1. pc[d] = "publish" => User(d) # User(c)
      <4>1. pc[d] = "publish" => Overwriting(d)
        BY <1>3 DEF Backed, Overwriting
      <4> QED
        BY <1>3, <2>2, <4>1 DEF Quiet, OverwritesAlone
    <3>2. wallet[User(d)] # Missing => wallet'[User(d)] # Missing
      BY <1>2, <2>3
    <3>3. Backed(d)
      BY <1>3
    <3>4. CASE d = c
      BY <1>2, <2>1, <2>3, <3>1, <3>2, <3>3, <3>4 DEF Backed
    <3>5. CASE d # c
      BY <1>2, <2>1, <2>3, <3>1, <3>2, <3>3, <3>5 DEF Backed
    <3> QED
      BY <3>4, <3>5
  <2> QED
    BY <1>3, <2>3, <2>5, <2>6, <2>7
<1>17. ASSUME NEW u \in Users, Expire(u) PROVE Good'
  <2>1. /\ cache' = [cache EXCEPT ![u] = Missing]
        /\ wallet' = wallet /\ refs' = refs /\ pc' = pc /\ seen' = seen /\ job' = job
    BY <1>17 DEF Expire, jobs
  <2>2. \A v \in Users : Solvent(v)'
    BY <1>2, <1>3, <1>7, <2>1 DEF Solvent, TypeOK
  <2>3. \A d \in Calls : Backed(d)'
    BY <1>2, <1>3, <2>1 DEF Backed
  <2> QED
    BY <1>3, <2>1, <2>2, <2>3
<1> QED
  BY <1>8, <1>9, <1>10, <1>11, <1>12, <1>13, <1>14, <1>15, <1>16, <1>17
     DEF Next, Request, Work, Fault, Handles

(* While no request copies a balance from Postgres to Redis across a debit *)
(* still on its way, Redis never promises more than Postgres holds once    *)
(* every debit it accepted is taken.    *)
THEOREM QuietPromisesKept == QuietSpec => []CacheNeverOverpromises
<1>1. PromiseInv => CacheNeverOverpromises
  BY DEF PromiseInv, Solvent, CacheNeverOverpromises
<1>2. QED
  BY PromiseInit, PromiseStep, <1>1, PTL DEF QuietSpec
-----------------------------------------------------------------------------
(* The books balance in every quiet behaviour.  The worker books a debit   *)
(* whether or not its UPDATE took it, so this rests on the promises: a     *)
(* debit about to be taken is covered by its row.                          *)

BooksInv ==
  /\ PromiseInv
  /\ BooksBalance
  /\ \A u \in Users : wallet[u] = Missing => net[u] = 0

LEMMA BooksInit == Init => BooksInv
BY PromiseInit DEF Init, BooksInv, BooksBalance

LEMMA BooksStep == BooksInv /\ [Next /\ Quiet']_vars => BooksInv'
<1> SUFFICES ASSUME BooksInv, [Next /\ Quiet']_vars PROVE BooksInv'
  OBVIOUS
<1>1. PromiseInv /\ PromiseInv'
  BY PromiseStep DEF BooksInv
<1> DEFINE Agree == \A u \in Users : /\ wallet[u] # Missing => wallet[u] = net[u]
                                     /\ wallet[u] = Missing => net[u] = 0
<1>2. Agree
  BY DEF BooksInv, BooksBalance
<1> SUFFICES Agree'
  BY <1>1 DEF BooksInv, BooksBalance
<1>3. TypeOK /\ \A c \in Calls : User(c) \in Users /\ Amount(c) \in Int
  BY <1>1, RequestTypes DEF PromiseInv, OverdraftInv
<1>4. Missing \notin Int
  BY BalanceAssumption
<1>5. ASSUME NEW c \in Calls, InsertWallet(c) PROVE Agree'
  BY <1>2, <1>3, <1>4, <1>5 DEF InsertWallet, UserTaken, TypeOK
<1>6. ASSUME NEW c \in Calls, CommitCredit(c) PROVE Agree'
  <2>1. wallet[User(c)] # Missing /\ seen[c] = wallet[User(c)]
    BY <1>1, <1>6 DEF CommitCredit, PromiseInv, SnapshotInv
  <2>2. CASE wallet' = wallet /\ net' = net
    BY <1>2, <2>2
  <2>3. CASE /\ wallet' = [wallet EXCEPT ![User(c)] = seen[c] + Amount(c)]
             /\ net' = [net EXCEPT ![User(c)] = @ + Amount(c)]
    BY <1>2, <1>3, <1>4, <2>1, <2>3 DEF TypeOK
  <2> QED
    BY <1>6, <2>2, <2>3 DEF CommitCredit
<1>7. ASSUME NEW c \in Calls, ApplyDebit(c) PROVE Agree'
  <2>1. job[c] = "active" /\ ~ReferenceTaken(c)
    BY <1>1, <1>7, QuietDebit DEF ApplyDebit, PromiseInv, SnapshotInv, Unsettled
  <2>2. Covers(c) /\ wallet[User(c)] # Missing /\ wallet[User(c)] \in Int
    BY <1>1, <2>1, DebitCovered
  <2>3. /\ wallet' = [wallet EXCEPT ![User(c)] = @ - Amount(c)]
        /\ net' = [net EXCEPT ![User(c)] = @ - Amount(c)]
    BY <1>7, <2>1, <2>2 DEF ApplyDebit, Booked
  <2> QED
    BY <1>2, <1>3, <1>4, <2>2, <2>3 DEF TypeOK
<1>8. CASE wallet' = wallet /\ net' = net
  BY <1>2, <1>8
<1>9. \/ wallet' = wallet /\ net' = net
      \/ \E c \in Calls : InsertWallet(c) \/ CommitCredit(c) \/ ApplyDebit(c)
  BY DEF Next, Request, Work, Fault, GetCached, FindWallet, Publish, Lua, Hydrate,
         CallFails, PublishFails, Enqueue, EnqueueLost, Take, ApplyFails, Complete, Stall,
         Expire, stores, vars
<1> QED
  BY <1>5, <1>6, <1>7, <1>8, <1>9

(* While no request copies a balance from Postgres to Redis across a debit *)
(* still on its way, and no debit is delivered again after it committed,   *)
(* every wallet row equals its opening balance plus its credits less its   *)
(* debits: no top-up is lost, and no debit is taken twice or booked        *)
(* without being taken.                                                    *)
THEOREM QuietBooksBalance == QuietSpec => []BooksBalance
<1>1. BooksInv => BooksBalance
  BY DEF BooksInv
<1>2. QED
  BY BooksInit, BooksStep, <1>1, PTL DEF QuietSpec
-----------------------------------------------------------------------------
(* The wallet implements the account. *)

(* A step that moves no row and no debt moves no spendable balance. *)
LEMMA SpendableStays ==
  ASSUME wallet' = wallet, \A u \in Users : Owed(u)' = Owed(u)
  PROVE  Spendable' = Spendable
BY DEF Spendable

LEMMA AccountInit == Init => A!Init
<1> SUFFICES ASSUME Init PROVE A!Init
  OBVIOUS
<1>1. \A u \in Users : Owed(u) = 0
  BY TypeInit, NothingOwed DEF Init, Unsettled
<1>2. \A u \in Users : wallet[u] # Missing => wallet[u] \in Int /\ wallet[u] >= 0
  BY OpeningTypes DEF Overdrawn
<1>3. \A u \in Users : Spendable[u] \in Nat \cup {Missing}
  BY <1>1, <1>2 DEF Spendable
<1> QED
  BY <1>3 DEF A!Init, Spendable

LEMMA AccountStep == PromiseInv /\ [Next /\ Quiet']_vars => [A!Next]_Spendable
<1> SUFFICES ASSUME PromiseInv, [Next /\ Quiet']_vars PROVE [A!Next]_Spendable
  OBVIOUS
<1>1. CASE UNCHANGED vars
  <2>1. TypeOK /\ TypeOK'
    BY PromiseStep DEF PromiseInv, OverdraftInv
  <2>2. \A u \in Users : Owed(u)' = Owed(u)
    BY <1>1, <2>1, OwedStays DEF vars
  <2> QED
    BY <1>1, <2>2, SpendableStays DEF vars
<1> SUFFICES ASSUME Next, Quiet' PROVE [A!Next]_Spendable
  BY <1>1
<1>2. /\ TypeOK /\ TypeOK' /\ req' = req
      /\ \A c \in Calls : User(c) \in Users /\ Amount(c) \in Int /\ Amount(c) \in Amounts
      /\ \A u \in Users : Owed(u) \in Int /\ Owed(u) >= 0
  <2>1. /\ TypeOK /\ TypeOK' /\ req' = req
        /\ \A u \in Users : Owed(u) \in Int /\ Owed(u) >= 0
        /\ \A c \in Calls : User(c) \in Users /\ Amount(c) \in Int
    BY PromiseFacts
  <2>2. \A c \in Calls : Amount(c) \in Amounts
    BY <2>1, RequestAssumption DEF TypeOK, Amount
  <2> QED
    BY <2>1, <2>2
<1>3. Missing \notin Int
  BY BalanceAssumption
<1>4. \A u \in Users : Solvent(u)
  BY DEF PromiseInv
<1>5. job' = job => \A u \in Users : Owed(u)' = Owed(u)
  BY <1>2, OwedStays
<1>6. ASSUME NEW c \in Calls, InsertWallet(c) PROVE [A!Next]_Spendable
  <2>1. job' = job
    BY <1>6 DEF InsertWallet, jobs
  <2>2. CASE UserTaken(c)
    <3>1. wallet' = wallet
      BY <1>6, <2>2 DEF InsertWallet
    <3> QED
      BY <1>5, <2>1, <3>1, SpendableStays
  <2>3. CASE ~UserTaken(c)
    <3>1. wallet' = [wallet EXCEPT ![User(c)] = 0] /\ wallet[User(c)] = Missing
      BY <1>6, <2>3 DEF InsertWallet, UserTaken
    <3>2. Owed(User(c)) = 0
      BY <1>2, <1>4, <3>1, QuietOwed DEF PromiseInv, SnapshotInv, Solvent
    <3>3. \A u \in Users : Spendable'[u] = IF u = User(c) THEN 0 ELSE Spendable[u]
      BY <1>2, <1>3, <1>5, <2>1, <3>1, <3>2 DEF Spendable, TypeOK
    <3>4. Spendable' = [Spendable EXCEPT ![User(c)] = 0] /\ Spendable[User(c)] = Missing
      BY <1>2, <3>1, <3>3 DEF Spendable
    <3> QED
      BY <1>2, <3>4 DEF A!Next, A!Open
  <2> QED
    BY <2>2, <2>3
<1>7. ASSUME NEW c \in Calls, CommitCredit(c) PROVE [A!Next]_Spendable
  <2>1. job' = job /\ wallet[User(c)] # Missing /\ seen[c] = wallet[User(c)]
    BY <1>7 DEF CommitCredit, jobs, PromiseInv, SnapshotInv
  <2>2. CASE wallet' = wallet
    BY <1>5, <2>1, <2>2, SpendableStays
  <2>3. CASE wallet' = [wallet EXCEPT ![User(c)] = seen[c] + Amount(c)]
    <3>1. wallet[User(c)] \in Int /\ wallet'[User(c)] = wallet[User(c)] + Amount(c)
      BY <1>2, <2>1, <2>3 DEF TypeOK
    <3>2. \A u \in Users : u # User(c) => wallet'[u] = wallet[u]
      BY <1>2, <2>3 DEF TypeOK
    <3>3. \A u \in Users :
            Spendable'[u] = IF u = User(c) THEN Spendable[u] + Amount(c) ELSE Spendable[u]
      BY <1>2, <1>3, <1>5, <2>1, <3>1, <3>2 DEF Spendable
    <3>4. /\ Spendable' = [Spendable EXCEPT ![User(c)] = @ + Amount(c)]
          /\ Spendable[User(c)] # Missing
      BY <1>2, <1>3, <2>1, <3>1, <3>3 DEF Spendable
    <3> QED
      BY <1>2, <3>4 DEF A!Next, A!TopUp
  <2> QED
    BY <1>7, <2>2, <2>3 DEF CommitCredit
<1>8. ASSUME NEW c \in Calls, Lua(c) PROVE [A!Next]_Spendable
  <2>1. wallet' = wallet
    BY <1>8 DEF Lua
  <2>2. CASE job' = job
    BY <1>5, <2>1, <2>2, SpendableStays
  <2>3. CASE cache[User(c)] # Missing /\ Affords(c) /\ JobTo(c, "adding")
    <3>1. job[c] = "none"
      BY <1>8 DEF Lua, PromiseInv, Backed
    <3>2. job'[c] = "adding" /\ \A d \in Calls : d # c => job'[d] = job[d]
      BY <1>2, <2>3 DEF JobTo, TypeOK
    <3>3. \A u \in Users : Owed(u)' = IF u = User(c) THEN Owed(u) + Amount(c) ELSE Owed(u)
      BY <1>2, <3>1, <3>2, OwedMoves DEF Unsettled
    <3>4. /\ wallet[User(c)] # Missing /\ wallet[User(c)] \in Int
          /\ Amount(c) <= wallet[User(c)] - Owed(User(c))
      BY <1>2, <1>4, <2>3 DEF Solvent, Affords, TypeOK
    <3>5. \A u \in Users :
            Spendable'[u] = IF u = User(c) THEN Spendable[u] - Amount(c) ELSE Spendable[u]
      BY <1>2, <2>1, <3>3, <3>4 DEF Spendable
    <3>6. /\ Spendable' = [Spendable EXCEPT ![User(c)] = @ - Amount(c)]
          /\ Spendable[User(c)] # Missing /\ Amount(c) <= Spendable[User(c)]
      BY <1>2, <1>3, <3>4, <3>5 DEF Spendable
    <3> QED
      BY <1>2, <3>6 DEF A!Next, A!Spend
  <2> QED
    BY <1>8, <2>2, <2>3 DEF Lua
<1>9. ASSUME NEW c \in Calls, ApplyDebit(c) PROVE [A!Next]_Spendable
  <2>1. /\ Unsettled(c) /\ Covers(c)
        /\ wallet[User(c)] # Missing /\ wallet[User(c)] \in Int
    BY <1>9, DebitCovered DEF ApplyDebit
  <2>2. /\ wallet'[User(c)] = wallet[User(c)] - Amount(c)
        /\ \A u \in Users : u # User(c) => wallet'[u] = wallet[u]
        /\ job'[c] = "applied" /\ \A d \in Calls : d # c => job'[d] = job[d]
    BY <1>2, <1>9, <2>1 DEF ApplyDebit, JobTo, TypeOK
  <2>3. \A u \in Users : Owed(u)' = IF u = User(c) THEN Owed(u) - Amount(c) ELSE Owed(u)
    BY <1>2, <2>1, <2>2, OwedMoves DEF Unsettled
  <2>4. \A u \in Users : Spendable'[u] = Spendable[u]
    BY <1>2, <1>3, <2>1, <2>2, <2>3 DEF Spendable
  <2> QED
    BY <2>4 DEF Spendable
<1>10. ASSUME NEW c \in Calls, Handles(c) PROVE [A!Next]_Spendable
  BY <1>10, JobsKeepDebts, SpendableStays
<1>11. CASE wallet' = wallet /\ job' = job
  BY <1>5, <1>11, SpendableStays
<1>12. \/ wallet' = wallet /\ job' = job
       \/ \E c \in Calls :
            InsertWallet(c) \/ CommitCredit(c) \/ Lua(c) \/ ApplyDebit(c) \/ Handles(c)
  BY DEF Next, Request, Work, Fault, Handles, GetCached, FindWallet, Publish, Hydrate,
         CallFails, PublishFails, Expire, stores, jobs
<1> QED
  BY <1>6, <1>7, <1>8, <1>9, <1>10, <1>11, <1>12

(* While all is quiet, whatever the cache, the queue and their failures    *)
(* do, the holder of a wallet sees an account: debits are charged when     *)
(* Redis accepts them, only if covered, and nothing else takes money.      *)
THEOREM WalletIsAccount == QuietSpec => ImplementsAccount
<1>1. QuietSpec => A!Init /\ [][A!Next]_Spendable
  BY PromiseInit, PromiseStep, AccountInit, AccountStep, PTL DEF QuietSpec
<1> QED
  BY <1>1 DEF ImplementsAccount, A!Spec
=============================================================================
