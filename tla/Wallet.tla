---------------------------- MODULE Wallet ----------------------------
(* WalletService and WalletProcessor.  A balance lives twice: in Redis     *)
(* (wallet:<user>:balance, read and debited on the request path) and in    *)
(* the Postgres wallets row.  A debit changes Redis at once and reaches    *)
(* Postgres later, through a BullMQ job; a top-up changes Postgres and     *)
(* then overwrites Redis.  Every await of a request is a step of its own,  *)
(* so requests, jobs, key expiry and failures interleave freely.           *)
EXTENDS Integers, FiniteSets, Functions

CONSTANTS
  Users,         \* wallet owners
  Calls,         \* API requests in progress
  Refs,          \* transaction references
  Requests,      \* what a call may ask: [op, user, amount, ref]
  Openings,      \* balances a wallet may have when the model starts
  MaxBalance,    \* largest value of the int column wallets.balance
  MaxAttempts,   \* BullMQ attempts of a debit job (10 in the code)
  MaxFaults,     \* bound: failed calls, failed transactions and stalls
  Missing        \* no Redis key / no wallets row

Ops == {"create", "balance", "credit", "debit", "sync"}
Amounts == 1..MaxBalance

ASSUME BalanceAssumption ==
  /\ MaxBalance \in Nat
  /\ Missing \notin Int
  /\ Openings \subseteq 0..MaxBalance
ASSUME RequestAssumption ==
  Requests \subseteq [op : Ops, user : Users, amount : Amounts, ref : Refs]
ASSUME CallsAssumption == IsFiniteSet(Calls)
ASSUME BoundAssumption == MaxAttempts \in Nat \ {0} /\ MaxFaults \in Nat

VARIABLES
  cache,     \* Redis balance of each user, or Missing
  expires,   \* users whose Redis key carries a TTL
  wallet,    \* wallets.balance of each user, or Missing
  refs,      \* references of the wallet_transactions rows (unique column)
  net,       \* opening balance plus credits minus debits of a user's rows
  req,       \* what each call asks for; never changes
  pc,        \* the await each call is at
  seen,      \* the balance each call holds in a local variable
  job,       \* each debit call's job on the wallet queue
  tries,     \* failed attempts of each job
  faults     \* faults so far

vars == <<cache, expires, wallet, refs, net, req, pc, seen, job, tries, faults>>

User(c) == req[c].user
Amount(c) == req[c].amount
Ref(c) == req[c].ref

(* The first await of an operation, and the one after it has found a row. *)
FirstStep == [create |-> "read", balance |-> "get", credit |-> "read",
              debit |-> "lua", sync |-> "read"]
AfterFound == [create |-> "done", balance |-> "publish", credit |-> "commit",
               debit |-> "hydrate", sync |-> "publish"]

JobStates == {"none", "adding", "lost", "waiting", "active",
              "applied", "done", "failed"}
Steps == {"get", "lua", "read", "insert", "commit", "hydrate", "retry",
          "publish", "done", "failed"}

Init ==
  /\ wallet \in [Users -> Openings \cup {Missing}]
  /\ net = [u \in Users |-> IF wallet[u] = Missing THEN 0 ELSE wallet[u]]
  /\ cache = [u \in Users |-> Missing]
  /\ expires = {}
  /\ refs = {}
  /\ req \in [Calls -> Requests]
  /\ pc = [c \in Calls |-> FirstStep[req[c].op]]
  /\ seen = [c \in Calls |-> 0]
  /\ job = [c \in Calls |-> "none"]
  /\ tries = [c \in Calls |-> 0]
  /\ faults = 0

Goto(c, step) == pc' = [pc EXCEPT ![c] = step]
JobTo(c, state) == job' = [job EXCEPT ![c] = state]

stores == <<cache, expires, wallet, refs, net>>
jobs == <<job, tries>>

-----------------------------------------------------------------------------
(* Checks the stores and the script make.  The variant above each of some  *)
(* of them makes one mistake, for the properties to notice.                *)

AssumeWallet(c) == FALSE
NoWallet(c) == wallet[User(c)] = Missing            \* findOne found no row

AcceptDuplicateUser(c) == FALSE
UserTaken(c) == wallet[User(c)] # Missing           \* unique user_id

AcceptDuplicateReference(c) == FALSE
ReferenceTaken(c) == Ref(c) \in refs                \* unique reference

AlwaysAfford(c) == TRUE
Affords(c) == cache[User(c)] >= Amount(c)           \* the script's comparison

AlwaysSet(c) == TRUE
MaySet(c) == cache[User(c)] = Missing               \* NX

CoversAnything(c) == wallet[User(c)] # Missing
Covers(c) == wallet[User(c)] # Missing /\ wallet[User(c)] >= Amount(c)

NotBooked(c) == 0
Booked(c) == IF ReferenceTaken(c) THEN 0 ELSE Amount(c)  \* ON CONFLICT DO NOTHING

AttemptOnce(c) == "failed"
AfterFailure(c) ==                                  \* attempts, with backoff
  IF tries[c] + 1 < MaxAttempts THEN "waiting" ELSE "failed"

-----------------------------------------------------------------------------
(* Requests *)

(* getBalance: a hit answers from Redis. *)
GetCached(c) ==
  /\ pc[c] = "get"
  /\ Goto(c, IF cache[User(c)] = Missing THEN "read" ELSE "done")
  /\ UNCHANGED <<stores, jobs, req, seen, faults>>

(* The findOne every operation makes, and what each does with the row.  It *)
(* takes no lock: the row may change before the next step.                 *)
FindWallet(c) ==
  /\ pc[c] = "read"
  /\ IF NoWallet(c)
     THEN /\ Goto(c, IF req[c].op = "create" THEN "insert" ELSE "failed")
          /\ UNCHANGED seen
     ELSE /\ Goto(c, AfterFound[req[c].op])
          /\ seen' = [seen EXCEPT ![c] = wallet[User(c)]]
  /\ UNCHANGED <<stores, jobs, req, faults>>

(* createWallet's insert: the unique user_id column fails the later of two. *)
InsertWallet(c) ==
  /\ pc[c] = "insert"
  /\ IF UserTaken(c)
     THEN /\ Goto(c, "failed")
          /\ UNCHANGED <<wallet, seen>>
     ELSE /\ wallet' = [wallet EXCEPT ![User(c)] = 0]
          /\ seen' = [seen EXCEPT ![c] = 0]
          /\ Goto(c, "publish")
  /\ UNCHANGED <<cache, expires, refs, net, jobs, req, faults>>

(* credit's transaction after its read: the absolute balance computed from *)
(* the row read earlier is saved together with the ledger row; an integer  *)
(* overflow or a reference already used rolls both back.                   *)
CommitCredit(c) ==
  LET sum == seen[c] + Amount(c)
  IN  /\ pc[c] = "commit"
      /\ IF sum > MaxBalance \/ ReferenceTaken(c)
         THEN /\ Goto(c, "failed")
              /\ UNCHANGED <<wallet, refs, net, seen>>
         ELSE /\ wallet' = [wallet EXCEPT ![User(c)] = sum]
              /\ refs' = refs \cup {Ref(c)}
              /\ net' = [net EXCEPT ![User(c)] = @ + Amount(c)]
              /\ seen' = [seen EXCEPT ![c] = sum]
              /\ Goto(c, "publish")
      /\ UNCHANGED <<cache, expires, jobs, req, faults>>

(* The unconditional SET that ends createWallet, getBalance on a miss,     *)
(* credit and syncWallet; getBalance and credit give the key a TTL.        *)
Publish(c) ==
  /\ pc[c] = "publish"
  /\ cache' = [cache EXCEPT ![User(c)] = seen[c]]
  /\ expires' = IF req[c].op \in {"balance", "credit"}
                THEN expires \cup {User(c)}
                ELSE expires \ {User(c)}
  /\ Goto(c, "done")
  /\ UNCHANGED <<wallet, refs, net, jobs, req, seen, faults>>

(* debit's Lua script: GET, compare and DECRBY in one round trip.  Success *)
(* answers the caller and starts walletQueue.add without awaiting it.      *)
Lua(c) ==
  /\ pc[c] \in {"lua", "retry"}
  /\ \/ /\ cache[User(c)] = Missing
        /\ Goto(c, IF pc[c] = "lua" THEN "read" ELSE "failed")
        /\ UNCHANGED <<cache, job>>
     \/ /\ cache[User(c)] # Missing
        /\ ~Affords(c)
        /\ Goto(c, "failed")
        /\ UNCHANGED <<cache, job>>
     \/ /\ cache[User(c)] # Missing
        /\ Affords(c)
        /\ cache' = [cache EXCEPT ![User(c)] = @ - Amount(c)]
        /\ JobTo(c, "adding")
        /\ Goto(c, "done")
  /\ UNCHANGED <<expires, wallet, refs, net, req, seen, tries, faults>>

(* debit's SET EX NX of the balance read from the database. *)
Hydrate(c) ==
  /\ pc[c] = "hydrate"
  /\ IF MaySet(c)
     THEN /\ cache' = [cache EXCEPT ![User(c)] = seen[c]]
          /\ expires' = expires \cup {User(c)}
     ELSE UNCHANGED <<cache, expires>>
  /\ Goto(c, "retry")
  /\ UNCHANGED <<wallet, refs, net, jobs, req, seen, faults>>

(* A failed SET of getBalance or credit is logged, and the caller is       *)
(* answered all the same.                                                  *)
PublishFails(c) ==
  /\ pc[c] = "publish"
  /\ req[c].op \in {"balance", "credit"}
  /\ faults < MaxFaults
  /\ faults' = faults + 1
  /\ Goto(c, "done")
  /\ UNCHANGED <<stores, jobs, req, seen>>

(* A request dies at one of its awaits: a store refuses, or the process    *)
(* crashes.  A transaction not yet committed leaves nothing behind.        *)
CallFails(c) ==
  /\ pc[c] \notin {"done", "failed"}
  /\ faults < MaxFaults
  /\ faults' = faults + 1
  /\ Goto(c, "failed")
  /\ UNCHANGED <<stores, jobs, req, seen>>

-----------------------------------------------------------------------------
(* The wallet queue and its worker *)

(* walletQueue.add settles after debit has returned. *)
Enqueue(c) ==
  /\ job[c] = "adding"
  /\ JobTo(c, "waiting")
  /\ UNCHANGED <<stores, req, pc, seen, tries, faults>>

(* The add is rejected, or the process crashes before it is sent: nobody   *)
(* awaits it, so the debit exists in Redis only.                           *)
EnqueueLost(c) ==
  /\ job[c] = "adding"
  /\ faults < MaxFaults
  /\ faults' = faults + 1
  /\ JobTo(c, "lost")
  /\ UNCHANGED <<stores, req, pc, seen, tries>>

(* Twenty jobs run at once, so any waiting job may be picked. *)
Take(c) ==
  /\ job[c] = "waiting"
  /\ JobTo(c, "active")
  /\ UNCHANGED <<stores, req, pc, seen, tries, faults>>

(* The job's transaction: the guarded UPDATE, then the INSERT that ignores *)
(* a reference already present.  The check between them never fires:       *)
(* TypeORM answers an UPDATE with [rows, count], and rows is an array, if  *)
(* an empty one.  The ledger row is written whether or not the UPDATE      *)
(* found a balance to take the amount from.                                *)
ApplyDebit(c) ==
  /\ job[c] = "active"
  /\ wallet' = IF Covers(c) THEN [wallet EXCEPT ![User(c)] = @ - Amount(c)] ELSE wallet
  /\ net' = [net EXCEPT ![User(c)] = @ - Booked(c)]
  /\ refs' = refs \cup {Ref(c)}
  /\ JobTo(c, "applied")
  /\ UNCHANGED <<cache, expires, req, pc, seen, tries, faults>>

(* The transaction throws and rolls back: BullMQ retries until the last    *)
(* attempt has failed.                                                     *)
ApplyFails(c) ==
  /\ job[c] = "active"
  /\ faults < MaxFaults
  /\ faults' = faults + 1
  /\ tries' = [tries EXCEPT ![c] = @ + 1]
  /\ JobTo(c, AfterFailure(c))
  /\ UNCHANGED <<stores, req, pc, seen>>

(* The worker reports completion. *)
Complete(c) ==
  /\ job[c] = "applied"
  /\ JobTo(c, "done")
  /\ UNCHANGED <<stores, req, pc, seen, tries, faults>>

(* The worker dies, or stops renewing its lock, before it has reported:    *)
(* the stalled job is delivered again whether or not it had committed.     *)
Stall(c) ==
  /\ job[c] \in {"active", "applied"}
  /\ faults < MaxFaults
  /\ faults' = faults + 1
  /\ JobTo(c, "waiting")
  /\ UNCHANGED <<stores, req, pc, seen, tries>>

(* A Redis key reaches its TTL. *)
Expire(u) ==
  /\ u \in expires
  /\ cache' = [cache EXCEPT ![u] = Missing]
  /\ expires' = expires \ {u}
  /\ UNCHANGED <<wallet, refs, net, req, pc, seen, jobs, faults>>

Request(c) ==
  \/ GetCached(c) \/ FindWallet(c) \/ InsertWallet(c) \/ CommitCredit(c)
  \/ Publish(c) \/ Lua(c) \/ Hydrate(c)

Work(c) == Enqueue(c) \/ Take(c) \/ ApplyDebit(c) \/ Complete(c)

Fault(c) ==
  CallFails(c) \/ PublishFails(c) \/ EnqueueLost(c) \/ ApplyFails(c) \/ Stall(c)

Next ==
  \/ \E c \in Calls : Request(c) \/ Work(c) \/ Fault(c)
  \/ \E u \in Users : Expire(u)

Spec == Init /\ [][Next]_vars

(* BullMQ keeps polling its queue and its workers keep running; nothing    *)
(* obliges a client to ask, a key to expire or a fault to happen.          *)
FairSpec ==
  Spec /\ \A c \in Calls : WF_vars(Work(c))

-----------------------------------------------------------------------------
(* Properties of every behaviour *)

(* Every variable has its type. *)
TypeOK ==
  /\ cache \in [Users -> Int \cup {Missing}]
  /\ expires \in SUBSET Users
  /\ wallet \in [Users -> Int \cup {Missing}]
  /\ refs \in SUBSET Refs
  /\ net \in [Users -> Int]
  /\ req \in [Calls -> Requests]
  /\ pc \in [Calls -> Steps]
  /\ seen \in [Calls -> Int]
  /\ job \in [Calls -> JobStates]
  /\ tries \in [Calls -> Nat]
  /\ faults \in 0..MaxFaults

(* No balance is ever negative, in Redis or in Postgres: the script and    *)
(* the UPDATE guard each subtraction, and every snapshot written back was  *)
(* itself a balance.                                                       *)
Overdrawn(b) == b # Missing /\ b < 0
NeverOverdrawn == \A u \in Users : ~Overdrawn(cache[u]) /\ ~Overdrawn(wallet[u])

(* A top-up sent twice with one payment reference is credited once,        *)
(* however the two requests interleave.                                    *)
CreditedOnce ==
  \A c, d \in Calls :
    /\ c # d /\ Ref(c) = Ref(d)
    /\ req[c].op = "credit" /\ req[d].op = "credit"
    => ~({pc[c], pc[d]} \subseteq {"publish", "done"})

(* An existing wallet row is never opened again: its balance moves only    *)
(* when a top-up commits or a debit job takes its amount, whatever number  *)
(* of createWallet calls (one per login) race with them.                   *)
OnlyMoneyMoves ==
  [][\A u \in Users : wallet[u] # Missing /\ wallet'[u] # wallet[u] =>
       \E c \in Calls :
         /\ User(c) = u
         /\ \/ req[c].op = "credit" /\ pc[c] = "commit"
            \/ wallet'[u] = wallet[u] - Amount(c) /\ job[c] = "active"]_vars

(* A debit the queue holds ends in the ledger, through failed attempts,    *)
(* stalls and redeliveries, unless every attempt it has failed.            *)
QueuedDebitSettles ==
  \A c \in Calls :
    job[c] = "waiting" ~> \/ job[c] = "done" /\ Ref(c) \in refs
                          \/ job[c] = "failed" /\ tries[c] = MaxAttempts

(* What a debit job books it has taken from the row in the same            *)
(* transaction.  False when money was spent twice: the job that finds too  *)
(* little leaves the row alone and books its debit as a success.           *)
LedgerDebitsTaken ==
  [][\A u \in Users :
       net'[u] < net[u] =>
         wallet[u] # Missing /\ wallet[u] - wallet'[u] = net[u] - net'[u]]_vars

-----------------------------------------------------------------------------
(* Properties of the two stores together.  They hold only while no request *)
(* that copies the Postgres balance into Redis overlaps a debit that has   *)
(* not reached Postgres yet: QuietSpec.                                    *)

(* Accepted by Redis, not taken from Postgres (lost and failed: never). *)
Unsettled(c) == job[c] \in {"adding", "lost", "waiting", "active", "failed"}

Overwriting(c) == req[c].op # "debit" /\ pc[c] \in {"insert", "commit", "publish"}
Hydrating(c) == req[c].op = "debit" /\ pc[c] \in {"read", "hydrate", "retry"}

OverwritesAlone(c) ==
  \A d \in Calls : User(d) = User(c) =>
    /\ ~Unsettled(d)
    /\ d # c => ~Overwriting(d) /\ ~Hydrating(d)

MissIsFresh(c) ==
  cache[User(c)] = Missing =>
    /\ ~Unsettled(c)
    /\ pc[c] = "hydrate" => seen[c] = wallet[User(c)]

ReferenceIsFresh(c) ==
  /\ Ref(c) \notin refs
  /\ \A d \in Calls : d # c /\ Unsettled(d) => Ref(d) # Ref(c)

Quiet ==
  \A c \in Calls :
    /\ Overwriting(c) => OverwritesAlone(c)
    /\ MissIsFresh(c)
    /\ Unsettled(c) => ReferenceIsFresh(c)

QuietSpec == Init /\ [][Next /\ Quiet']_vars

(* What Redis has taken from a user and Postgres has not yet. *)
Due(u) == [c \in Calls |-> IF User(c) = u /\ Unsettled(c) THEN Amount(c) ELSE 0]
Owed(u) == SumFunction(Due(u))

(* The books balance: a wallet row is its opening balance plus the credits *)
(* minus the debits of the ledger.                                         *)
BooksBalance == \A u \in Users : wallet[u] # Missing => wallet[u] = net[u]

(* Redis never promises more than Postgres holds once every accepted debit *)
(* is taken.                                                               *)
CacheNeverOverpromises ==
  \A u \in Users : cache[u] # Missing => cache[u] <= wallet[u] - Owed(u)
=============================================================================
