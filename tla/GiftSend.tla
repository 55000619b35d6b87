---------------------------- MODULE GiftSend ----------------------------
(* GiftService.sendGift and GiftPersistProcessor.  A send takes a Redis     *)
(* lock on its reference, debits the giver, queues the gift for Postgres,   *)
(* adds it to the leaderboard and answers; any failure after the lock       *)
(* deletes the lock and is rethrown.  Each await is a step, and each may    *)
(* fail with or without its effect.  WalletService.debit appears as the     *)
(* Account it implements (see Wallet and WalletAccount).                    *)
(* The 24 h TTL of a lock is longer than anything modelled here.            *)
EXTENDS Integers, FiniteSets, Functions

CONSTANTS
  Guests,
  Gifts,        \* what guests mean to give: one spray of notes each
  Giver,        \* the guest of each gift
  Price,        \* its amount
  Sends,        \* POST /gift-room/gift requests; a retry is a second send
  Refs,         \* references
  Openings,     \* initial balances, Missing among them or not
  Missing,      \* no wallet
  MaxAttempts,  \* BullMQ attempts of a persist job (10 in the code)
  MaxFaults     \* bound: failures, lost replies, crashes and stalls

ASSUME GiftAssumption == Giver \in [Gifts -> Guests] /\ Price \in [Gifts -> Nat \ {0}]
ASSUME SendsAssumption == IsFiniteSet(Sends)
ASSUME BoundAssumption ==
  Openings \subseteq Nat \cup {Missing} /\ Missing \notin Int /\ MaxAttempts \in Nat \ {0} /\ MaxFaults \in Nat

VARIABLES
  gift,      \* the gift each send is for
  ref,       \* its reference
  pc,        \* the await each send is at
  lock,      \* references with a gift:lock key
  balance,   \* spendable balance of each guest
  charged,   \* sends whose debit took the money
  job,       \* each send's job on the gifts-persist queue
  tries,     \* its failed attempts
  rows,      \* references of the gifts rows (unique transactionId)
  score,     \* event:<id>:lb, the points of each guest
  total,     \* event:<id>:total_score
  count,     \* event:<id>:gift_count
  faults

board == <<score, total, count>>
work == <<job, tries, rows>>
vars == <<gift, ref, pc, lock, balance, charged, work, board, faults>>

Amount(s) == Price[gift[s]]
Guest(s) == Giver[gift[s]]

InFlight == {"debit", "enqueue", "score", "undo"}     \* past the lock, not ended
Steps == {"lock", "ignored", "done", "failed"} \cup InFlight
JobStates == {"none", "waiting", "saved", "done", "failed"}

Init ==
  /\ gift \in [Sends -> Gifts]
  /\ ref \in [Sends -> Refs]
  /\ \A s, t \in Sends : ref[s] = ref[t] => gift[s] = gift[t]
  /\ pc = [s \in Sends |-> "lock"]
  /\ lock = {}
  /\ balance \in [Guests -> Openings]
  /\ charged = {}
  /\ job = [s \in Sends |-> "none"]
  /\ tries = [s \in Sends |-> 0]
  /\ rows = {}
  /\ score = [g \in Guests |-> 0]
  /\ total = 0
  /\ count = 0
  /\ faults = 0

Goto(s, step) == pc' = [pc EXCEPT ![s] = step]
JobTo(s, state) == job' = [job EXCEPT ![s] = state]
Faulty == faults < MaxFaults /\ faults' = faults + 1

-----------------------------------------------------------------------------
(* What the stores check and change.  The variant above some of them makes  *)
(* one mistake, for the properties to notice.                               *)

NeverLocked(s) == FALSE
Locked(s) == ref[s] \in lock                              \* SET NX refused

Covered(s) == balance[Guest(s)] # Missing /\ balance[Guest(s)] >= Amount(s)

Take(s) ==
  /\ balance' = [balance EXCEPT ![Guest(s)] = @ - Amount(s)]
  /\ charged' = charged \cup {s}

OverwriteScore(s) == [score EXCEPT ![Guest(s)] = Amount(s)]
RaiseScore(s) == [score EXCEPT ![Guest(s)] = @ + Amount(s)]   \* ZINCRBY

(* addGiftFull's pipeline, or the part of it that ran. *)
AddGift(s, inScore, inTotal, inCount) ==
  /\ score' = IF inScore THEN RaiseScore(s) ELSE score
  /\ total' = IF inTotal THEN total + Amount(s) ELSE total
  /\ count' = IF inCount THEN count + 1 ELSE count

-----------------------------------------------------------------------------
(* sendGift *)

AcquireLock(s) ==
  /\ pc[s] = "lock"
  /\ IF Locked(s)
     THEN /\ Goto(s, "ignored")
          /\ UNCHANGED lock
     ELSE /\ lock' = lock \cup {ref[s]}
          /\ Goto(s, "debit")
  /\ UNCHANGED <<gift, ref, balance, charged, work, board, faults>>

(* The SET fails, before or after it took the lock; sendGift has not yet    *)
(* entered its try block, so nobody deletes the lock.                       *)
LockFails(s) ==
  /\ pc[s] = "lock"
  /\ Faulty
  /\ lock' \in {lock, lock \cup {ref[s]}}
  /\ Goto(s, "failed")
  /\ UNCHANGED <<gift, ref, balance, charged, work, board>>

(* walletService.debit takes the money, or throws: too little, no wallet.   *)
IgnoreRefusal(s) == "enqueue"
Refused(s) == "undo"
Debit(s) ==
  /\ pc[s] = "debit"
  /\ IF Covered(s)
     THEN Take(s) /\ Goto(s, "enqueue")
     ELSE Goto(s, Refused(s)) /\ UNCHANGED <<balance, charged>>
  /\ UNCHANGED <<gift, ref, lock, work, board, faults>>

(* The debit fails, before the script ran or after, its reply lost. *)
DebitFails(s) ==
  /\ pc[s] = "debit"
  /\ Faulty
  /\ \/ UNCHANGED <<balance, charged>>
     \/ Covered(s) /\ Take(s)
  /\ Goto(s, "undo")
  /\ UNCHANGED <<gift, ref, lock, work, board>>

Enqueue(s) ==
  /\ pc[s] = "enqueue"
  /\ JobTo(s, "waiting")
  /\ Goto(s, "score")
  /\ UNCHANGED <<gift, ref, lock, balance, charged, tries, rows, board, faults>>

EnqueueFails(s) ==
  /\ pc[s] = "enqueue"
  /\ Faulty
  /\ job' \in {job, [job EXCEPT ![s] = "waiting"]}
  /\ Goto(s, "undo")
  /\ UNCHANGED <<gift, ref, lock, balance, charged, tries, rows, board>>

(* The pipeline runs and the answer goes out; broadcastGift is not awaited. *)
Score(s) ==
  /\ pc[s] = "score"
  /\ AddGift(s, TRUE, TRUE, TRUE)
  /\ Goto(s, "done")
  /\ UNCHANGED <<gift, ref, lock, balance, charged, work, faults>>

(* A command of the pipeline fails, or its reply is lost: the pipeline is   *)
(* no transaction, so any of its commands may have run.                     *)
ScoreFails(s) ==
  /\ pc[s] = "score"
  /\ Faulty
  /\ \E inScore, inTotal, inCount \in BOOLEAN : AddGift(s, inScore, inTotal, inCount)
  /\ Goto(s, "undo")
  /\ UNCHANGED <<gift, ref, lock, balance, charged, work>>

(* The catch block: delete the lock, rethrow. *)
Released(s) == lock \ {ref[s]}
Cleanup(s) ==
  /\ pc[s] = "undo"
  /\ lock' = Released(s)
  /\ Goto(s, "failed")
  /\ UNCHANGED <<gift, ref, balance, charged, work, board, faults>>

(* The delete fails and is logged, or the process dies somewhere in the     *)
(* try block: the lock stays.                                               *)
LockLeftBehind(s) ==
  /\ pc[s] \in InFlight
  /\ Faulty
  /\ Goto(s, "failed")
  /\ UNCHANGED <<gift, ref, lock, balance, charged, work, board>>

-----------------------------------------------------------------------------
(* The persist worker: five jobs at a time, in any order.  A job it has     *)
(* taken counts as waiting until its insert.                                *)

(* saveGift: INSERT ... ON CONFLICT DO NOTHING, then the row that is there. *)
SaveGift(s) ==
  /\ job[s] = "waiting"
  /\ rows' = rows \cup {ref[s]}
  /\ JobTo(s, "saved")
  /\ UNCHANGED <<gift, ref, pc, lock, balance, charged, tries, board, faults>>

(* It throws, before the insert or after it. *)
GiveUpQuietly(s) == "done"
RetryUntil(s) == IF tries[s] + 1 < MaxAttempts THEN "waiting" ELSE "failed"
SaveFails(s) ==
  /\ job[s] \in {"waiting", "saved"}
  /\ Faulty
  /\ tries' = [tries EXCEPT ![s] = @ + 1]
  /\ JobTo(s, RetryUntil(s))
  /\ UNCHANGED <<gift, ref, pc, lock, balance, charged, rows, board>>

FinishJob(s) ==
  /\ job[s] = "saved"
  /\ JobTo(s, "done")
  /\ UNCHANGED <<gift, ref, pc, lock, balance, charged, tries, rows, board, faults>>

(* The worker dies before reporting: the job is delivered again. *)
Stall(s) ==
  /\ job[s] = "saved"
  /\ Faulty
  /\ JobTo(s, "waiting")
  /\ UNCHANGED <<gift, ref, pc, lock, balance, charged, tries, rows, board>>

Send(s) == AcquireLock(s) \/ Debit(s) \/ Enqueue(s) \/ Score(s) \/ Cleanup(s)
Work(s) == SaveGift(s) \/ FinishJob(s)
Fault(s) ==
  \/ LockFails(s) \/ DebitFails(s) \/ EnqueueFails(s) \/ ScoreFails(s)
  \/ LockLeftBehind(s) \/ SaveFails(s) \/ Stall(s)

Next == \E s \in Sends : Send(s) \/ Work(s) \/ Fault(s)

Spec == Init /\ [][Next]_vars

(* A request once locked is carried on by the event loop until it ends; the *)
(* worker keeps polling.  No client is obliged to send.                     *)
FairSpec ==
  /\ Spec
  /\ \A s \in Sends : WF_vars(pc[s] \in InFlight /\ Send(s)) /\ WF_vars(Work(s))

-----------------------------------------------------------------------------
Sum(S) == SumFunctionOnSet([s \in Sends |-> Amount(s)], S)
Of(g, S) == {s \in S : Guest(s) = g}
Answered == {s \in Sends : pc[s] = "done"}

(* Every variable has its type. *)
TypeOK ==
  /\ gift \in [Sends -> Gifts] /\ ref \in [Sends -> Refs]
  /\ pc \in [Sends -> Steps]
  /\ lock \in SUBSET Refs
  /\ balance \in [Guests -> Nat \cup {Missing}]
  /\ charged \in SUBSET Sends
  /\ job \in [Sends -> JobStates]
  /\ tries \in [Sends -> 0..MaxAttempts]
  /\ rows \in SUBSET Refs
  /\ score \in [Guests -> Nat]
  /\ total \in Nat /\ count \in Nat
  /\ faults \in 0..MaxFaults

(* A reference is charged a second time only when the first send that       *)
(* charged it ended in failure: two sends of one reference that overlap, or *)
(* that both answer, never both take the money, and no send's clean-up      *)
(* frees the lock under another.                                            *)
ChargedOnce ==
  \A s, t \in charged : s # t /\ ref[s] = ref[t] => "failed" \in {pc[s], pc[t]}

(* Nothing on record was not paid for, whatever failed: no gifts row, no    *)
(* points of a guest, no part of the room's totals.                         *)
NothingUnpaid ==
  /\ rows \subseteq {ref[s] : s \in charged}
  /\ \A g \in Guests : score[g] <= Sum(Of(g, charged))
  /\ total <= Sum(charged)
  /\ count <= Cardinality(charged)

(* A send that answered success is on the leaderboard and in the totals,    *)
(* whatever other sends did to them at the same time.                       *)
AnsweredGiftCounts ==
  /\ \A g \in Guests : score[g] >= Sum(Of(g, Answered))
  /\ total >= Sum(Answered)
  /\ count >= Cardinality(Answered)

(* A gift that was answered with success reaches Postgres, unless its job   *)
(* has used up its attempts.                                                *)
AnsweredGiftIsSaved ==
  \A s \in Sends : pc[s] = "done" ~> ref[s] \in rows \/ job[s] = "failed"
=============================================================================
