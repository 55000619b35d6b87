------------------------- MODULE GiftSend_proofs -------------------------
(* For any number of sends, references and faults: the lock on a reference *)
(* lets one send at a time past it, so no reference is charged twice while *)
(* its first charge stands.                                                *)
EXTENDS GiftSend, FiniteSums

Holding == InFlight \cup {"done"}

(* A send past the lock finds its reference locked. *)
LockHeld == \A s \in Sends : pc[s] \in Holding => ref[s] \in lock

(* It is the only one past it. *)
Alone ==
  \A s, t \in Sends :
    s # t /\ ref[s] = ref[t] => ~(pc[s] \in Holding /\ pc[t] \in Holding)

(* A send that has charged is past the lock, or has failed. *)
ChargedStages == \A s \in charged : s \in Sends /\ pc[s] \in Holding \cup {"failed"}

IInv == pc \in [Sends -> Steps] /\ LockHeld /\ Alone /\ ChargedStages

LEMMA InvInit == Init => IInv
  BY DEF Init, IInv, LockHeld, Alone, ChargedStages, Holding, InFlight, Steps

(* Steps that leave the locks alone and move one send on, among the steps  *)
(* past the lock or to its failure.                                        *)
LEMMA MovesOn ==
  ASSUME IInv, NEW s \in Sends, pc[s] \in Holding,
         NEW step \in Holding \cup {"failed"}, Goto(s, step),
         charged' \in {charged, charged \cup {s}},
         UNCHANGED <<ref, lock>>
  PROVE  IInv'
<1>1. pc' \in [Sends -> Steps]
  BY DEF IInv, Goto, Holding, InFlight, Steps
<1>2. \A t \in Sends : IF t = s THEN pc'[t] = step ELSE pc'[t] = pc[t]
  BY DEF IInv, Goto
<1>3. LockHeld'
  BY <1>2 DEF IInv, LockHeld
<1>4. Alone'
  BY <1>2 DEF IInv, Alone
<1>5. ChargedStages'
  BY <1>2 DEF IInv, ChargedStages
<1> QED
  BY <1>1, <1>3, <1>4, <1>5 DEF IInv

(* Only the send that finds no lock takes one. *)
LEMMA AcquireKeeps ==
  ASSUME IInv, NEW s \in Sends, AcquireLock(s)
  PROVE  IInv'
<1>1. CASE Locked(s)
  <2>1. /\ pc' = [pc EXCEPT ![s] = "ignored"] /\ pc[s] = "lock"
        /\ UNCHANGED <<ref, lock, charged>>
    BY <1>1 DEF AcquireLock, Goto
  <2> QED
    BY <2>1 DEF IInv, LockHeld, Alone, ChargedStages, Holding, InFlight, Steps
<1>2. CASE ~Locked(s)
  <2>1. /\ pc' = [pc EXCEPT ![s] = "debit"] /\ pc[s] = "lock"
        /\ lock' = lock \cup {ref[s]} /\ ref[s] \notin lock
        /\ UNCHANGED <<ref, charged>>
    BY <1>2 DEF AcquireLock, Goto, Locked
  <2>2. \A t \in Sends : ref[t] = ref[s] => pc[t] \notin Holding
    BY <2>1 DEF IInv, LockHeld
  <2>3. \A t \in Sends : IF t = s THEN pc'[t] = "debit" ELSE pc'[t] = pc[t]
    BY <2>1 DEF IInv
  <2>4. LockHeld'
    BY <2>1, <2>3 DEF IInv, LockHeld
  <2>5. Alone'
    BY <2>1, <2>2, <2>3 DEF IInv, Alone
  <2>6. ChargedStages' /\ pc' \in [Sends -> Steps]
    BY <2>1, <2>3 DEF IInv, ChargedStages, Holding, InFlight, Steps
  <2> QED
    BY <2>4, <2>5, <2>6 DEF IInv
<1> QED
  BY <1>1, <1>2

LEMMA LockFailsKeeps ==
  ASSUME IInv, NEW s \in Sends, LockFails(s)
  PROVE  IInv'
<1>1. /\ pc' = [pc EXCEPT ![s] = "failed"] /\ pc[s] = "lock"
      /\ lock \subseteq lock'
      /\ UNCHANGED <<ref, charged>>
  BY DEF LockFails, Goto
<1> QED
  BY <1>1 DEF IInv, LockHeld, Alone, ChargedStages, Holding, InFlight, Steps

(* The lock a failing send deletes is its own: no other send relies on it. *)
LEMMA CleanupKeeps ==
  ASSUME IInv, NEW s \in Sends, Cleanup(s)
  PROVE  IInv'
<1>1. /\ pc' = [pc EXCEPT ![s] = "failed"] /\ pc[s] = "undo"
      /\ lock' = lock \ {ref[s]}
      /\ UNCHANGED <<ref, charged>>
  BY DEF Cleanup, Goto, Released
<1>2. \A t \in Sends : IF t = s THEN pc'[t] = "failed" ELSE pc'[t] = pc[t]
  BY <1>1 DEF IInv
<1>3. \A t \in Sends : t # s /\ ref[t] = ref[s] => pc[t] \notin Holding
  BY <1>1 DEF IInv, Alone, Holding, InFlight
<1>4. LockHeld'
  BY <1>1, <1>2, <1>3 DEF IInv, LockHeld, Holding, InFlight
<1>5. Alone'
  BY <1>1, <1>2 DEF IInv, Alone, Holding, InFlight
<1>6. ChargedStages' /\ pc' \in [Sends -> Steps]
  BY <1>1, <1>2 DEF IInv, ChargedStages, Steps
<1> QED
  BY <1>4, <1>5, <1>6 DEF IInv

LEMMA InvStep == IInv /\ [Next]_vars => IInv'
<1> SUFFICES ASSUME IInv, [Next]_vars PROVE IInv'
  OBVIOUS
<1>1. CASE UNCHANGED vars
  BY <1>1 DEF vars, IInv, LockHeld, Alone, ChargedStages
<1>2. CASE \E s \in Sends : Send(s) \/ Work(s) \/ Fault(s)
  <2>1. PICK s \in Sends : Send(s) \/ Work(s) \/ Fault(s)
    BY <1>2
  <2>2. CASE AcquireLock(s)
    BY <2>2, AcquireKeeps
  <2>3. CASE Debit(s)
    <3>1. /\ pc[s] \in Holding
          /\ \E step \in {"enqueue", "undo"} : Goto(s, step)
          /\ charged' \in {charged, charged \cup {s}}
          /\ UNCHANGED <<ref, lock>>
      BY <2>3 DEF Debit, Take, Refused, Holding, InFlight
    <3> QED
      BY <3>1, MovesOn DEF Holding, InFlight
  <2>4. CASE DebitFails(s)
    <3>1. /\ pc[s] \in Holding /\ Goto(s, "undo")
          /\ charged' \in {charged, charged \cup {s}}
          /\ UNCHANGED <<ref, lock>>
      BY <2>4 DEF DebitFails, Take, Holding, InFlight
    <3> QED
      BY <3>1, MovesOn DEF Holding, InFlight
  <2>5. CASE Enqueue(s) \/ EnqueueFails(s) \/ Score(s) \/ ScoreFails(s) \/ LockLeftBehind(s)
    <3>1. /\ pc[s] \in Holding
          /\ \E step \in {"score", "undo", "done", "failed"} : Goto(s, step)
          /\ UNCHANGED <<ref, lock, charged>>
      BY <2>5 DEF Enqueue, EnqueueFails, Score, ScoreFails, LockLeftBehind,
                  Holding, InFlight, work, board
    <3> QED
      BY <3>1, MovesOn DEF Holding, InFlight
  <2>6. CASE Cleanup(s)
    BY <2>6, CleanupKeeps
  <2>7. CASE LockFails(s)
    BY <2>7, LockFailsKeeps
  <2>8. CASE Work(s) \/ SaveFails(s) \/ Stall(s)
    <3>1. UNCHANGED <<ref, pc, lock, charged>>
      BY <2>8 DEF Work, SaveGift, FinishJob, SaveFails, Stall
    <3> QED
      BY <3>1 DEF IInv, LockHeld, Alone, ChargedStages
  <2> QED
    BY <2>1, <2>2, <2>3, <2>4, <2>5, <2>6, <2>7, <2>8 DEF Send, Fault
<1> QED
  BY <1>1, <1>2 DEF Next

(* A reference is never charged twice unless a send that charged it failed, *)
(* whatever overlaps, fails or is retried.                                  *)
THEOREM ReferenceChargedOnce == Spec => []ChargedOnce
<1>1. IInv => ChargedOnce
  <2> SUFFICES ASSUME IInv, NEW s \in charged, NEW t \in charged,
                      s # t, ref[s] = ref[t]
               PROVE  "failed" \in {pc[s], pc[t]}
    BY DEF ChargedOnce
  <2>1. s \in Sends /\ t \in Sends
    BY DEF IInv, ChargedStages
  <2>2. ~(pc[s] \in Holding /\ pc[t] \in Holding)
    BY <2>1 DEF IInv, Alone
  <2> QED
    BY <2>2 DEF IInv, ChargedStages
<1> QED
  BY <1>1, InvInit, InvStep, PTL DEF Spec
-----------------------------------------------------------------------------
(* Types.  Inductive with: a job that has not failed has an attempt left,  *)
(* and a send has no job before it adds one.                               *)

Attempts ==
  \A s \in Sends :
    /\ job[s] # "failed" => tries[s] < MaxAttempts
    /\ pc[s] \in {"lock", "debit", "enqueue"} => job[s] = "none"
TypeInv == TypeOK /\ Attempts

LEMMA SendTypes ==
  ASSUME TypeOK, NEW s \in Sends
  PROVE  Guest(s) \in Guests /\ Amount(s) \in Nat /\ Amount(s) > 0 /\ ref[s] \in Refs
BY GiftAssumption DEF TypeOK, Guest, Amount

LEMMA TypesInit == Init => TypeInv
<1> SUFFICES ASSUME Init PROVE TypeInv
  OBVIOUS
<1>1. 0 \in 0..MaxAttempts /\ 0 < MaxAttempts /\ 0 \in 0..MaxFaults
  BY BoundAssumption
<1>2. balance \in [Guests -> Nat \cup {Missing}]
  BY BoundAssumption DEF Init
<1>3. TypeOK
  BY <1>1, <1>2 DEF Init, TypeOK, Steps, JobStates
<1>4. Attempts
  BY <1>1 DEF Init, Attempts
<1> QED
  BY <1>3, <1>4 DEF TypeInv

LEMMA TypesStep == TypeInv /\ [Next]_vars => TypeInv'
<1> SUFFICES ASSUME TypeInv, [Next]_vars PROVE TypeInv'
  OBVIOUS
<1> USE DEF Goto, JobTo, work, board
<1>1. CASE UNCHANGED vars
  BY <1>1 DEF vars, TypeInv, TypeOK, Attempts
<1>2. ASSUME NEW s \in Sends, AcquireLock(s) \/ Cleanup(s) \/ LockFails(s) \/ LockLeftBehind(s)
      PROVE  TypeInv'
  BY <1>2, BoundAssumption
     DEF AcquireLock, Cleanup, Released, LockFails, LockLeftBehind, Faulty,
         TypeInv, TypeOK, Attempts, Steps, InFlight, JobStates
<1>3. ASSUME NEW s \in Sends, Debit(s) \/ DebitFails(s) PROVE TypeInv'
  <2>1. balance' \in [Guests -> Nat \cup {Missing}] /\ charged' \in SUBSET Sends
    <3>1. CASE UNCHANGED <<balance, charged>>
      BY <3>1 DEF TypeInv, TypeOK
    <3>2. CASE Covered(s) /\ Take(s)
      <4>1. Guest(s) \in Guests /\ Amount(s) \in Nat
        BY SendTypes DEF TypeInv
      <4>2. balance[Guest(s)] - Amount(s) \in Nat
        BY <3>2, <4>1 DEF Covered, TypeInv, TypeOK
      <4> QED
        BY <3>2, <4>1, <4>2 DEF Take, TypeInv, TypeOK
    <3> QED
      BY <1>3, <3>1, <3>2 DEF Debit, DebitFails
  <2>2. pc' \in [Sends -> Steps] /\ faults' \in 0..MaxFaults
    BY <1>3, BoundAssumption DEF Debit, DebitFails, Refused, Faulty,
         TypeInv, TypeOK, Attempts, Steps, InFlight, JobStates
  <2> QED
    BY <1>3, <2>1, <2>2 DEF Debit, DebitFails, Refused, TypeInv, TypeOK, Attempts, Steps, InFlight, JobStates
<1>4. ASSUME NEW s \in Sends, Enqueue(s) \/ EnqueueFails(s) PROVE TypeInv'
  <2>1. pc' \in [Sends -> Steps] /\ faults' \in 0..MaxFaults
    BY <1>4, BoundAssumption DEF Enqueue, EnqueueFails, Faulty,
         TypeInv, TypeOK, Attempts, Steps, InFlight, JobStates
  <2> QED
    BY <1>4, <2>1, BoundAssumption DEF Enqueue, EnqueueFails, TypeInv, TypeOK, Attempts, Steps, InFlight, JobStates
<1>5. ASSUME NEW s \in Sends, Score(s) \/ ScoreFails(s) PROVE TypeInv'
  <2>1. Guest(s) \in Guests /\ Amount(s) \in Nat
    BY SendTypes DEF TypeInv
  <2>2. score' \in [Guests -> Nat] /\ total' \in Nat /\ count' \in Nat
    BY <1>5, <2>1 DEF Score, ScoreFails, AddGift, RaiseScore, TypeInv, TypeOK
  <2>3. /\ UNCHANGED <<gift, ref, lock, balance, charged, work>>
        /\ pc[s] = "score" /\ \E step \in {"done", "undo"} : Goto(s, step)
        /\ faults' = faults \/ Faulty
    BY <1>5 DEF Score, ScoreFails
  <2>4. faults' \in 0..MaxFaults
    BY <2>3, BoundAssumption DEF Faulty, TypeInv, TypeOK
  <2>5. pc' \in [Sends -> Steps]
    BY <2>3 DEF Steps, InFlight, TypeInv, TypeOK
  <2>6. Attempts'
    BY <2>3 DEF Attempts, TypeInv, TypeOK
  <2> QED
    BY <2>2, <2>3, <2>4, <2>5, <2>6 DEF TypeInv, TypeOK
<1>6. ASSUME NEW s \in Sends, Work(s) \/ Stall(s) PROVE TypeInv'
  <2>1. faults' \in 0..MaxFaults
    BY <1>6, BoundAssumption DEF Work, SaveGift, FinishJob, Stall, Faulty, TypeInv, TypeOK
  <2> QED
    BY <1>6, <2>1, SendTypes DEF Work, SaveGift, FinishJob, Stall, TypeInv, TypeOK, Attempts, Steps, InFlight, JobStates
<1>7. ASSUME NEW s \in Sends, SaveFails(s) PROVE TypeInv'
  <2>1. faults' \in 0..MaxFaults /\ job[s] \in {"waiting", "saved"}
    BY <1>7, BoundAssumption DEF SaveFails, Faulty, TypeInv, TypeOK
  <2>2. /\ tries \in [Sends -> 0..MaxAttempts] /\ job \in [Sends -> JobStates]
        /\ tries[s] < MaxAttempts /\ pc[s] \notin {"lock", "debit", "enqueue"}
    BY <2>1 DEF TypeInv, TypeOK, Attempts
  <2>3. tries' = [tries EXCEPT ![s] = tries[s] + 1] /\ tries[s] + 1 \in 0..MaxAttempts
    BY <1>7, <2>2, BoundAssumption DEF SaveFails
  <2>4. /\ job' = [job EXCEPT ![s] = RetryUntil(s)]
        /\ RetryUntil(s) \in {"waiting", "failed"}
        /\ RetryUntil(s) = "waiting" => tries[s] + 1 < MaxAttempts
    BY <1>7 DEF SaveFails, RetryUntil
  <2>5. UNCHANGED <<gift, ref, pc, lock, balance, charged, rows, board>>
    BY <1>7 DEF SaveFails
  <2>6. tries' \in [Sends -> 0..MaxAttempts]
    BY <2>2, <2>3
  <2>7. job' \in [Sends -> JobStates]
    BY <2>2, <2>4 DEF JobStates
  <2>8. Attempts'
    BY <2>2, <2>3, <2>4, <2>5 DEF Attempts, TypeInv
  <2> QED
    BY <2>1, <2>5, <2>6, <2>7, <2>8 DEF TypeInv, TypeOK
<1> QED
  BY <1>1, <1>2, <1>3, <1>4, <1>5, <1>6, <1>7 DEF Next, Send, Work, Fault

-----------------------------------------------------------------------------
(* Sums over the sends. *)

Prices == [s \in Sends |-> Amount(s)]

LEMMA SumsAre ==
  ASSUME TypeOK, NEW S \in SUBSET Sends
  PROVE  /\ IsFiniteSet(S) /\ Sum(S) = SumFunctionOnSet(Prices, S)
         /\ \A s \in Sends : Prices[s] \in Int /\ Prices[s] >= 0
<1>1. IsFiniteSet(S)
  BY SendsAssumption, FS_Subset
<1>2. \A s \in Sends : Prices[s] \in Int /\ Prices[s] >= 0
  BY SendTypes DEF Prices
<1> QED
  BY <1>1, <1>2 DEF Sum, Prices

(* More sends give no less, to each guest and together. *)
LEMMA SumsGrow ==
  ASSUME TypeOK, NEW T \in SUBSET Sends, NEW S \in SUBSET T
  PROVE  /\ \A g : Sum(Of(g, S)) <= Sum(Of(g, T))
         /\ Sum(S) <= Sum(T)
         /\ Cardinality(S) <= Cardinality(T)
         /\ Sum(S) \in Int /\ Cardinality(S) \in Nat /\ \A g : Sum(Of(g, S)) \in Int
<1>1. ASSUME NEW U \in SUBSET Sends, NEW V \in SUBSET U
      PROVE  Sum(V) <= Sum(U) /\ Sum(V) \in Int
  <2>1. V \in SUBSET Sends
    OBVIOUS
  <2>2. /\ IsFiniteSet(U) /\ Sum(U) = SumFunctionOnSet(Prices, U)
        /\ IsFiniteSet(V) /\ Sum(V) = SumFunctionOnSet(Prices, V)
        /\ \A s \in Sends : Prices[s] \in Int /\ Prices[s] >= 0
    BY <2>1, SumsAre
  <2> QED
    BY <2>1, <2>2, SumMonotone, SumType
<1>2. \A g : Of(g, S) \in SUBSET Of(g, T) /\ Of(g, T) \in SUBSET Sends
  BY DEF Of
<1>3. Cardinality(S) <= Cardinality(T) /\ Cardinality(S) \in Nat
  BY SendsAssumption, FS_Subset, FS_CardinalityType
<1> QED
  BY <1>1, <1>2, <1>3

(* One more send gives its amount more, to its guest and together. *)
LEMMA SumsAdd ==
  ASSUME TypeOK, NEW S \in SUBSET Sends, NEW s \in Sends, s \notin S
  PROVE  /\ \A g : Sum(Of(g, S \cup {s})) =
                     IF g = Guest(s) THEN Sum(Of(g, S)) + Amount(s) ELSE Sum(Of(g, S))
         /\ Sum(S \cup {s}) = Sum(S) + Amount(s)
         /\ Cardinality(S \cup {s}) = Cardinality(S) + 1
<1>1. ASSUME NEW V \in SUBSET Sends, s \notin V
      PROVE  Sum(V \cup {s}) = Sum(V) + Amount(s)
  <2>1. V \cup {s} \in SUBSET Sends
    OBVIOUS
  <2>2. /\ IsFiniteSet(V) /\ Sum(V) = SumFunctionOnSet(Prices, V)
        /\ Sum(V \cup {s}) = SumFunctionOnSet(Prices, V \cup {s})
        /\ \A t \in Sends : Prices[t] \in Int
    BY <2>1, SumsAre
  <2>3. SumFunctionOnSet(Prices, V \cup {s}) = Prices[s] + SumFunctionOnSet(Prices, V)
    BY <1>1, <2>2, SumAdd
  <2>4. Prices[s] = Amount(s) /\ Prices[s] \in Int /\ SumFunctionOnSet(Prices, V) \in Int
    BY <2>2, SumType DEF Prices
  <2> QED
    BY <2>2, <2>3, <2>4
<1>2. \A g : /\ Of(g, S) \in SUBSET Sends /\ s \notin Of(g, S)
             /\ g = Guest(s) => Of(g, S \cup {s}) = Of(g, S) \cup {s}
             /\ g # Guest(s) => Of(g, S \cup {s}) = Of(g, S)
  BY DEF Of
<1>3. Cardinality(S \cup {s}) = Cardinality(S) + 1
  BY SendsAssumption, FS_Subset, FS_AddElement
<1> QED
  BY <1>1, <1>2, <1>3

(* What a sum is in the next state: sends keep their gifts. *)
LEMMA SumsStay ==
  ASSUME gift' = gift, NEW S
  PROVE  Sum(S)' = Sum(S) /\ \A g : Of(g, S)' = Of(g, S)
BY DEF Sum, Of, Amount, Guest
-----------------------------------------------------------------------------
(* Nothing on record is unpaid.  Inductive: what the board holds is        *)
(* covered by the charged sends that are past their pipeline, and a send   *)
(* that is to be scored, has answered or has a job has been charged.       *)

Scored == {s \in charged : pc[s] \notin {"debit", "enqueue", "score"}}

Board(S) ==
  /\ \A g \in Guests : score[g] <= Sum(Of(g, S))
  /\ total <= Sum(S)
  /\ count <= Cardinality(S)

PaidInv ==
  /\ TypeInv /\ IInv
  /\ \A s \in Sends : pc[s] \in {"enqueue", "score", "done"} \/ job[s] # "none" => s \in charged
  /\ rows \subseteq {ref[s] : s \in charged}
  /\ Board(Scored)

LEMMA PaidInit == Init => PaidInv
<1> SUFFICES ASSUME Init PROVE PaidInv
  OBVIOUS
<1>1. TypeInv /\ IInv
  BY TypesInit, InvInit
<1>2. Scored = {} /\ \A g : Of(g, {}) = {}
  BY DEF Init, Scored, Of
<1>3. Sum({}) = 0 /\ Cardinality({}) = 0
  BY SumEmpty, FS_EmptySet DEF Sum
<1>4. Board(Scored)
  BY <1>2, <1>3, SMTT(30) DEF Init, Board
<1> QED
  BY <1>1, <1>4 DEF Init, PaidInv

(* The board of the next state, from sums over the sends scored then. *)
LEMMA NextBoard ==
  ASSUME gift' = gift, NEW T, T = Scored',
         \A g \in Guests : score'[g] <= Sum(Of(g, T)),
         total' <= Sum(T), count' <= Cardinality(T)
  PROVE  Board(Scored)'
BY DEF Board, Sum, Of, Amount, Guest

(* A step that leaves the board alone and takes nobody from the scored. *)
LEMMA BoardStays ==
  ASSUME TypeOK, gift' = gift, UNCHANGED board, Board(Scored),
         Scored \subseteq Scored', Scored' \subseteq Sends
  PROVE  Board(Scored)'
<1>1. PICK T : T = Scored'
  OBVIOUS
<1>2. /\ \A g : Sum(Of(g, Scored)) <= Sum(Of(g, T)) /\ Sum(Of(g, Scored)) \in Int
      /\ Sum(Scored) <= Sum(T) /\ Sum(Scored) \in Int
      /\ Cardinality(Scored) <= Cardinality(T) /\ Cardinality(Scored) \in Int
      /\ \A g : Sum(Of(g, T)) \in Int
      /\ Sum(T) \in Int /\ Cardinality(T) \in Int
  <2>1. T \in SUBSET Sends /\ Scored \in SUBSET T /\ T \in SUBSET T
    BY <1>1
  <2> QED
    BY <2>1, SumsGrow
<1>3. \A g \in Guests : score[g] \in Int
  BY DEF TypeOK
<1>4. total \in Int /\ count \in Int
  BY DEF TypeOK
<1>5. \A g \in Guests : score'[g] <= Sum(Of(g, T))
  BY <1>2, <1>3 DEF board, Board
<1>6. total' <= Sum(T) /\ count' <= Cardinality(T)
  BY <1>2, <1>4 DEF board, Board
<1> QED
  BY <1>1, <1>5, <1>6, NextBoard

(* The pipeline of one send, or the part of it that ran. *)
LEMMA BoardRises ==
  ASSUME TypeOK, gift' = gift, Board(Scored), NEW s \in Sends, s \notin Scored,
         NEW inScore \in BOOLEAN, NEW inTotal \in BOOLEAN, NEW inCount \in BOOLEAN,
         AddGift(s, inScore, inTotal, inCount),
         Scored' = Scored \cup {s}, Scored \subseteq Sends
  PROVE  Board(Scored)'
<1>1. /\ \A g : Sum(Of(g, Scored \cup {s})) =
                  IF g = Guest(s) THEN Sum(Of(g, Scored)) + Amount(s) ELSE Sum(Of(g, Scored))
      /\ Sum(Scored \cup {s}) = Sum(Scored) + Amount(s)
      /\ Cardinality(Scored \cup {s}) = Cardinality(Scored) + 1
  BY SumsAdd
<1>2. /\ \A g : Sum(Of(g, Scored)) \in Int
      /\ Sum(Scored) \in Int /\ Cardinality(Scored) \in Int
  <2>1. Scored \in SUBSET Sends /\ Scored \in SUBSET Scored
    OBVIOUS
  <2> QED
    BY <2>1, SumsGrow
<1>3. Guest(s) \in Guests /\ Amount(s) \in Int /\ Amount(s) >= 0
  BY SendTypes
<1>4. ASSUME NEW g \in Guests PROVE score'[g] <= Sum(Of(g, Scored \cup {s}))
  <2>1. score[g] \in Int /\ score \in [Guests -> Nat]
    BY DEF TypeOK
  <2>2. score'[g] = score[g] \/ (g = Guest(s) /\ score'[g] = score[g] + Amount(s))
    BY <1>3, <2>1 DEF AddGift, RaiseScore
  <2>3. score[g] <= Sum(Of(g, Scored))
    BY DEF Board
  <2>4. Sum(Of(g, Scored \cup {s})) =
          IF g = Guest(s) THEN Sum(Of(g, Scored)) + Amount(s) ELSE Sum(Of(g, Scored))
    BY <1>1
  <2>5. Sum(Of(g, Scored)) \in Int
    BY <1>2
  <2> QED
    BY <1>3, <2>1, <2>2, <2>3, <2>4, <2>5
<1>5. total' <= Sum(Scored \cup {s}) /\ count' <= Cardinality(Scored \cup {s})
  <2>1. total \in Int /\ count \in Int
    BY DEF TypeOK
  <2> QED
    BY <1>1, <1>2, <1>3, <2>1 DEF AddGift, Board
<1> QED
  BY <1>4, <1>5, NextBoard
LEMMA PaidStep == PaidInv /\ [Next]_vars => PaidInv'
<1> SUFFICES ASSUME PaidInv, [Next]_vars PROVE PaidInv'
  OBVIOUS
<1> DEFINE Paid == \A s \in Sends :
             pc[s] \in {"enqueue", "score", "done"} \/ job[s] # "none" => s \in charged
           Covers == rows \subseteq {ref[s] : s \in charged}
<1>1. /\ TypeInv' /\ IInv' /\ TypeOK /\ TypeOK' /\ ChargedStages
      /\ Paid /\ Covers /\ Board(Scored)
  BY TypesStep, InvStep DEF PaidInv, TypeInv, IInv
<1>2. SUFFICES Paid' /\ Covers' /\ Board(Scored)'
  BY <1>1 DEF PaidInv
<1>3. /\ Scored \subseteq Sends /\ Scored' \subseteq Sends
      /\ pc \in [Sends -> Steps] /\ job \in [Sends -> JobStates] /\ charged \in SUBSET Sends
  BY <1>1 DEF TypeOK, Scored
<1>4. CASE UNCHANGED vars
  <2>1. Scored' = Scored
    BY <1>4 DEF vars, Scored
  <2>2. Board(Scored)'
    BY <1>1, <1>3, <1>4, <2>1, BoardStays DEF vars, board
  <2> QED
    BY <1>1, <1>4, <2>2 DEF vars, work
<1>5. ASSUME NEW s \in Sends, Score(s) \/ ScoreFails(s) PROVE Paid' /\ Covers' /\ Board(Scored)'
  <2>1. /\ UNCHANGED <<gift, ref, charged, job, rows>>
        /\ pc[s] = "score" /\ \E step \in {"done", "undo"} : Goto(s, step)
        /\ \E inScore, inTotal, inCount \in BOOLEAN : AddGift(s, inScore, inTotal, inCount)
    BY <1>5 DEF Score, ScoreFails, work
  <2>2. s \in charged
    BY <1>1, <2>1
  <2>3. /\ pc'[s] \in {"done", "undo"} /\ \A t \in Sends : t # s => pc'[t] = pc[t]
    BY <1>3, <2>1 DEF Goto
  <2>4. Scored' = Scored \cup {s} /\ s \notin Scored
    BY <1>3, <2>1, <2>2, <2>3 DEF Scored
  <2>5. Board(Scored)'
    BY <1>1, <1>3, <2>1, <2>4, BoardRises
  <2> QED
    BY <1>1, <2>1, <2>2, <2>3, <2>5
<1>6. ASSUME NEW s \in Sends, UNCHANGED <<gift, ref, rows, board>>,
             NEW step, Goto(s, step), pc[s] # "score" \/ step = "failed",
             step \in {"debit", "enqueue", "score"} => s \notin Scored,
             charged' = charged \/ charged' = charged \cup {s},
             \A t \in Sends : t # s => job'[t] = job[t],
             step \in {"enqueue", "score", "done"} \/ job'[s] # "none" => s \in charged'
      PROVE  Paid' /\ Covers' /\ Board(Scored)'
  <2>1. \A t \in Sends : IF t = s THEN pc'[t] = step ELSE pc'[t] = pc[t]
    BY <1>3, <1>6 DEF Goto
  <2>2. Scored \subseteq Scored'
    BY <1>3, <1>6, <2>1 DEF Scored
  <2>3. Board(Scored)'
    BY <1>1, <1>3, <1>6, <2>2, BoardStays
  <2>4. Paid' /\ Covers'
    BY <1>1, <1>6, <2>1
  <2> QED
    BY <2>3, <2>4
<1>7. ASSUME NEW s \in Sends, Debit(s) \/ DebitFails(s) PROVE Paid' /\ Covers' /\ Board(Scored)'
  <2>1. /\ UNCHANGED <<gift, ref, rows, board, job>> /\ pc[s] = "debit"
        /\ charged' = charged \/ charged' = charged \cup {s}
        /\ \E step \in {"enqueue", "undo"} : Goto(s, step) /\ (step = "enqueue" => s \in charged')
    BY <1>7 DEF Debit, DebitFails, Take, Refused, work
  <2>2. s \notin Scored /\ job[s] = "none"
    BY <1>1, <2>1 DEF Scored, PaidInv, TypeInv, Attempts
  <2> QED
    BY <1>6, <2>1, <2>2
<1>8. ASSUME NEW s \in Sends, Enqueue(s) \/ EnqueueFails(s)
      PROVE  Paid' /\ Covers' /\ Board(Scored)'
  <2>1. /\ UNCHANGED <<gift, ref, rows, board, charged>> /\ pc[s] = "enqueue"
        /\ \A t \in Sends : t # s => job'[t] = job[t]
        /\ \E step \in {"score", "undo"} : Goto(s, step)
    BY <1>3, <1>8 DEF Enqueue, EnqueueFails, JobTo
  <2>2. s \in charged /\ s \notin Scored
    BY <1>1, <2>1 DEF Scored
  <2> QED
    BY <1>6, <2>1, <2>2
<1>9. ASSUME NEW s \in Sends,
             AcquireLock(s) \/ LockFails(s) \/ Cleanup(s) \/ LockLeftBehind(s)
      PROVE  Paid' /\ Covers' /\ Board(Scored)'
  <2>1. /\ UNCHANGED <<gift, ref, rows, board, charged, job>>
        /\ \E step \in {"ignored", "debit", "failed"} :
             /\ Goto(s, step)
             /\ step = "debit" => pc[s] = "lock"
             /\ pc[s] # "score" \/ step = "failed"
    BY <1>9 DEF AcquireLock, LockFails, Cleanup, LockLeftBehind, work
  <2>2. pc[s] = "lock" => s \notin Scored
    BY <1>1 DEF Scored, ChargedStages, Holding, InFlight
  <2>3. job'[s] # "none" => s \in charged'
    BY <1>1, <2>1
  <2> QED
    BY <1>6, <2>1, <2>2, <2>3
<1>10. ASSUME NEW s \in Sends, Work(s) \/ SaveFails(s) \/ Stall(s)
       PROVE  Paid' /\ Covers' /\ Board(Scored)'
  <2>1. /\ UNCHANGED <<gift, ref, pc, charged, board>> /\ job[s] # "none"
        /\ rows' = rows \/ rows' = rows \cup {ref[s]}
        /\ \A t \in Sends : t # s => job'[t] = job[t]
    BY <1>3, <1>10 DEF Work, SaveGift, FinishJob, SaveFails, Stall, JobTo
  <2>2. s \in charged
    BY <1>1, <2>1
  <2>3. Scored' = Scored
    BY <2>1 DEF Scored
  <2>4. Board(Scored)'
    BY <1>1, <1>3, <2>1, <2>3, BoardStays
  <2> QED
    BY <1>1, <2>1, <2>2, <2>4
<1> QED
  BY <1>4, <1>5, <1>7, <1>8, <1>9, <1>10 DEF Next, Send, Work, Fault

(* Whatever fails, is retried or is delivered again: no row of the gifts   *)
(* table, no points of a guest and no part of the room's totals was not    *)
(* paid for.                                                               *)
THEOREM EverythingPaid == Spec => []NothingUnpaid
<1>1. PaidInv => NothingUnpaid
  <2> SUFFICES ASSUME PaidInv PROVE NothingUnpaid
    OBVIOUS
  <2>1. TypeOK /\ Board(Scored) /\ rows \subseteq {ref[s] : s \in charged}
    BY DEF PaidInv, TypeInv
  <2>2. Scored \in SUBSET charged /\ charged \in SUBSET Sends /\ charged \in SUBSET charged
    BY <2>1 DEF Scored, TypeOK
  <2>3. /\ \A g : Sum(Of(g, Scored)) <= Sum(Of(g, charged)) /\ Sum(Of(g, Scored)) \in Int
        /\ Sum(Scored) <= Sum(charged) /\ Sum(Scored) \in Int
        /\ Cardinality(Scored) <= Cardinality(charged) /\ Cardinality(Scored) \in Int
        /\ \A g : Sum(Of(g, charged)) \in Int
        /\ Sum(charged) \in Int /\ Cardinality(charged) \in Int
    BY <2>1, <2>2, SumsGrow
  <2>4. \A g \in Guests : score[g] \in Int
    BY <2>1 DEF TypeOK
  <2>5. total \in Int /\ count \in Int
    BY <2>1 DEF TypeOK
  <2>6. \A g \in Guests : score[g] <= Sum(Of(g, charged))
    BY <2>1, <2>3, <2>4 DEF Board
  <2>7. total <= Sum(charged) /\ count <= Cardinality(charged)
    BY <2>1, <2>3, <2>5 DEF Board
  <2> QED
    BY <2>1, <2>6, <2>7 DEF NothingUnpaid
<1> QED
  BY <1>1, PaidInit, PaidStep, PTL DEF Spec
-----------------------------------------------------------------------------
(* An answered gift counts: inductive with the types alone, for nothing    *)
(* ever lowers the board and no answered send is undone.                   *)

LEMMA NextAnswered ==
  ASSUME gift' = gift, NEW T, T = Answered',
         \A g \in Guests : score'[g] >= Sum(Of(g, T)),
         total' >= Sum(T), count' >= Cardinality(T)
  PROVE  AnsweredGiftCounts'
BY DEF AnsweredGiftCounts, Sum, Of, Amount, Guest

LEMMA AnsweredStep == TypeInv /\ AnsweredGiftCounts /\ [Next]_vars => AnsweredGiftCounts'
<1> SUFFICES ASSUME TypeInv, AnsweredGiftCounts, [Next]_vars PROVE AnsweredGiftCounts'
  OBVIOUS
<1>1. /\ TypeOK /\ pc \in [Sends -> Steps] /\ score \in [Guests -> Nat]
      /\ total \in Nat /\ count \in Nat
  BY DEF TypeInv, TypeOK
<1>2. /\ \A g : Sum(Of(g, Answered)) \in Int
      /\ Sum(Answered) \in Int /\ Cardinality(Answered) \in Int
  <2>1. Answered \in SUBSET Sends /\ Answered \in SUBSET Answered
    BY DEF Answered
  <2> QED
    BY <1>1, <2>1, SumsGrow
<1>3. /\ \A g \in Guests : score[g] >= Sum(Of(g, Answered))
      /\ total >= Sum(Answered) /\ count >= Cardinality(Answered)
  BY DEF AnsweredGiftCounts
<1>4. ASSUME gift' = gift, Answered' = Answered,
             \A g \in Guests : score'[g] \in Int /\ score'[g] >= score[g],
             total' \in Int, total' >= total, count' \in Int, count' >= count
      PROVE  AnsweredGiftCounts'
  <2>1. \A g \in Guests : score'[g] >= Sum(Of(g, Answered))
    BY <1>1, <1>2, <1>3, <1>4
  <2>2. total' >= Sum(Answered) /\ count' >= Cardinality(Answered)
    BY <1>1, <1>2, <1>3, <1>4
  <2> QED
    BY <1>4, <2>1, <2>2, NextAnswered
<1>5. ASSUME NEW s \in Sends, Score(s) PROVE AnsweredGiftCounts'
  <2>1. gift' = gift /\ pc[s] = "score" /\ pc' = [pc EXCEPT ![s] = "done"]
        /\ AddGift(s, TRUE, TRUE, TRUE)
    BY <1>5 DEF Score, Goto
  <2>2. Answered' = Answered \cup {s} /\ s \notin Answered /\ Answered \in SUBSET Sends
    BY <1>1, <2>1 DEF Answered
  <2>3. Guest(s) \in Guests /\ Amount(s) \in Int
    BY <1>1, SendTypes
  <2>4. /\ \A g : Sum(Of(g, Answered \cup {s})) =
                    IF g = Guest(s) THEN Sum(Of(g, Answered)) + Amount(s) ELSE Sum(Of(g, Answered))
        /\ Sum(Answered \cup {s}) = Sum(Answered) + Amount(s)
        /\ Cardinality(Answered \cup {s}) = Cardinality(Answered) + 1
    BY <1>1, <2>2, SumsAdd
  <2>5. ASSUME NEW g \in Guests PROVE score'[g] >= Sum(Of(g, Answered \cup {s}))
    <3>1. score'[g] = IF g = Guest(s) THEN score[g] + Amount(s) ELSE score[g]
      BY <1>1, <2>1, <2>3 DEF AddGift, RaiseScore
    <3>2. Sum(Of(g, Answered \cup {s})) =
            IF g = Guest(s) THEN Sum(Of(g, Answered)) + Amount(s) ELSE Sum(Of(g, Answered))
      BY <2>4
    <3>3. score[g] \in Int /\ Sum(Of(g, Answered)) \in Int /\ score[g] >= Sum(Of(g, Answered))
      BY <1>1, <1>2, <1>3
    <3> QED
      BY <2>3, <3>1, <3>2, <3>3
  <2>6. total' >= Sum(Answered \cup {s}) /\ count' >= Cardinality(Answered \cup {s})
    BY <1>1, <1>2, <1>3, <2>1, <2>3, <2>4 DEF AddGift
  <2> QED
    BY <2>1, <2>2, <2>5, <2>6, NextAnswered
<1>6. ASSUME NEW s \in Sends, ScoreFails(s) PROVE AnsweredGiftCounts'
  <2>1. /\ gift' = gift /\ pc[s] = "score" /\ pc' = [pc EXCEPT ![s] = "undo"]
        /\ \E inScore, inTotal, inCount \in BOOLEAN : AddGift(s, inScore, inTotal, inCount)
    BY <1>6 DEF ScoreFails, Goto
  <2>2. Answered' = Answered
    BY <1>1, <2>1 DEF Answered
  <2>3. Guest(s) \in Guests /\ Amount(s) \in Nat
    BY <1>1, SendTypes
  <2>4. /\ \A g \in Guests : score'[g] \in Int /\ score'[g] >= score[g]
        /\ total' \in Int /\ total' >= total /\ count' \in Int /\ count' >= count
    BY <1>1, <2>1, <2>3 DEF AddGift, RaiseScore
  <2> QED
    BY <1>4, <2>1, <2>2, <2>4
<1>7. CASE gift' = gift /\ UNCHANGED board /\ Answered' = Answered
  BY <1>1, <1>4, <1>7 DEF board
<1>8. ASSUME NEW s \in Sends,
             \/ AcquireLock(s) \/ Debit(s) \/ Enqueue(s) \/ Cleanup(s) \/ Work(s)
             \/ LockFails(s) \/ DebitFails(s) \/ EnqueueFails(s) \/ LockLeftBehind(s)
             \/ SaveFails(s) \/ Stall(s)
      PROVE  gift' = gift /\ UNCHANGED board /\ Answered' = Answered
  <2>1. /\ gift' = gift /\ UNCHANGED board
        /\ \/ pc' = pc
           \/ /\ pc[s] # "done"
              /\ \E step \in Steps \ {"done"} : Goto(s, step)
    BY <1>8 DEF AcquireLock, Debit, Refused, Enqueue, Cleanup, Work, SaveGift, FinishJob,
         LockFails, DebitFails, EnqueueFails, LockLeftBehind, SaveFails, Stall, InFlight, Steps
  <2> QED
    BY <1>1, <2>1 DEF Answered, Goto
<1>9. CASE UNCHANGED vars
  BY <1>7, <1>9 DEF vars, Answered
<1> QED
  BY <1>5, <1>6, <1>7, <1>8, <1>9 DEF Next, Send, Fault

(* A gift that was answered with success is on the leaderboard and in both *)
(* totals, whatever else was added, failed or was retried meanwhile.       *)
THEOREM AnsweredCounts == Spec => []AnsweredGiftCounts
<1>1. Init => AnsweredGiftCounts
  <2> SUFFICES ASSUME Init PROVE AnsweredGiftCounts
    OBVIOUS
  <2>1. Answered = {} /\ \A g : Of(g, {}) = {}
    BY DEF Init, Answered, Of
  <2>2. Sum({}) = 0 /\ Cardinality({}) = 0
    BY SumEmpty, FS_EmptySet DEF Sum
  <2> QED
    BY <2>1, <2>2, SMTT(30) DEF Init, AnsweredGiftCounts
<1> QED
  BY <1>1, TypesInit, TypesStep, AnsweredStep, PTL DEF Spec

=============================================================================
