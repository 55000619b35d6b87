---------------------------- MODULE SprayClient ----------------------------
(* A guest sprays in one gift room: the swipe (NoteGesture), useSprayState  *)
(* and the canvas of the overlay, GiftRoom's optimistic balance, the worker *)
(* that adds up sprays until they pause for 300 ms, useGiftSender's POST    *)
(* and the server's answer to it (the debit of GiftSend).  GiftRoom's       *)
(* overlay has one kind of note.                                            *)
EXTENDS NoteGesture, FiniteSets, Functions

CONSTANTS
  Note,        \* value of a note (1000 in the code)
  Sends,       \* bound: POSTs under way at a time
  Openings,    \* balances the wallet may have at first
  MaxFlying,   \* flying notes of the device's tier
  PerCall,     \* notes a swipe makes fly at most
  MaxVisits,   \* bound: pages and overlays opened
  MaxMishaps,  \* bound: steps after which the balance shown may be wrong
  Missing      \* no balance yet

ASSUME SprayAssumption ==
  /\ Note \in Nat \ {0} /\ Openings \subseteq Nat /\ Missing \notin Int
  /\ {MaxFlying, PerCall, MaxVisits, MaxMishaps} \subseteq Nat
  /\ IsFiniteSet(Sends)

VARIABLES
  funds,      \* the balance at the server
  page,       \* number of the room page that is mounted, 0 for none
  visits,     \* pages mounted so far, and overlays opened
  last,       \* the page whose handler the worker calls
  token,      \* that page has its token
  hasFetched, \* it has asked for its balance
  fetched,    \* the answer on its way
  shown,      \* wallet.balance of the page
  initial,    \* initialBalanceRef
  dropped,    \* ghost: a batch went nowhere while that page was mounted
  overlay,    \* the spray overlay is open
  remaining,  \* remainingRef of useSprayState
  sprayed,    \* ghost: what this overlay has sprayed
  flying,     \* notes on the canvas
  owed,       \* pendingDebitRef
  frame,      \* balanceFlushRef: a frame will subtract it
  late,       \* updaters of the balance React has not run yet
  batch,      \* the worker's pendingAmount; its timer is set
  post,       \* each POST: where it is, its amount, its page
  mishaps

screen == <<page, visits, last, token, hasFetched, fetched, initial, dropped, overlay>>
spraying == <<remaining, sprayed, flying>>
debit == <<owed, frame, late>>
vars == <<gesture, funds, screen, shown, spraying, debit, batch, post, mishaps>>

Idle == [at |-> "idle", amount |-> 0, page |-> 0]

Init ==
  /\ GestureInit
  /\ funds \in Openings
  /\ page = 0 /\ visits = 0 /\ last = 0
  /\ token = FALSE /\ hasFetched = FALSE
  /\ fetched = Missing /\ shown = Missing /\ initial = Missing
  /\ dropped = FALSE /\ overlay = FALSE
  /\ remaining = 0 /\ sprayed = 0 /\ flying = 0
  /\ owed = 0 /\ frame = FALSE /\ late = 0
  /\ batch = 0
  /\ post = [s \in Sends |-> Idle]
  /\ mishaps = 0

Mishap == mishaps < MaxMishaps /\ mishaps' = mishaps + 1
UnderWay == {s \in Sends : post[s].at # "idle"}
Settled == batch = 0 /\ UnderWay = {}
Least(a, b) == IF a < b THEN a ELSE b

-----------------------------------------------------------------------------
(* The page: useWallet fetches the balance once, each page on its own; it   *)
(* may overtake what the page before still has to charge.                   *)

Mount ==
  /\ page = 0 /\ visits < MaxVisits
  /\ visits' = visits + 1
  /\ page' = visits + 1 /\ last' = visits + 1
  /\ token' = FALSE /\ hasFetched' = FALSE /\ dropped' = FALSE
  /\ IF Settled THEN UNCHANGED mishaps ELSE Mishap
  /\ UNCHANGED <<gesture, funds, fetched, initial, overlay, shown, spraying, debit, batch, post>>

GetToken ==
  /\ page # 0 /\ ~token
  /\ token' = TRUE
  /\ UNCHANGED <<gesture, funds, dropped, page, visits, last, hasFetched, fetched, initial, overlay, shown, spraying, debit, batch, post, mishaps>>

(* useWallet has a token of its own; the server reads the balance. *)
FetchBalance ==
  /\ page # 0 /\ ~hasFetched
  /\ hasFetched' = TRUE
  /\ fetched' = funds
  /\ UNCHANGED <<gesture, funds, dropped, page, visits, last, token, initial, overlay, shown, spraying, debit, batch, post, mishaps>>

(* initialBalanceRef keeps the first balance the page has shown.            *)
Show(amount) ==
  /\ shown' = amount
  /\ initial' = IF initial = Missing THEN amount ELSE initial

SetBalance ==
  /\ page # 0 /\ fetched # Missing
  /\ Show(fetched)
  /\ fetched' = Missing
  /\ UNCHANGED <<gesture, funds, dropped, page, visits, last, token, hasFetched, overlay, spraying, debit, batch, post, mishaps>>

(* The overlay starts from the balance the page began with. *)
OpenOverlay ==
  /\ page # 0 /\ shown # Missing /\ ~overlay /\ visits < MaxVisits
  /\ visits' = visits + 1
  /\ overlay' = TRUE
  /\ remaining' = initial /\ sprayed' = 0 /\ flying' = 0
  /\ UNCHANGED <<gesture, funds, dropped, page, last, token, hasFetched, fetched, initial, shown, debit, batch, post, mishaps>>

CloseOverlay ==
  /\ overlay
  /\ overlay' = FALSE
  /\ Forget
  /\ remaining' = 0 /\ sprayed' = 0 /\ flying' = 0
  /\ UNCHANGED <<funds, dropped, page, visits, last, token, hasFetched, fetched, initial, shown, debit, batch, post, mishaps>>

(* The page goes; the worker, which belongs to the module, keeps its batch. *)
Unmount ==
  /\ page # 0 /\ ~overlay
  /\ page' = 0
  /\ fetched' = Missing /\ shown' = Missing /\ initial' = Missing
  /\ owed' = 0 /\ frame' = FALSE /\ late' = 0
  /\ UNCHANGED <<gesture, funds, dropped, visits, last, token, hasFetched, overlay, spraying, batch, post, mishaps>>

-----------------------------------------------------------------------------
(* The spray.  The variant above a helper makes one mistake.                *)

(* The notes left, the last of them perhaps worth more than the rest.       *)
AllNotes(count) == count
ActualCount(count) == Least(count, (remaining + Note - 1) \div Note)

Spawned(count) == flying + Least(count, Least(MaxFlying - flying, PerCall))

(* A swipe: dismiss makes notes fly, then spray counts them, and handleSend *)
(* takes the debit and posts the spray to the worker.                       *)
Swipe ==
  /\ overlay
  /\ LET debited == Note * ActualCount(NotesToSpray)
     IN IF remaining > 0
        THEN /\ flying' = Spawned(NotesToSpray)
             /\ remaining' = IF debited < remaining THEN remaining - debited ELSE 0
             /\ sprayed' = sprayed + debited
             /\ owed' = owed + debited
             /\ frame' = TRUE
             /\ batch' = batch + debited
        ELSE UNCHANGED <<spraying, owed, frame, batch>>
  /\ DragEnds
  /\ UNCHANGED <<funds, screen, shown, late, post, mishaps>>

(* A frame of the canvas drops notes that have faded or left it.            *)
Cull ==
  /\ flying > 0
  /\ flying' \in 0..flying - 1
  /\ UNCHANGED <<gesture, funds, screen, shown, remaining, sprayed, debit, batch, post, mishaps>>

-----------------------------------------------------------------------------
(* The optimistic balance.  The updater reads pendingDebitRef when React    *)
(* runs it: in setBalance if nothing else waits on the component, else when *)
(* it renders, with the ref reset and perhaps filled again.                 *)

Subtracted == shown - owed

EagerDebit ==
  /\ page # 0 /\ frame /\ late = 0
  /\ shown' = Subtracted
  /\ owed' = 0 /\ frame' = FALSE
  /\ UNCHANGED <<gesture, funds, screen, spraying, late, batch, post, mishaps>>

LateDebit ==
  /\ page # 0 /\ frame
  /\ Mishap
  /\ late' = late + 1
  /\ owed' = 0 /\ frame' = FALSE
  /\ UNCHANGED <<gesture, funds, screen, shown, spraying, batch, post>>

RenderDebit ==
  /\ page # 0 /\ late > 0
  /\ shown' = shown - late * owed
  /\ late' = 0
  /\ UNCHANGED <<gesture, funds, screen, spraying, owed, frame, batch, post, mishaps>>

-----------------------------------------------------------------------------
(* The worker's pause is over: one POST for the batch.                      *)

To(s, place) == post' = [post EXCEPT ![s].at = place]

Due == batch > 0 /\ token

Flush ==
  /\ Due
  /\ UnderWay # Sends
  /\ LET s == CHOOSE s \in Sends : s \notin UnderWay
     IN post' = [post EXCEPT ![s] = [at |-> "sent", amount |-> batch, page |-> last]]
  /\ batch' = 0
  /\ UNCHANGED <<gesture, funds, screen, shown, spraying, debit, mishaps>>

(* sendGift returns without a token, and nobody notices. *)
FlushDropped ==
  /\ batch > 0 /\ ~token
  /\ batch' = 0
  /\ dropped' = (dropped \/ page # 0)
  /\ UNCHANGED <<gesture, funds, page, visits, last, token, hasFetched, fetched, initial, overlay, shown, spraying, debit, post, mishaps>>

(* The controller's checks, and the debit. *)
Valid(amount) == amount > 0 /\ amount % Note = 0
Charge(s) ==
  /\ post[s].at = "sent"
  /\ IF Valid(post[s].amount) /\ funds >= post[s].amount
     THEN funds' = funds - post[s].amount /\ To(s, "charged")
     ELSE UNCHANGED funds /\ To(s, "refused")
  /\ UNCHANGED <<gesture, screen, shown, spraying, debit, batch, mishaps>>

(* The request never arrives, or the server fails before the debit. *)
PostFails(s) ==
  /\ post[s].at = "sent"
  /\ To(s, "refused")
  /\ UNCHANGED <<gesture, funds, screen, shown, spraying, debit, batch, mishaps>>

(* The server fails after the debit, or its answer is lost. *)
AnswerLost(s) ==
  /\ post[s].at = "charged"
  /\ Mishap
  /\ To(s, "refused")
  /\ UNCHANGED <<gesture, funds, screen, shown, spraying, debit, batch>>

Known == IF shown = Missing THEN 0 ELSE shown
RollBackAll(s) == Known + post[s].amount + owed
KeptBack(s) == Known
RolledBack(s) == Known + post[s].amount

(* The answer arrives; a failure gives the batch back to the page that      *)
(* sent it, if that is still there.                                         *)
Answered(s) ==
  /\ post[s].at \in {"charged", "refused"}
  /\ IF post[s].at = "refused" /\ post[s].page = page
     THEN Show(RolledBack(s))
     ELSE UNCHANGED <<shown, initial>>
  /\ post' = [post EXCEPT ![s] = Idle]
  /\ UNCHANGED <<gesture, funds, dropped, page, visits, last, token, hasFetched, fetched, overlay, spraying, debit, batch, mishaps>>

Gesture ==
  overlay /\ Touch /\ UNCHANGED <<funds, screen, shown, spraying, debit, batch, post, mishaps>>
Visit == Mount \/ GetToken \/ FetchBalance \/ SetBalance \/ OpenOverlay \/ CloseOverlay \/ Unmount
PauseOver == Flush \/ FlushDropped
Debits == EagerDebit \/ LateDebit \/ RenderDebit
Posts(s) == Charge(s) \/ PostFails(s) \/ AnswerLost(s) \/ Answered(s)

Next ==
  \/ Gesture \/ Swipe \/ Cull
  \/ Visit \/ Debits \/ PauseOver
  \/ \E s \in Sends : Posts(s)

Spec == Init /\ [][Next]_vars

(* The worker's timer fires, the server decides, and an answer or a timeout *)
(* of the request arrives.  A guest is obliged to nothing.                  *)
FairSpec == Spec /\ WF_vars(PauseOver) /\ \A s \in Sends : WF_vars(Posts(s))

-----------------------------------------------------------------------------
(* Every variable has its type; the canvas stays within its tier.           *)
TypeOK ==
  /\ GestureTypeOK
  /\ funds \in Nat
  /\ {page, visits, last} \subseteq 0..MaxVisits
  /\ {token, hasFetched, dropped, overlay, frame} \subseteq BOOLEAN
  /\ fetched \in Nat \cup {Missing} /\ initial \in Nat \cup {Missing}
  /\ shown \in Int \cup {Missing}
  /\ {remaining, sprayed, owed, late, batch} \subseteq Nat
  /\ flying \in 0..MaxFlying
  /\ post \in [Sends -> [at : {"idle", "sent", "charged", "refused"},
                         amount : Nat, page : 0..MaxVisits]]
  /\  mishaps \in 0..MaxMishaps

Amounts(where) ==
  SumFunctionOnSet([s \in Sends |-> IF post[s].at = where THEN post[s].amount ELSE 0], Sends)

(* The balance a guest sees, once every debit and refund under way is       *)
(* applied, is covered by the wallet at the server once every spray under   *)
(* way is charged: it never promises money the guest has already given -    *)
(* unless a mishap came first: a debit's updater run late, an answer lost,  *)
(* a page opened while the one before was still spraying.                   *)
BalanceIsHonest ==
  page # 0 /\ shown # Missing /\ mishaps = 0 =>
    shown - owed + Amounts("refused") <= funds - batch - Amounts("sent")

(* However swipes and charges add up, an overlay sprays less than one note  *)
(* more than the balance it was opened with.                                *)
OverlaySpraysItsBalance == overlay => sprayed < initial + Note

(* Again and again nothing is under way, also when the page was closed     *)
(* within the 300 ms, and a page that is there shows what the wallet holds: *)
(* each note sprayed on it was charged or given back - unless the page sent *)
(* a batch nowhere, for want of its token, or a mishap came first.          *)
SpraysSettle ==
  []<>(/\ Settled
       /\ page # 0 /\ shown # Missing /\ mishaps = 0 /\ ~dropped => shown - owed = funds)
=============================================================================
