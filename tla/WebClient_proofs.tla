-------------------------- MODULE WebClient_proofs --------------------------
(* What holds of three parts of the web client for any values of their      *)
(* constants: the optimistic balance of a spraying guest (SprayClient), the *)
(* stage of a spray overlay (SprayStage) and the page where a guest enters  *)
(* an event's code (JoinByCode).  The parts share no state: each theorem is *)
(* of one of them.                                                          *)
EXTENDS SprayClient, SprayStage, JoinByCode, FiniteSums, SequenceTheorems

-----------------------------------------------------------------------------
(* A guest's balance and spray (SprayClient).                               *)

(* No page, nothing of a page.  What is there belongs to the last page, and *)
(* an overlay, and a debit to be shown, to a page that knows its balance.   *)
PageInv ==
  /\ page = 0 => shown = Missing /\ fetched = Missing /\ owed = 0 /\ late = 0
  /\ page # 0 => page = last
  /\ overlay \/ frame \/ late > 0 => page # 0 /\ shown # Missing
  /\ shown # Missing => initial # Missing
  /\ batch > 0 => last # 0
  /\ \A s \in UnderWay : post[s].page # 0

SprayInv == TypeOK /\ PageInv

LEMMA SprayInvInit == Init => SprayInv
<1> SUFFICES ASSUME Init PROVE SprayInv
  OBVIOUS
<1> USE DEF Init
<1>1. GestureTypeOK
  <2>1. {pressed, dragging, holding, holdTimer, ticking} \subseteq BOOLEAN
    BY Zenon DEF GestureInit
  <2>2. charge \in 0..MaxNotes /\ ~ticking
    BY NotesAssumption DEF GestureInit
  <2> QED
    BY <2>1, <2>2 DEF GestureTypeOK
<1>2. \A s \in Sends : post[s] = Idle
  OBVIOUS
<1>3. TypeOK
  <2>1. {token, hasFetched, dropped, overlay, frame} \subseteq BOOLEAN
    BY Zenon
  <2>2. {page, visits, last} \subseteq 0..MaxVisits
    BY SprayAssumption
  <2>3. post \in [Sends -> [at : {"idle", "sent", "charged", "refused"}, amount : Nat, page : 0..MaxVisits]]
    BY SprayAssumption DEF Idle
  <2> QED
    BY <1>1, <2>1, <2>2, <2>3, SprayAssumption DEF TypeOK
<1>4. PageInv
  BY <1>2 DEF PageInv, UnderWay, Idle
<1> QED
  BY <1>3, <1>4 DEF SprayInv

LEMMA GestureTypes ==
  ASSUME GestureTypeOK, Touch \/ DragEnds \/ Forget \/ UNCHANGED gesture
  PROVE  GestureTypeOK'
<1>1. {pressed, dragging, holding, holdTimer, ticking}' \subseteq BOOLEAN
  <2>1. CASE Touch
    <3>1. CASE PointerDown \/ PointerMove
      BY <3>1, Zenon DEF GestureTypeOK, PointerDown, PointerMove
    <3>2. CASE HoldElapsed
      BY <3>2, Zenon DEF GestureTypeOK, HoldElapsed
    <3>3. CASE Tick
      <4>1. ticking' \in BOOLEAN /\ UNCHANGED <<pressed, dragging, holding, holdTimer>>
        <5>1. (charge + 1 < MaxNotes) \in BOOLEAN
          OBVIOUS
        <5> QED
          BY <3>3, <5>1, Zenon DEF Tick
      <4> QED
        BY <4>1, Zenon DEF GestureTypeOK
    <3>4. CASE DragStart \/ Lift
      BY <3>4, Zenon DEF GestureTypeOK, DragStart, Lift
    <3>5. CASE PointerCancel \/ Drop
      BY <3>5, Zenon DEF GestureTypeOK, PointerCancel, Drop, DragEnds, ResetCharge
    <3> QED
      BY <2>1, <3>1, <3>2, <3>3, <3>4, <3>5 DEF Touch
  <2>2. CASE DragEnds \/ Forget \/ UNCHANGED gesture
    BY <2>2, Zenon DEF GestureTypeOK, DragEnds, Forget, ResetCharge, gesture
  <2> QED
    BY <2>1, <2>2
<1>2. charge' \in 0..MaxNotes /\ (ticking' => charge' < MaxNotes)
  <2> USE NotesAssumption DEF GestureTypeOK
  <2>1. CASE PointerDown \/ PointerMove \/ DragStart \/ Lift \/ UNCHANGED gesture
    BY <2>1 DEF PointerDown, PointerMove, DragStart, Lift, gesture
  <2>2. CASE HoldElapsed
    BY <2>2 DEF HoldElapsed
  <2>3. CASE Tick
    <3>1. charge' = charge + 1 /\ charge < MaxNotes
      BY <2>3 DEF Tick
    <3>2. ticking' => charge + 1 < MaxNotes
      BY <2>3, Zenon DEF Tick
    <3> QED
      BY <3>1, <3>2
  <2>4. CASE PointerCancel \/ Drop \/ DragEnds \/ Forget
    BY <2>4 DEF PointerCancel, Drop, DragEnds, Forget, ResetCharge
  <2> QED
    BY <2>1, <2>2, <2>3, <2>4 DEF Touch
<1> QED
  BY <1>1, <1>2 DEF GestureTypeOK

(* What a spray of notes is worth: less than one note more than what is     *)
(* left.                                                                    *)
LEMMA NotesWorth ==
  ASSUME NEW r \in Nat, NEW n \in Nat
  PROVE  LET k == Least(n, (r + Note - 1) \div Note)
         IN k \in Nat /\ Note * k \in Nat /\ Note * k < r + Note
<1> DEFINE c == (r + Note - 1) \div Note
<1>1. Note \in Nat \ {0}
  BY SprayAssumption
<1>2. c \in Nat /\ Note * c <= r + Note - 1
  BY <1>1
<1> HIDE DEF c
<1>3. \A k \in Nat : k <= c => Note * k \in Nat /\ Note * k <= Note * c
  BY <1>1, <1>2
<1>4. Least(n, c) \in Nat /\ Least(n, c) <= c
  BY <1>2 DEF Least
<1> QED
  BY <1>1, <1>2, <1>3, <1>4 DEF c

LEMMA SprayInvStep == SprayInv /\ [Next]_vars => SprayInv'
<1> SUFFICES ASSUME SprayInv, [Next]_vars PROVE SprayInv'
  OBVIOUS
<1> USE SprayAssumption DEF PageInv, UnderWay, screen, spraying, debit
<1>0. GestureTypeOK /\ TypeOK /\ PageInv
  BY DEF SprayInv, TypeOK
<1> DEFINE Places == {"idle", "sent", "charged", "refused"}
           Post == [at : Places, amount : Nat, page : 0..MaxVisits]
<1>p. post \in [Sends -> Post]
  BY <1>0 DEF TypeOK
<1>t. ASSUME NEW s \in Sends, NEW place \in Places, To(s, place), post[s].page # 0
      PROVE  /\ post' \in [Sends -> Post]
             /\ \A r \in Sends : post'[r].at # "idle" => post[r].at # "idle" \/ post'[r].page # 0
             /\ \A r \in Sends : post'[r].page = post[r].page
  BY <1>t, <1>p DEF To
<1>1. CASE Gesture
  BY <1>0, <1>1, GestureTypes DEF Gesture, TypeOK, SprayInv
<1>2. CASE Swipe
  <2> DEFINE n == NotesToSpray
             debited == Note * ActualCount(n)
  <2>1. GestureTypeOK'
    BY <1>0, <1>2, GestureTypes DEF Swipe
  <2>2. n \in Nat
    BY <1>0 DEF GestureTypeOK, NotesToSpray
  <2>3. remaining \in Nat /\ flying \in 0..MaxFlying
    BY <1>0 DEF TypeOK
  <2>4. debited \in Nat
    BY <2>2, <2>3, NotesWorth DEF ActualCount
  <2>5. Spawned(n) \in 0..MaxFlying
    BY <2>2, <2>3 DEF Spawned, Least
  <2> HIDE DEF n, debited
  <2>6. CASE remaining > 0
    <3>1. /\ flying' = Spawned(n)
          /\ remaining' = IF debited < remaining THEN remaining - debited ELSE 0
          /\ sprayed' = sprayed + debited /\ owed' = owed + debited
          /\ frame' = TRUE /\ batch' = batch + debited
      BY <1>2, <2>6 DEF Swipe, n, debited
    <3>2. overlay /\ UNCHANGED <<funds, screen, shown, late, post, mishaps>>
      BY <1>2 DEF Swipe
    <3>3. TypeOK'
      BY <1>0, <2>1, <2>3, <2>4, <2>5, <3>1, <3>2 DEF TypeOK
    <3>4. PageInv'
      BY <1>0, <3>1, <3>2
    <3> QED
      BY <3>3, <3>4 DEF SprayInv
  <2>7. CASE ~(remaining > 0)
    BY <1>0, <1>2, <2>1, <2>7 DEF Swipe, TypeOK, SprayInv
  <2> QED
    BY <2>6, <2>7
<1>3. CASE Cull
  <2>1. flying' \in 0..MaxFlying
    BY <1>0, <1>3 DEF Cull, TypeOK
  <2> QED
    BY <1>0, <1>3, <2>1, GestureTypes DEF Cull, TypeOK, SprayInv
<1>4. CASE Mount
  <2>1. mishaps' \in 0..MaxMishaps
    BY <1>0, <1>4 DEF Mount, Mishap, TypeOK
  <2>2. GestureTypeOK'
    BY <1>0, <1>4, GestureTypes DEF Mount
  <2>3. {token, hasFetched, dropped, overlay, frame}' \subseteq BOOLEAN
    BY <1>0, <1>4, Zenon DEF Mount, TypeOK, debit
  <2>4. {page', visits', last'} \subseteq 0..MaxVisits
    BY <1>0, <1>4 DEF Mount, TypeOK
  <2>5. UNCHANGED <<funds, fetched, initial, overlay, shown, spraying, debit, batch, post>>
    BY <1>4 DEF Mount
  <2>6. TypeOK'
    BY <1>0, <2>1, <2>2, <2>3, <2>4, <2>5 DEF TypeOK
  <2>7. PageInv'
    BY <1>0, <1>4, <2>5 DEF Mount, TypeOK
  <2> QED
    BY <2>6, <2>7 DEF SprayInv
<1>5. CASE GetToken \/ FetchBalance
  <2>1. GestureTypeOK'
    BY <1>0, <1>5, GestureTypes DEF GetToken, FetchBalance
  <2>2. {token, hasFetched, dropped}' \subseteq BOOLEAN /\ UNCHANGED <<overlay, frame>>
    BY <1>0, <1>5, Zenon DEF GetToken, FetchBalance, TypeOK
  <2>3. fetched' \in Nat \cup {Missing} /\ (page = 0 => fetched' = Missing)
    BY <1>0, <1>5 DEF GetToken, FetchBalance, TypeOK
  <2>4. UNCHANGED <<funds, page, visits, last, initial, shown, spraying, owed, late, batch, post, mishaps>>
    BY <1>5 DEF GetToken, FetchBalance
  <2>5. TypeOK'
    BY <1>0, <2>1, <2>2, <2>3, <2>4 DEF TypeOK
  <2>6. PageInv'
    BY <1>0, <2>2, <2>3, <2>4
  <2> QED
    BY <2>5, <2>6 DEF SprayInv
<1>6. CASE SetBalance
  BY <1>0, <1>6, GestureTypes DEF SetBalance, Show, TypeOK, SprayInv
<1>7. CASE OpenOverlay
  BY <1>0, <1>7, GestureTypes DEF OpenOverlay, TypeOK, SprayInv
<1>8. CASE CloseOverlay
  <2>1. GestureTypeOK'
    BY <1>0, <1>8, GestureTypes DEF CloseOverlay
  <2>2. /\ overlay' = FALSE /\ remaining' = 0 /\ sprayed' = 0 /\ flying' = 0
        /\ UNCHANGED <<funds, page, visits, last, token, hasFetched, fetched, initial, dropped, shown, debit, batch, post, mishaps>>
    BY <1>8 DEF CloseOverlay
  <2>3. {token, hasFetched, dropped, overlay, frame}' \subseteq BOOLEAN
    BY <1>0, <2>2, Zenon DEF TypeOK
  <2>4. TypeOK'
    BY <1>0, <2>1, <2>2, <2>3 DEF TypeOK
  <2>5. PageInv'
    BY <1>0, <2>2
  <2> QED
    BY <2>4, <2>5 DEF SprayInv
<1>9. CASE Unmount
  <2>1. GestureTypeOK'
    BY <1>0, <1>9, GestureTypes DEF Unmount
  <2>2. /\ page' = 0 /\ ~overlay /\ frame' = FALSE /\ owed' = 0 /\ late' = 0
        /\ fetched' = Missing /\ shown' = Missing /\ initial' = Missing
        /\ UNCHANGED <<funds, visits, last, token, hasFetched, dropped, overlay, spraying, batch, post, mishaps>>
    BY <1>9 DEF Unmount
  <2>3. {token, hasFetched, dropped, overlay, frame}' \subseteq BOOLEAN
    BY <1>0, <2>2, Zenon DEF TypeOK
  <2>4. TypeOK'
    BY <1>0, <2>1, <2>2, <2>3 DEF TypeOK
  <2>5. PageInv'
    BY <1>0, <2>2
  <2> QED
    BY <2>4, <2>5 DEF SprayInv
<1>10. CASE EagerDebit
  <2>1. shown' \in Int
    BY <1>0, <1>10 DEF EagerDebit, Subtracted, TypeOK
  <2> QED
    BY <1>0, <1>10, <2>1, GestureTypes DEF EagerDebit, TypeOK, SprayInv
<1>11. CASE LateDebit
  <2>1. GestureTypeOK'
    BY <1>0, <1>11, GestureTypes DEF LateDebit
  <2>2. /\ page # 0 /\ frame /\ late' = late + 1 /\ owed' = 0 /\ frame' = FALSE
        /\ UNCHANGED <<funds, screen, shown, spraying, batch, post>>
    BY <1>11 DEF LateDebit
  <2>3. mishaps' \in 0..MaxMishaps
    BY <1>0, <1>11 DEF LateDebit, Mishap, TypeOK
  <2>4. {token, hasFetched, dropped, overlay, frame}' \subseteq BOOLEAN
    BY <1>0, <2>2, Zenon DEF TypeOK
  <2>5. TypeOK'
    BY <1>0, <2>1, <2>2, <2>3, <2>4 DEF TypeOK
  <2>6. PageInv'
    BY <1>0, <2>2
  <2> QED
    BY <2>5, <2>6 DEF SprayInv
<1>12. CASE RenderDebit
  <2>1. shown' \in Int
    <3>1. late * owed \in Nat
      BY <1>0 DEF TypeOK
    <3> QED
      BY <1>0, <1>12, <3>1 DEF RenderDebit, TypeOK
  <2> QED
    BY <1>0, <1>12, <2>1, GestureTypes DEF RenderDebit, TypeOK, SprayInv
<1>13. CASE Flush
  <2> DEFINE s == CHOOSE s \in Sends : s \notin UnderWay
             new == [at |-> "sent", amount |-> batch, page |-> last]
  <2>1. new \in Post /\ new.page # 0
    BY <1>0, <1>13 DEF Flush, Due, TypeOK
  <2>2. post' = [post EXCEPT ![s] = new]
    BY <1>13 DEF Flush
  <2>3. post' \in [Sends -> Post] /\ \A r \in Sends : post'[r] \in {post[r], new}
    BY <1>p, <2>1, <2>2
  <2> HIDE DEF s, new
  <2>4. UNCHANGED <<gesture, funds, screen, shown, spraying, debit, mishaps>> /\ batch' = 0
    BY <1>13 DEF Flush
  <2>5. TypeOK'
    BY <1>0, <2>3, <2>4, GestureTypes DEF TypeOK
  <2>6. PageInv'
    BY <1>0, <2>1, <2>3, <2>4
  <2> QED
    BY <2>5, <2>6 DEF SprayInv
<1>14. CASE FlushDropped
  BY <1>0, <1>14, GestureTypes DEF FlushDropped, TypeOK, SprayInv
<1>15. ASSUME NEW s \in Sends, Posts(s) PROVE SprayInv'
  <2>1. post[s].at # "idle" => post[s].page # 0
    BY <1>0
  <2>2. CASE Charge(s)
    <3>1. To(s, "charged") \/ To(s, "refused")
      BY <2>2 DEF Charge
    <3>2. funds' \in Nat
      BY <1>0, <1>p, <2>2 DEF Charge, TypeOK
    <3> QED
      BY <1>0, <1>t, <2>1, <2>2, <3>1, <3>2, GestureTypes DEF Charge, TypeOK, SprayInv
  <2>3. CASE PostFails(s)
    BY <1>0, <1>t, <2>1, <2>3, GestureTypes DEF PostFails, TypeOK, SprayInv
  <2>4. CASE AnswerLost(s)
    <3>1. /\ To(s, "refused") /\ post[s].page # 0
          /\ UNCHANGED <<gesture, funds, screen, shown, spraying, debit, batch>>
      BY <2>1, <2>4 DEF AnswerLost
    <3>2. mishaps' \in 0..MaxMishaps
      BY <1>0, <2>4 DEF AnswerLost, Mishap, TypeOK
    <3>3. TypeOK'
      BY <1>0, <1>t, <3>1, <3>2, GestureTypes DEF TypeOK
    <3>4. PageInv'
      BY <1>0, <1>t, <3>1
    <3> QED
      BY <3>3, <3>4 DEF SprayInv
  <2>5. CASE Answered(s)
    <3>1. post' \in [Sends -> Post] /\ \A r \in Sends : post'[r].at # "idle" => post'[r] = post[r]
      BY <1>p, <2>5 DEF Answered, Idle
    <3>2. shown' \in Int \cup {Missing} /\ initial' \in Nat \cup {Missing}
      BY <1>0, <1>p, <2>5 DEF Answered, Show, RolledBack, Known, TypeOK
    <3>3. page = 0 => shown' = Missing
      BY <1>0, <2>1, <2>5 DEF Answered
    <3>4. (shown # Missing => shown' # Missing) /\ (shown' # Missing => initial' # Missing)
      BY <1>0, <1>p, <2>5 DEF Answered, Show, RolledBack, Known, TypeOK
    <3> QED
      BY <1>0, <2>5, <3>1, <3>2, <3>3, <3>4, GestureTypes DEF Answered, TypeOK, SprayInv
  <2> QED
    BY <1>15, <2>2, <2>3, <2>4, <2>5 DEF Posts
<1>16. CASE UNCHANGED vars
  BY <1>0, <1>16, GestureTypes DEF vars, TypeOK, SprayInv
<1> QED
  BY <1>1, <1>2, <1>3, <1>4, <1>5, <1>6, <1>7, <1>8, <1>9, <1>10, <1>11, <1>12, <1>13, <1>14, <1>15, <1>16
  DEF Next, Visit, Debits, PauseOver

(* Every variable of a spraying guest's page keeps its type, and the canvas *)
(* never has more notes than its device's tier. *)
THEOREM SprayTypes == Spec => []TypeOK
BY SprayInvInit, SprayInvStep, PTL DEF Spec, SprayInv

(* However swipes and charges add up, an overlay sprays less than one note  *)
(* more than the balance it was opened with.  That balance stays what it is *)
(* while the overlay is open.                                               *)
THEOREM SpraysItsBalance == Spec => []OverlaySpraysItsBalance
<1> DEFINE Remains ==
      overlay => IF remaining = 0 THEN sprayed < initial + Note ELSE sprayed + remaining = initial
<1>1. Init => Remains
  BY DEF Init
<1>2. SprayInv /\ Remains /\ [Next]_vars => Remains'
  <2> SUFFICES ASSUME SprayInv, Remains, [Next]_vars PROVE Remains'
    OBVIOUS
  <2> USE SprayAssumption DEF screen, spraying, debit
  <2>0. TypeOK /\ PageInv
    BY DEF SprayInv
  <2>1. CASE Swipe
    <3> DEFINE n == NotesToSpray
               k == ActualCount(n)
    <3>1. n \in Nat /\ remaining \in Nat /\ sprayed \in Nat /\ initial \in Nat
      BY <2>0, <2>1 DEF Swipe, TypeOK, GestureTypeOK, NotesToSpray, PageInv
    <3>2. k \in Nat /\ Note * k \in Nat /\ Note * k < remaining + Note
      BY <3>1, NotesWorth DEF ActualCount
    <3> HIDE DEF n, k
    <3>3. overlay /\ UNCHANGED <<overlay, initial>>
      BY <2>1 DEF Swipe
    <3>4. CASE remaining > 0
      <4>1. /\ remaining' = IF Note * k < remaining THEN remaining - Note * k ELSE 0
            /\ sprayed' = sprayed + Note * k
        BY <2>1, <3>4 DEF Swipe, n, k
      <4> QED
        BY <3>1, <3>2, <3>3, <3>4, <4>1
    <3>5. CASE ~(remaining > 0)
      BY <2>1, <3>3, <3>5 DEF Swipe
    <3> QED
      BY <3>4, <3>5
  <2>2. CASE OpenOverlay
    BY <2>0, <2>2 DEF OpenOverlay, TypeOK, PageInv
  <2>3. CASE CloseOverlay \/ Unmount
    BY <2>3 DEF CloseOverlay, Unmount
  <2>4. CASE SetBalance \/ \E s \in Sends : Answered(s)
    BY <2>0, <2>4 DEF SetBalance, Answered, Show, PageInv
  <2>5. CASE Gesture \/ Cull \/ Mount \/ GetToken \/ FetchBalance \/ Debits
    BY <2>5 DEF Gesture, Cull, Mount, GetToken, FetchBalance, Debits, EagerDebit, LateDebit, RenderDebit
  <2>6. CASE PauseOver \/ \E s \in Sends : Charge(s) \/ PostFails(s) \/ AnswerLost(s)
    BY <2>6 DEF PauseOver, Flush, FlushDropped, Charge, PostFails, AnswerLost
  <2>7. CASE UNCHANGED vars
    BY <2>7 DEF vars
  <2> QED
    BY <2>1, <2>2, <2>3, <2>4, <2>5, <2>6, <2>7 DEF Next, Visit, Posts
<1>3. SprayInv /\ Remains => OverlaySpraysItsBalance
  BY SprayAssumption DEF SprayInv, TypeOK, PageInv, OverlaySpraysItsBalance
<1> QED
  BY <1>1, <1>2, <1>3, SprayInvInit, SprayInvStep, PTL DEF Spec


(* The posts of one kind add up, and a step of one of them changes the sum  *)
(* by what it was and what it has become.                                   *)
Worth(p, where) == IF p.at = where THEN p.amount ELSE 0
Total(p, where) == SumFunctionOnSet([r \in Sends |-> Worth(p[r], where)], Sends)

LEMMA AmountsChange ==
  ASSUME NEW s \in Sends, NEW p, NEW q, NEW where,
         \A r \in Sends : p[r].amount \in Nat /\ q[r].amount \in Nat,
         \A r \in Sends : r # s => p[r] = q[r]
  PROVE  Total(q, where) = Total(p, where) - Worth(p[s], where) + Worth(q[s], where)
<1> DEFINE f == [r \in Sends |-> Worth(p[r], where)]
           g == [r \in Sends |-> Worth(q[r], where)]
<1>1. IsFiniteSet(Sends)
  BY SprayAssumption
<1>2. \A r \in Sends : f[r] \in Nat /\ g[r] \in Nat
  BY DEF Worth
<1>3. \A r \in Sends : r # s => f[r] = g[r]
  OBVIOUS
<1>4. f[s] = Worth(p[s], where) /\ g[s] = Worth(q[s], where)
  OBVIOUS
<1> HIDE DEF f, g
<1>5. SumFunctionOnSet(g, Sends) = SumFunctionOnSet(f, Sends) - f[s] + g[s]
  BY <1>1, <1>2, <1>3, SumChange
<1> QED
  BY <1>4, <1>5 DEF f, g, Total

LEMMA AmountsAre ==
  \A where : Amounts(where) = Total(post, where) /\ Amounts(where)' = Total(post', where)
BY DEF Amounts, Worth, Total

(* Without a mishap, what is under way is of the page that is there; a page *)
(* that has not shown its balance has sprayed nothing, and the balance on   *)
(* its way is the wallet's.                                                 *)
CalmInv ==
  mishaps = 0 /\ page # 0 =>
    /\ late = 0
    /\ \A s \in UnderWay : post[s].page = page
    /\ ~hasFetched => shown = Missing /\ fetched = Missing
    /\ shown # Missing => fetched = Missing
    /\ shown = Missing => Settled /\ owed = 0 /\ fetched \in {Missing, funds}

Covered ==
  page # 0 /\ shown # Missing /\ mishaps = 0 =>
    shown - owed + Amounts("refused") <= funds - batch - Amounts("sent")

LEMMA NoPostNoAmount ==
  ASSUME UnderWay = {}, NEW where, where # "idle"
  PROVE  Amounts(where) = 0
<1>1. [r \in Sends |-> Worth(post[r], where)] = [r \in Sends |-> 0]
  BY DEF UnderWay, Worth
<1> QED
  BY <1>1, AmountsAre, SumZero, SprayAssumption DEF Total


LEMMA AmountsType ==
  ASSUME TypeOK, NEW where
  PROVE  Amounts(where) \in Nat
<1> DEFINE f == [r \in Sends |-> Worth(post[r], where)]
<1>1. \A r \in Sends : f[r] \in Nat
  BY DEF TypeOK, Worth
<1> HIDE DEF f
<1>2. SumFunctionOnSet(f, Sends) \in Int /\ SumFunctionOnSet(f, Sends) >= 0
  BY <1>1, SumType, SumMember, SprayAssumption
<1> QED
  BY <1>2, AmountsAre DEF f, Total

LEMMA CalmStep ==
  ASSUME SprayInv, SprayInv', CalmInv, Covered, [Next]_vars
  PROVE  CalmInv' /\ Covered'
<1> USE SprayAssumption DEF screen, spraying, debit
<1>0. TypeOK /\ PageInv
  BY DEF SprayInv
<1>1. /\ funds \in Nat /\ owed \in Nat /\ batch \in Nat /\ mishaps \in Nat
      /\ shown # Missing => shown \in Int
      /\ post \in [Sends -> [at : {"idle", "sent", "charged", "refused"}, amount : Nat, page : Nat]]
      /\ Amounts("sent") \in Nat /\ Amounts("refused") \in Nat
  BY <1>0, AmountsType DEF TypeOK
<1>2. \A r \in Sends : post[r].amount \in Nat /\ post'[r].amount \in Nat
  BY DEF SprayInv, TypeOK
<1>s. ASSUME NEW s \in Sends, \A r \in Sends : r # s => post[r] = post'[r], NEW where
      PROVE  Amounts(where)' = Amounts(where) - Worth(post[s], where) + Worth(post'[s], where)
  BY <1>2, <1>s, AmountsChange, AmountsAre
<1>u. ASSUME UNCHANGED post
      PROVE  UNCHANGED <<UnderWay, Amounts("sent"), Amounts("refused")>>
  BY <1>u DEF UnderWay, Amounts
<1>3. ASSUME UNCHANGED <<funds, page, hasFetched, fetched, shown, owed, late, batch, post, mishaps>>
      PROVE  CalmInv' /\ Covered'
  BY <1>3, <1>u DEF CalmInv, Covered, Settled
<1>4. CASE Swipe
  <2> DEFINE debited == Note * ActualCount(NotesToSpray)
  <2>1. debited \in Nat
    <3>1. NotesToSpray \in Nat /\ remaining \in Nat
      BY <1>0 DEF NotesToSpray, TypeOK, GestureTypeOK
    <3> QED
      BY <3>1, NotesWorth DEF ActualCount
  <2> HIDE DEF debited
  <2>2. /\ shown # Missing
        /\ UNCHANGED <<funds, page, hasFetched, fetched, shown, late, post, mishaps>>
    BY <1>0, <1>4 DEF Swipe, PageInv
  <2>3. CASE remaining > 0
    <3>1. owed' = owed + debited /\ batch' = batch + debited
      BY <1>4, <2>3 DEF Swipe, debited
    <3> QED
      BY <1>1, <1>u, <2>1, <2>2, <3>1 DEF CalmInv, Covered
  <2>4. CASE ~(remaining > 0)
    BY <1>3, <1>4, <2>2, <2>4 DEF Swipe
  <2> QED
    BY <2>3, <2>4
<1>5. CASE Mount
  <2>1. shown = Missing /\ fetched = Missing /\ owed = 0 /\ late = 0
    BY <1>0, <1>5 DEF Mount, PageInv
  <2>2. UNCHANGED <<funds, fetched, shown, owed, late, batch, post>> /\ ~hasFetched'
    BY <1>5 DEF Mount
  <2>3. mishaps' = 0 => Settled
    BY <1>1, <1>5 DEF Mount, Mishap
  <2>4. Settled => Settled'
    BY <1>u, <2>2 DEF Settled
  <2> QED
    BY <2>1, <2>2, <2>3, <2>4 DEF CalmInv, Covered, Settled
<1>6. CASE FetchBalance
  <2>1. UNCHANGED <<funds, page, shown, owed, late, batch, post, mishaps>> /\ ~hasFetched /\ hasFetched' /\ fetched' = funds
    BY <1>6 DEF FetchBalance
  <2> QED
    BY <1>u, <2>1 DEF CalmInv, Covered, Settled
<1>7. CASE SetBalance
  <2>1. /\ page # 0 /\ fetched # Missing /\ shown' = fetched /\ fetched' = Missing
        /\ UNCHANGED <<funds, page, hasFetched, owed, late, batch, post, mishaps>>
    BY <1>7 DEF SetBalance, Show
  <2>2. SUFFICES ASSUME mishaps = 0 PROVE CalmInv' /\ Covered'
    BY <2>1 DEF CalmInv, Covered
  <2>3. shown = Missing /\ hasFetched /\ batch = 0 /\ UnderWay = {} /\ owed = 0 /\ fetched = funds
    BY <2>1, <2>2 DEF CalmInv, Settled
  <2>4. Amounts("sent") = 0 /\ Amounts("refused") = 0
    BY <2>3, NoPostNoAmount
  <2> QED
    BY <1>1, <1>u, <2>1, <2>2, <2>3, <2>4 DEF CalmInv, Covered
<1>8. CASE Unmount
  BY <1>8 DEF Unmount, CalmInv, Covered
<1>9. CASE EagerDebit
  <2>1. /\ shown # Missing /\ shown' = shown - owed /\ owed' = 0
        /\ UNCHANGED <<funds, page, hasFetched, fetched, late, batch, post, mishaps>>
    BY <1>0, <1>9 DEF EagerDebit, Subtracted, PageInv
  <2> QED
    BY <1>1, <1>u, <2>1 DEF CalmInv, Covered
<1>10. CASE LateDebit \/ \E s \in Sends : AnswerLost(s)
  <2>1. mishaps' # 0
    BY <1>1, <1>10 DEF LateDebit, AnswerLost, Mishap
  <2> QED
    BY <2>1 DEF CalmInv, Covered
<1>11. CASE RenderDebit
  <2>1. page # 0 /\ late > 0 /\ UNCHANGED mishaps
    BY <1>11 DEF RenderDebit
  <2>2. mishaps' # 0
    BY <2>1 DEF CalmInv
  <2> QED
    BY <2>2 DEF CalmInv, Covered
<1>12. CASE Flush
  <2> DEFINE s == CHOOSE s \in Sends : s \notin UnderWay
             new == [at |-> "sent", amount |-> batch, page |-> last]
  <2>1. s \in Sends /\ s \notin UnderWay
    BY <1>12 DEF Flush, UnderWay
  <2>2. post' = [post EXCEPT ![s] = new]
    BY <1>12 DEF Flush
  <2>3. post'[s] = new /\ post[s].at = "idle" /\ \A r \in Sends : r # s => post[r] = post'[r]
    BY <1>1, <2>1, <2>2 DEF UnderWay
  <2>n. new.at = "sent" /\ new.amount = batch /\ new.page = last
    OBVIOUS
  <2> HIDE DEF s, new
  <2>4. Amounts("sent")' = Amounts("sent") + batch /\ Amounts("refused")' = Amounts("refused")
    BY <1>1, <1>s, <2>1, <2>3, <2>n DEF Worth
  <2>5. /\ batch > 0 /\ batch' = 0
        /\ UNCHANGED <<funds, page, hasFetched, fetched, shown, owed, late, mishaps>>
    BY <1>12 DEF Flush, Due
  <2>6. UnderWay' = UnderWay \cup {s}
    BY <2>1, <2>3, <2>n DEF UnderWay
  <2>7. CalmInv'
    <3> SUFFICES ASSUME mishaps = 0, page # 0 PROVE CalmInv'
      BY <2>5 DEF CalmInv
    <3>1. shown # Missing
      BY <2>5 DEF CalmInv, Settled
    <3>2. \A r \in UnderWay' : post'[r].page = page
      <4>1. post'[s].page = page
        BY <1>0, <2>3, <2>n DEF PageInv
      <4>2. ASSUME NEW r \in UnderWay PROVE post'[r].page = page
        <5>1. r \in Sends /\ r # s
          BY <2>1 DEF UnderWay
        <5> QED
          BY <2>3, <5>1 DEF CalmInv
      <4> QED
        BY <2>6, <4>1, <4>2
    <3> QED
      BY <2>5, <3>1, <3>2 DEF CalmInv
  <2>8. Covered'
    BY <1>1, <2>4, <2>5 DEF Covered
  <2> QED
    BY <2>7, <2>8
<1>13. CASE FlushDropped
  <2>1. batch' = 0 /\ UNCHANGED <<funds, page, hasFetched, fetched, shown, owed, late, post, mishaps>>
    BY <1>13 DEF FlushDropped
  <2> QED
    BY <1>1, <1>u, <2>1 DEF CalmInv, Covered, Settled
<1>p. ASSUME NEW s \in Sends, NEW place \in {"charged", "refused"}, post[s].at = "sent", To(s, place)
      PROVE  /\ UnderWay' = UnderWay /\ \A r \in Sends : post'[r].page = post[r].page
             /\ Amounts("sent")' = Amounts("sent") - post[s].amount
             /\ Amounts("refused")' = Amounts("refused") + (IF place = "refused" THEN post[s].amount ELSE 0)
  <2>1. \A r \in Sends : r # s => post[r] = post'[r]
    BY <1>1, <1>p DEF To
  <2>2. post'[s].at = place /\ post'[s].amount = post[s].amount /\ post'[s].page = post[s].page
    BY <1>1, <1>p DEF To
  <2>3. UnderWay' = UnderWay
    BY <1>p, <2>1, <2>2 DEF UnderWay
  <2> QED
    BY <1>1, <1>p, <1>s, <2>1, <2>2, <2>3 DEF Worth
<1>14. ASSUME NEW s \in Sends, Charge(s) \/ PostFails(s) PROVE CalmInv' /\ Covered'
  <2>1. post[s].at = "sent" /\ UNCHANGED <<page, hasFetched, fetched, shown, owed, late, batch, mishaps>>
    BY <1>14 DEF Charge, PostFails
  <2>2. UnderWay # {}
    BY <2>1 DEF UnderWay
  <2>3. \/ To(s, "charged") /\ funds' = funds - post[s].amount
        \/ To(s, "refused") /\ funds' = funds
    BY <1>14 DEF Charge, PostFails
  <2>4. /\ UnderWay' = UnderWay /\ \A r \in Sends : post'[r].page = post[r].page
        /\ Amounts("sent")' = Amounts("sent") - post[s].amount
    BY <1>p, <2>1, <2>3
  <2>5. CalmInv'
    <3> SUFFICES ASSUME mishaps = 0, page # 0 PROVE CalmInv'
      BY <2>1 DEF CalmInv
    <3>1. shown # Missing
      BY <2>2 DEF CalmInv, Settled
    <3>2. \A r \in UnderWay' : post'[r].page = page
      BY <2>4 DEF CalmInv, UnderWay
    <3> QED
      BY <2>1, <3>1, <3>2 DEF CalmInv
  <2>6. CASE To(s, "charged") /\ funds' = funds - post[s].amount
    <3>1. Amounts("refused")' = Amounts("refused") + 0
      BY <1>p, <2>1, <2>6
    <3> QED
      BY <1>1, <1>2, <2>1, <2>4, <2>5, <2>6, <3>1 DEF Covered
  <2>7. CASE To(s, "refused") /\ funds' = funds
    <3>1. Amounts("refused")' = Amounts("refused") + post[s].amount
      BY <1>p, <2>1, <2>7
    <3> QED
      BY <1>1, <1>2, <2>1, <2>4, <2>5, <2>7, <3>1 DEF Covered
  <2> QED
    BY <2>3, <2>6, <2>7
<1>15. ASSUME NEW s \in Sends, Answered(s) PROVE CalmInv' /\ Covered'
  <2>1. /\ post[s].at \in {"charged", "refused"}
        /\ UNCHANGED <<funds, page, hasFetched, fetched, owed, late, batch, mishaps>>
    BY <1>15 DEF Answered
  <2>2. post'[s] = Idle /\ \A r \in Sends : r # s => post[r] = post'[r]
    BY <1>1, <1>15 DEF Answered
  <2>3. UnderWay' = UnderWay \ {s} /\ s \in UnderWay
    BY <2>1, <2>2 DEF UnderWay, Idle
  <2>4. /\ Amounts("sent")' = Amounts("sent")
        /\ Amounts("refused")' = Amounts("refused") - (IF post[s].at = "refused" THEN post[s].amount ELSE 0)
    BY <1>1, <1>s, <2>1, <2>2 DEF Worth, Idle
  <2>5. SUFFICES ASSUME mishaps = 0, page # 0 PROVE CalmInv' /\ Covered'
    BY <2>1 DEF CalmInv, Covered
  <2>6. shown # Missing /\ post[s].page = page
    BY <2>3, <2>5 DEF CalmInv, Settled
  <2>7. shown' = IF post[s].at = "refused" THEN shown + post[s].amount ELSE shown
    BY <1>15, <2>6 DEF Answered, Show, RolledBack, Known
  <2>8. shown' # Missing
    BY <1>1, <1>2, <2>6, <2>7
  <2>9. CalmInv'
    <3>1. \A r \in UnderWay' : post'[r].page = page
      <4> SUFFICES ASSUME NEW r \in UnderWay' PROVE post'[r].page = page
        OBVIOUS
      <4>1. r \in UnderWay /\ r \in Sends /\ r # s
        BY <2>3 DEF UnderWay
      <4> QED
        BY <2>2, <2>5, <4>1 DEF CalmInv
    <3> QED
      BY <2>1, <2>5, <2>6, <2>8, <3>1 DEF CalmInv
  <2>10. Covered'
    BY <1>1, <1>2, <2>1, <2>4, <2>5, <2>6, <2>7 DEF Covered
  <2> QED
    BY <2>9, <2>10
<1>16. CASE Gesture \/ Cull \/ GetToken \/ OpenOverlay \/ CloseOverlay \/ UNCHANGED vars
  BY <1>3, <1>16 DEF Gesture, Cull, GetToken, OpenOverlay, CloseOverlay, vars
<1> QED
  BY <1>4, <1>5, <1>6, <1>7, <1>8, <1>9, <1>10, <1>11, <1>12, <1>13, <1>14, <1>15, <1>16
  DEF Next, Visit, Debits, PauseOver, Posts

(* The balance a guest sees is covered by the wallet once everything under  *)
(* way is settled: an overlay's sprays are owed and batched in one step,    *)
(* and each later step moves an amount from one place to the next.          *)
THEOREM BalanceStaysHonest == Spec => []BalanceIsHonest
<1>1. Init => CalmInv /\ Covered
  BY DEF Init, CalmInv, Covered
<1>2. SprayInv /\ SprayInv' /\ CalmInv /\ Covered /\ [Next]_vars => CalmInv' /\ Covered'
  BY CalmStep
<1>3. Covered => BalanceIsHonest
  BY DEF Covered, BalanceIsHonest
<1> QED
  BY <1>1, <1>2, <1>3, SprayInvInit, SprayInvStep, PTL DEF Spec

-----------------------------------------------------------------------------
(* The stage of an overlay (SprayStage).                                    *)

(* The frame that spray asks for renders what is left when it comes, so the *)
(* counter is right once no frame is under way, and no such frame shows an  *)
(* amount again after the last note.                                        *)
THEOREM CounterIsRight == StageSpec => []CounterFollows
<1>1. StageInit => CounterFollows
  BY DEF StageInit, CounterFollows
<1>2. CounterFollows /\ [StageNext]_stage => CounterFollows'
  <2> SUFFICES ASSUME CounterFollows, [StageNext]_stage PROVE CounterFollows'
    OBVIOUS
  <2>1. ASSUME NEW total \in Totals, Open(total) PROVE CounterFollows'
    BY <2>1 DEF Open, CounterFollows
  <2>2. CASE Close
    BY <2>2 DEF Close, CounterFollows
  <2>3. ASSUME NEW count \in Counts, SwipeNotes(count) PROVE CounterFollows'
    <3>1. CASE left' = 0
      <4>1. counter' = 0
        BY <2>3, <3>1 DEF SwipeNotes
      <4> QED
        BY <3>1, <4>1 DEF CounterFollows
    <3>2. CASE left' # 0
      <4>1. asked'
        BY <2>3, <3>2 DEF SwipeNotes
      <4> QED
        BY <3>2, <4>1 DEF CounterFollows
    <3> QED
      BY <3>1, <3>2
  <2>4. CASE Render
    <3>1. counter' = left /\ left' = left
      BY <2>4 DEF Render, Rendered
    <3> QED
      BY <3>1 DEF CounterFollows
  <2>5. CASE Frame \/ \E v \in 1..MaxOverlays : Play(v)
    <3>1. UNCHANGED <<mounted, left, counter, asked>>
      BY <2>5 DEF Frame, Play, StartParty, PartyFrame, amount
    <3> QED
      BY <3>1 DEF CounterFollows
  <2>6. CASE UNCHANGED stage
    BY <2>6 DEF stage, amount, CounterFollows
  <2> QED
    BY <2>1, <2>2, <2>3, <2>4, <2>5, <2>6 DEF StageNext
<1> QED
  BY <1>1, <1>2, PTL DEF StageSpec

(* How many pieces of a kind have so many frames left, and how many in all. *)
Population == [1..Life -> Nat]
Size(p) == SumFunctionOnSet(p, 1..Life)

(* A piece has finitely many frames to live. *)
LEMMA FramesFinite == Life \in Nat \ {0} /\ IsFiniteSet(1..Life)
<1>1. Life \in Nat \ {0}
  BY StageAssumption
<1> QED
  BY <1>1, FS_Interval

(* A population is a number of pieces. *)
LEMMA SizeType ==
  ASSUME NEW p \in Population
  PROVE  Size(p) \in Nat
<1>1. \A n \in 1..Life : p[n] \in Int /\ p[n] >= 0
  BY DEF Population
<1>2. SumFunctionOnSet(p, 1..Life) \in Int
  BY <1>1, FramesFinite, SumType
<1>3. SumFunctionOnSet(p, 1..Life) >= 0
  BY <1>1, FramesFinite, SumMember
<1> QED
  BY <1>2, <1>3 DEF Size

(* The canvas starts without pieces. *)
LEMMA EmptyPopulations ==
  \A k \in Kinds : Empty[k] \in Population /\ Size(Empty[k]) = 0
<1>1. SumFunctionOnSet([n \in 1..Life |-> 0], 1..Life) = 0
  BY FramesFinite, SumZero
<1> QED
  BY <1>1 DEF Empty, Population, Size

(* Pieces that join a population add to its size. *)
LEMMA GrownSize ==
  ASSUME alive \in [Kinds -> Population], NEW k \in Kinds, NEW n \in Int, NEW p \in Grown(k, n)
  PROVE  p \in Population /\ Size(p) = Number(k) + n
<1>1. PICK more \in [1..Life -> 0..n] :
        SumFunctionOnSet(more, 1..Life) = n /\ p = [m \in 1..Life |-> alive[k][m] + more[m]]
  BY DEF Grown
<1>2. alive[k] \in Population
  OBVIOUS
<1> DEFINE old == alive[k]
<1>3. \A m \in 1..Life : old[m] \in Nat /\ more[m] \in Nat /\ p[m] = old[m] + more[m]
  BY <1>1, <1>2 DEF Population
<1>4. \A m \in 1..Life : old[m] \in Int /\ more[m] \in Int /\ p[m] = old[m] + more[m]
  BY <1>3
<1>5. SumFunctionOnSet(p, 1..Life) = SumFunctionOnSet(old, 1..Life) + SumFunctionOnSet(more, 1..Life)
  <2> HIDE DEF old
  <2> QED
    BY <1>4, FramesFinite, SumPlus
<1>6. p \in Population
  BY <1>1, <1>3 DEF Population
<1> QED
  BY <1>1, <1>5, <1>6 DEF Size, Number

(* A frame drops the pieces that had one left, and moves the others on.     *)
LEMMA AgedSize ==
  ASSUME alive \in [Kinds -> Population], NEW k \in Kinds,
         NEW p, p = [n \in 1..Life |-> Aged(k, n)]
  PROVE  p \in Population /\ Size(p) <= Number(k)
<1> DEFINE f == alive[k]
<1>h. PICK h : h = [n \in 1..Life - 1 |-> n + 1]
  OBVIOUS
<1>1. Life \in Nat \ {0}
  BY FramesFinite
<1>2. f \in Population
  OBVIOUS
<1>3. p \in Population /\ p[Life] = 0 /\ \A n \in 1..Life - 1 : p[n] = f[n + 1] /\ f[n + 1] \in Nat
  BY <1>1, <1>2 DEF Population, Aged
<1>4. IsFiniteSet(1..Life) /\ IsFiniteSet(1..Life - 1)
  BY <1>1, FramesFinite, FS_Interval
<1> HIDE DEF f
<1>5. SumFunctionOnSet(p, 1..Life - 1) = SumFunctionOnSet(f, 2..Life)
  <2> PICK S, T : S = 1..Life - 1 /\ T = 2..Life
    OBVIOUS
  <2>1. \A n \in S : h[n] = n + 1 /\ n + 1 \in T /\ f[n + 1] \in Int /\ p[n] = f[n + 1]
    <3> SUFFICES ASSUME NEW n \in S
                 PROVE  h[n] = n + 1 /\ n + 1 \in T /\ f[n + 1] \in Int /\ p[n] = f[n + 1]
      OBVIOUS
    <3>1. h[n] = n + 1 /\ n + 1 \in T
      BY <1>1, <1>h
    <3>2. p[n] = f[n + 1] /\ f[n + 1] \in Nat
      BY <1>3
    <3> QED
      BY <3>1, <3>2
  <2>2. \A y \in T : \E n \in S : y = h[n]
    <3> SUFFICES ASSUME NEW y \in T PROVE \E n \in S : y = h[n]
      OBVIOUS
    <3>1. y - 1 \in S /\ y = h[y - 1]
      BY <1>1, <1>h
    <3> QED
      BY <3>1
  <2>3. \A m, n \in S : h[m] = h[n] => m = n
    BY <1>1, <1>h
  <2>4. IsFiniteSet(S)
    BY <1>4
  <2>5. \A n \in S : h[n] \in T /\ f[h[n]] \in Int /\ p[n] = f[h[n]]
    BY <2>1
  <2>6. SumFunctionOnSet(p, S) = SumFunctionOnSet(f, T)
    <3>1. MovedTerms(f, T, h, p, S)
      BY <2>2, <2>3, <2>5 DEF MovedTerms
    <3> QED
      BY <2>4, <3>1, SumMoved
  <2> QED
    BY <2>6
<1>6. SumFunctionOnSet(p, 1..Life) = SumFunctionOnSet(p, 1..Life - 1)
  <2>1. Life \in 1..Life /\ (1..Life) \ {Life} = 1..Life - 1
    BY <1>1
  <2>2. \A n \in 1..Life : p[n] \in Int
    BY <1>3 DEF Population
  <2>3. SumFunctionOnSet(p, 1..Life) = p[Life] + SumFunctionOnSet(p, 1..Life - 1)
    BY <1>4, <2>1, <2>2, SumRemove
  <2>4. SumFunctionOnSet(p, 1..Life - 1) \in Int
    BY <1>4, <2>1, <2>2, SumType
  <2> QED
    BY <1>3, <2>3, <2>4
<1>7. SumFunctionOnSet(f, 2..Life) <= SumFunctionOnSet(f, 1..Life)
  <2>1. 2..Life \in SUBSET (1..Life)
    BY <1>1
  <2>2. \A n \in 1..Life : f[n] \in Int /\ f[n] >= 0
    BY <1>2 DEF Population
  <2> QED
    BY <1>4, <2>1, <2>2, SumMonotone
<1> QED
  BY <1>3, <1>5, <1>6, <1>7 DEF Size, Number, f

(* The populations are of their kind, and the pools within their limits. *)
PoolsInv == alive \in [Kinds -> Population] /\ PoolsBounded

(* What a step that brings these populations has to show. *)
LEMMA PoolsKept ==
  ASSUME alive' \in [Kinds -> Population],
         Size(alive'["notes"]) <= MaxActive, Size(alive'["bursts"]) <= MaxBursts,
         Size(alive'["rings"]) <= MaxRings + 1
  PROVE  PoolsInv'
BY DEF PoolsInv, PoolsBounded, Number, Size

(* A new trigger sends up rings and sparks for which there is room.         *)
LEMMA TriggerKeepsPools ==
  ASSUME PoolsInv, NEW n, NEW notes \in Population, Size(notes) <= MaxActive, Trigger(n, notes)
  PROVE  PoolsInv'
<1> USE StageAssumption
<1>1. /\ alive \in [Kinds -> Population]
      /\ \A k \in Kinds : Number(k) \in Nat /\ Number(k) = Size(alive[k])
      /\ Number("bursts") <= MaxBursts /\ Number("rings") <= MaxRings + 1
  BY SizeType DEF PoolsInv, PoolsBounded, Number, Size
<1>2. Kinds = {"rings", "bursts", "notes"}
  BY DEF Kinds
<1>3. CASE n \notin {0, seen}
  <2>1. Burst(notes)
    BY <1>3 DEF Trigger
  <2>w. PICK wanted \in {BurstCount, BurstCount + 1} :
          \E rings \in Grown("rings", NewRings), bursts \in Grown("bursts", Sparks(wanted)) :
            alive' = [k \in Kinds |-> CASE k = "rings" -> rings [] k = "bursts" -> bursts [] OTHER -> notes]
    BY <2>1 DEF Burst
  <2>2. PICK rings \in Grown("rings", NewRings), bursts \in Grown("bursts", Sparks(wanted)) :
          alive' = [k \in Kinds |-> CASE k = "rings" -> rings [] k = "bursts" -> bursts [] OTHER -> notes]
    BY <2>w
  <2>3. rings \in Population /\ Size(rings) <= MaxRings + 1
    <3>1. NewRings \in Int /\ Number("rings") + NewRings <= MaxRings + 1
      BY <1>1, <1>2 DEF NewRings
    <3> QED
      BY <1>1, <1>2, <3>1, GrownSize
  <2>4. bursts \in Population /\ Size(bursts) <= MaxBursts
    <3>1. Sparks(wanted) \in Int /\ Number("bursts") + Sparks(wanted) <= MaxBursts
      BY <1>1, <1>2 DEF Sparks, Smaller
    <3> QED
      BY <1>1, <1>2, <3>1, GrownSize
  <2>5. /\ alive' \in [Kinds -> Population]
        /\ alive'["rings"] = rings /\ alive'["bursts"] = bursts /\ alive'["notes"] = notes
    BY <1>2, <2>2, <2>3, <2>4
  <2> QED
    BY <2>3, <2>4, <2>5, PoolsKept
<1>4. CASE n \in {0, seen}
  <2>1. alive' = [alive EXCEPT !["notes"] = notes]
    BY <1>4 DEF Trigger
  <2> QED
    BY <1>1, <1>2, <2>1, PoolsKept
<1> QED
  BY <1>3, <1>4

(* However fast swipes and bursts come, no pool exceeds its limit: what     *)
(* joins one is cut to the room that its members leave (WorldCanvas).       *)
THEOREM PoolsStayBounded == StageSpec => []PoolsBounded
<1> USE StageAssumption
<1>1. ASSUME alive = Empty PROVE PoolsInv
  <2>1. Empty \in [Kinds -> Population]
    BY EmptyPopulations DEF Empty
  <2> QED
    BY <1>1, <2>1, EmptyPopulations DEF PoolsInv, PoolsBounded, Number, Size, Kinds
<1>2. ASSUME alive' = Empty PROVE PoolsInv'
  <2>1. Empty \in [Kinds -> Population]
    BY EmptyPopulations DEF Empty
  <2> QED
    BY <1>2, <2>1, EmptyPopulations, PoolsKept DEF Kinds
<1>3. PoolsInv /\ [StageNext]_stage => PoolsInv'
  <2> SUFFICES ASSUME PoolsInv, [StageNext]_stage PROVE PoolsInv'
    OBVIOUS
  <2>1. /\ alive \in [Kinds -> Population]
        /\ \A k \in Kinds : Number(k) \in Nat /\ Number(k) = Size(alive[k]) /\ alive[k] \in Population
        /\ Number("notes") <= MaxActive /\ Number("bursts") <= MaxBursts /\ Number("rings") <= MaxRings + 1
    BY SizeType DEF PoolsInv, PoolsBounded, Number, Size
  <2>2. Kinds = {"rings", "bursts", "notes"}
    BY DEF Kinds
  <2>3. ASSUME NEW count \in Counts, SwipeNotes(count) PROVE PoolsInv'
    <3>1. PICK notes \in Grown("notes", NotesFlown(count)) :
            Trigger(-1, notes) \/ alive' = [alive EXCEPT !["notes"] = notes]
      BY <2>3 DEF SwipeNotes
    <3>2. notes \in Population /\ Size(notes) <= MaxActive
      <4>1. NotesFlown(count) \in Int /\ Number("notes") + NotesFlown(count) <= MaxActive
        BY <2>1, <2>2 DEF NotesFlown, Smaller
      <4> QED
        BY <2>1, <2>2, <4>1, GrownSize
    <3>3. CASE Trigger(-1, notes)
      BY <3>2, <3>3, TriggerKeepsPools
    <3>4. CASE alive' = [alive EXCEPT !["notes"] = notes]
      BY <2>1, <2>2, <3>2, <3>4, PoolsKept
    <3> QED
      BY <3>1, <3>3, <3>4
  <2>4. CASE Render
    BY <2>1, <2>2, <2>4, TriggerKeepsPools DEF Render
  <2>5. CASE Frame
    <3>1. \A k \in Kinds : alive'[k] = [n \in 1..Life |-> Aged(k, n)]
      BY <2>5 DEF Frame
    <3>2. \A k \in Kinds : alive'[k] \in Population /\ Size(alive'[k]) <= Number(k)
      BY <2>1, <3>1, AgedSize
    <3>3. alive' \in [Kinds -> Population]
      BY <2>5, <3>2 DEF Frame
    <3>4. \A k \in Kinds : Size(alive'[k]) \in Nat
      BY <3>2, SizeType
    <3> QED
      BY <2>1, <2>2, <3>2, <3>3, <3>4, PoolsKept
  <2>6. CASE Close \/ \E total \in Totals : Open(total)
    BY <1>2, <2>6 DEF Close, Open
  <2>7. CASE UNCHANGED alive
    BY <2>1, <2>2, <2>7, PoolsKept
  <2> QED
    BY <2>3, <2>4, <2>5, <2>6, <2>7 DEF StageNext, Play, StartParty, PartyFrame, stage
<1> QED
  BY <1>1, <1>3, PTL DEF StageSpec, StageInit, PoolsInv

-----------------------------------------------------------------------------
(* The page where a guest enters a code (JoinByCode).                       *)

(* The lookups under way are records of their kind. *)
LookupsInv == lookups \subseteq Lookup /\ made \in Nat

(* An orderly page has one lookup at most.  It is that of its code, loads   *)
(* once it has its token, and excuses a preview that is not of the code.    *)
OneLookupInv ==
  orderly =>
    /\ \A l, k \in Here : l = k
    /\ \A l \in Here : l.code = boxes /\ (l.at = "request" => loading)
    /\ preview # None /\ preview # boxes => Here # {}

JoinInv == LookupsInv /\ OneLookupInv

LEMMA JoinInvInit == JoinInit => JoinInv
BY DEF JoinInit, JoinInv, LookupsInv, OneLookupInv, Here

LEMMA JoinInvStep == JoinInv /\ [JoinNext]_join => JoinInv'
<1> SUFFICES ASSUME JoinInv, [JoinNext]_join PROVE JoinInv'
  OBVIOUS
<1> USE DEF JoinInv, LookupsInv, OneLookupInv, Here, Lookup
<1>1. ASSUME NEW c \in Codes, EnterCode(c) PROVE JoinInv'
  <2> DEFINE l == [id |-> made, code |-> c, at |-> "token", here |-> TRUE]
  <2>1. l \in Lookup /\ l.here /\ l.code = c /\ l.at = "token"
    OBVIOUS
  <2>2. LookupsInv'
    <3>1. lookups' = lookups \cup {l} /\ made' = made + 1
      BY <1>1 DEF EnterCode
    <3> HIDE DEF l
    <3> QED
      BY <2>1, <3>1
  <2>3. orderly' => Here' = {l}
    BY <1>1, <2>1 DEF EnterCode
  <2> QED
    BY <1>1, <2>1, <2>2, <2>3 DEF EnterCode
<1>2. CASE Erase
  BY <1>2 DEF Erase, ClearPreview
<1>3. CASE Spoil
  BY <1>3 DEF Spoil
<1>4. ASSUME NEW l \in lookups, SendRequest(l) PROVE JoinInv'
  <2> DEFINE k == [l EXCEPT !.at = "request"]
  <2>1. k \in Lookup /\ k.here = l.here /\ k.code = l.code
    OBVIOUS
  <2>2. LookupsInv'
    BY <1>4, <2>1 DEF SendRequest
  <2>3. Here' = (Here \ {l}) \cup (IF l.here THEN {k} ELSE {})
    BY <1>4, <2>1 DEF SendRequest
  <2>4. CASE l.here
    BY <1>4, <2>1, <2>2, <2>3, <2>4 DEF SendRequest
  <2>5. CASE ~l.here
    BY <1>4, <2>1, <2>2, <2>3, <2>5 DEF SendRequest
  <2> QED
    BY <2>4, <2>5
<1>5. ASSUME NEW l \in lookups, NoToken(l) PROVE JoinInv'
  BY <1>5 DEF NoToken, joinPage
<1>6. ASSUME NEW l \in lookups, Found(l) PROVE JoinInv'
  BY <1>6 DEF Found, StopLoading
<1>7. ASSUME NEW l \in lookups, NotFound(l) PROVE JoinInv'
  BY <1>7 DEF NotFound, StopLoading
<1>8. ASSUME NEW r, Leave(r) PROVE JoinInv'
  <2>1. \A l \in lookups : Orphaned(l) \in Lookup /\ ~Orphaned(l).here
    BY DEF Orphaned
  <2> QED
    BY <1>8, <2>1 DEF Leave
<1>9. CASE Enter \/ Back
  BY <1>8, <1>9 DEF Enter, Back
<1>10. CASE OpenPage
  BY <1>10 DEF OpenPage
<1>11. CASE UNCHANGED join
  BY <1>11 DEF join, joinPage
<1> QED
  BY <1>1, <1>2, <1>3, <1>4, <1>5, <1>6, <1>7, <1>9, <1>10, <1>11 DEF JoinNext, Edit, Answer

(* While the guest does not change the code during a lookup, Enter leads to *)
(* the event whose code is in the boxes (handleEnter of the join page).     *)
THEOREM EnterIsRight == JoinSpec => EntersTheCode
<1> DEFINE Right == Enter /\ orderly => room' = boxes \/ \E l \in Here : l.at = "token"
<1>1. JoinInv => Right
  <2> SUFFICES ASSUME JoinInv, Enter, orderly, room' # boxes PROVE \E l \in Here : l.at = "token"
    OBVIOUS
  <2>1. preview # None /\ preview # boxes /\ ~loading
    BY DEF Enter, Leave
  <2>2. PICK l \in Here : l.at # "request"
    BY <2>1 DEF JoinInv, OneLookupInv
  <2> QED
    BY <2>2 DEF JoinInv, LookupsInv, Lookup, Here
<1> QED
  BY <1>1, JoinInvInit, JoinInvStep, PTL DEF JoinSpec, EntersTheCode

-----------------------------------------------------------------------------
(* The list of recent events (JoinByCode).                                  *)

(* The list of recent events: no event twice, and no more than MaxRecent.   *)
Once(list) == \A i, j \in 1..Len(list) : list[i] = list[j] => i = j

(* What the filter keeps of the first indexes of the list, by their set: it *)
(* takes the last of them last.                                             *)
Keep(w, f, e) == IF f = e THEN w ELSE Append(w, f)
Kept(list, e, h) ==
  [s \in SUBSET DOMAIN list |-> IF s = {} THEN <<>> ELSE Keep(h[s \ {Max(s)}], list[Max(s)], e)]
IsKept(list, e, h) == h = Kept(list, e, h)

LEMMA WithoutDef ==
  ASSUME NEW list, NEW e
  PROVE  Without(list, e) = (CHOOSE h : IsKept(list, e, h))[DOMAIN list]
BY Zenon DEF Without, FoldLeft, MapThenFoldSet, IsKept, Kept, Keep

LEMMA GreatestIndex ==
  ASSUME NEW n \in Nat, NEW s \in SUBSET (1..n), s # {}
  PROVE  Max(s) \in s /\ \A x \in s : Max(s) >= x
<1>1. \E x \in s : \A y \in s : x >= y
  <2>1. s \subseteq 0..n
    OBVIOUS
  <2> QED
    BY <2>1, GreatestNatural
<1> QED
  BY <1>1 DEF Max

LEMMA KeptExists ==
  ASSUME NEW list \in Seq(Events), NEW e
  PROVE  \E h : IsKept(list, e, h)
<1> DEFINE D == DOMAIN list
           V == Seq(Events)
           pick == [s \in SUBSET D |-> Max(s)]
           step == [i \in D |-> [w \in V |-> Keep(w, list[i], e)]]
<1>1. Len(list) \in Nat /\ D = 1..Len(list) /\ \A i \in D : list[i] \in Events
  BY LenProperties, ElementOfSeq
<1>2. IsFiniteSet(D)
  BY <1>1, FS_Interval
<1>3. \A s \in SUBSET D : s # {} => pick[s] \in s
  BY <1>1, GreatestIndex
<1>4. \A i \in D, w \in V : Keep(w, list[i], e) \in V /\ step[i][w] = Keep(w, list[i], e)
  BY <1>1, AppendProperties DEF Keep
<1>5. \A s \in SUBSET D : pick[s] = Max(s)
  OBVIOUS
<1>6. <<>> \in V
  BY EmptySeq
<1> HIDE DEF D, V, pick, step
<1>7. Picks(D, pick) /\ StaysIn(V, D, step)
  BY <1>3, <1>4, Zenon DEF Picks, StaysIn
<1>8. PICK h : Iteration(D, V, <<>>, pick, step, h)
  BY <1>2, <1>6, <1>7, IterationExists
<1> USE DEF Iteration
<1>9. ASSUME NEW s \in SUBSET D
      PROVE  h[s] = IF s = {} THEN <<>> ELSE Keep(h[s \ {Max(s)}], list[Max(s)], e)
  <2>1. CASE s = {}
    BY <1>8, <2>1
  <2>2. CASE s # {}
    <3>1. pick[s] \in D /\ h[s \ {pick[s]}] \in V
      BY <1>3, <1>8, <2>2
    <3>2. h[s] = step[pick[s]][h[s \ {pick[s]}]]
      BY <1>8, <2>2
    <3>3. h[s] = Keep(h[s \ {pick[s]}], list[pick[s]], e)
      BY <1>4, <3>1, <3>2
    <3> QED
      BY <1>5, <2>2, <3>3
  <2> QED
    BY <2>1, <2>2
<1>10. h = Kept(list, e, h)
  BY <1>8, <1>9 DEF Kept, D
<1> QED
  BY <1>10, Zenon DEF IsKept

(* What is left of the first n events of a list that has each once.         *)
LeftOf(list, e, n, w) ==
  /\ w \in Seq(Events)
  /\ (\A i \in 1..n : list[i] # e) => Len(w) = n /\ \A i \in 1..n : w[i] = list[i]
  /\ \A j \in 1..n : list[j] = e =>
       Len(w) = n - 1 /\ \A i \in 1..n - 1 : w[i] = list[IF i < j THEN i ELSE i + 1]

LEMMA WithoutMeans ==
  ASSUME NEW list \in Seq(Events), Once(list), NEW e
  PROVE  LeftOf(list, e, Len(list), Without(list, e))
<1>1. Len(list) \in Nat /\ DOMAIN list = 1..Len(list) /\ \A i \in 1..Len(list) : list[i] \in Events
  BY LenProperties, ElementOfSeq
<1>2. PICK h : IsKept(list, e, h) /\ Without(list, e) = h[DOMAIN list]
  BY KeptExists, WithoutDef
<1>3. \A s \in SUBSET (1..Len(list)) :
        h[s] = IF s = {} THEN <<>> ELSE Keep(h[s \ {Max(s)}], list[Max(s)], e)
  BY <1>1, <1>2 DEF IsKept, Kept
<1> DEFINE Exact(n) == LeftOf(list, e, n, h[1..n])
           Bad == {n \in Nat : n <= Len(list) /\ ~Exact(n)}
<1>4. Exact(0)
  <2>1. 1..0 = {}
    OBVIOUS
  <2>2. h[{}] = <<>>
    BY <1>3
  <2> QED
    BY <2>1, <2>2, EmptySeq DEF LeftOf
<1>5. ASSUME NEW n \in Nat, n # 0, n <= Len(list), Exact(n - 1) PROVE Exact(n)
  <2>1. 1..n \in SUBSET (1..Len(list)) /\ 1..n # {} /\ n \in 1..n
    <3>1. n \in 1..n /\ \A j \in 1..n : j \in 1..Len(list)
      BY <1>1, <1>5
    <3> QED
      BY <3>1
  <2>2. Max(1..n) \in 1..n /\ Max(1..n) >= n
    BY <2>1, GreatestIndex
  <2>3. Max(1..n) = n /\ (1..n) \ {n} = 1..n - 1
    BY <2>2
  <2>4. h[1..n] = Keep(h[1..n - 1], list[n], e)
    BY <1>3, <2>1, <2>3
  <2>5. list[n] \in Events
    BY <1>1, <2>1
  <2> DEFINE old == h[1..n - 1]
             new == h[1..n]
  <2>6. LeftOf(list, e, n - 1, old)
    BY <1>5
  <2>7. new = Keep(old, list[n], e)
    BY <2>4
  <2> SUFFICES LeftOf(list, e, n, new)
    OBVIOUS
  <2> HIDE DEF old, new, Exact
  <2>8. \A i \in 1..n : i = n \/ i \in 1..n - 1
    OBVIOUS
  <2>9. \A i \in 1..n - 1 : i \in 1..n /\ i \in 1..Len(list) /\ i # n
    BY <1>1, <1>5
  <2>10. n - 1 \in Nat /\ old \in Seq(Events) /\ Len(old) \in Nat
    BY <1>5, <2>6, LenProperties DEF LeftOf
  <2>11. CASE list[n] = e
    <3>1. new = old
      BY <2>7, <2>11 DEF Keep
    <3>2. \A i \in 1..n : list[i] = e => i = n
      BY <2>1, <2>11 DEF Once
    <3>3. Len(old) = n - 1 /\ \A i \in 1..n - 1 : old[i] = list[i]
      BY <2>6, <2>9, <3>2 DEF LeftOf
    <3>4. \A i \in 1..n - 1 : old[i] = list[IF i < n THEN i ELSE i + 1]
      BY <3>3
    <3>5. ASSUME NEW j \in 1..n, list[j] = e
          PROVE  /\ Len(new) = n - 1
                 /\ \A i \in 1..n - 1 : new[i] = list[IF i < j THEN i ELSE i + 1]
      <4>1. j = n
        BY <3>2, <3>5
      <4> QED
        BY <3>1, <3>3, <3>4, <4>1
    <3>6. ~\A i \in 1..n : list[i] # e
      BY <2>1, <2>11
    <3> QED
      BY <2>10, <3>1, <3>5, <3>6 DEF LeftOf
  <2>12. CASE list[n] # e
    <3>1. new = Append(old, list[n])
      BY <2>7, <2>12 DEF Keep
    <3>2. /\ new \in Seq(Events) /\ Len(new) = Len(old) + 1
          /\ \A i \in 1..Len(old) : new[i] = old[i]
          /\ new[Len(old) + 1] = list[n]
      BY <2>5, <2>10, <3>1, AppendProperties
    <3>3. ASSUME \A i \in 1..n : list[i] # e
          PROVE  Len(new) = n /\ \A i \in 1..n : new[i] = list[i]
      <4>1. Len(old) = n - 1 /\ \A i \in 1..n - 1 : old[i] = list[i]
        BY <2>6, <2>9, <3>3 DEF LeftOf
      <4> QED
        BY <2>8, <3>2, <4>1
    <3>4. ASSUME NEW j \in 1..n, list[j] = e
          PROVE  /\ Len(new) = n - 1
                 /\ \A i \in 1..n - 1 : new[i] = list[IF i < j THEN i ELSE i + 1]
      <4>1. j \in 1..n - 1
        BY <2>8, <2>12, <3>4
      <4>2. Len(old) = n - 2 /\ \A i \in 1..n - 2 : old[i] = list[IF i < j THEN i ELSE i + 1]
        BY <2>6, <3>4, <4>1 DEF LeftOf
      <4>3. \A i \in 1..n - 1 : i = n - 1 \/ i \in 1..n - 2
        OBVIOUS
      <4>4. new[n - 1] = list[n]
        BY <2>10, <3>2, <4>2
      <4> QED
        BY <3>2, <4>1, <4>2, <4>3, <4>4
    <3> QED
      BY <3>2, <3>3, <3>4 DEF LeftOf
  <2> QED
    BY <2>11, <2>12
<1> HIDE DEF Exact
<1>6. Bad = {}
  <2>1. SUFFICES ASSUME Bad # {} PROVE FALSE
    OBVIOUS
  <2>2. PICK n \in Bad : \A j \in Bad : n <= j
    BY <2>1, LeastNatural
  <2>3. n # 0 /\ n <= Len(list)
    BY <1>4, <2>2
  <2>4. n - 1 \in Nat /\ n - 1 \notin Bad /\ n - 1 <= Len(list)
    BY <1>1, <2>2, <2>3
  <2> QED
    BY <1>5, <2>2, <2>3, <2>4
<1>7. Exact(Len(list))
  BY <1>1, <1>6
<1> QED
  BY <1>1, <1>2, <1>7 DEF Exact

(* The list after an event is saved: the event, and the others in their     *)
(* order, but for the last of a full list.                                  *)
SavedFrom(list, e, s) ==
  /\ s \in Seq(Events) /\ Len(s) \in 1..MaxRecent /\ s[1] = e
  /\ Len(list) = MaxRecent => Len(s) = MaxRecent
  /\ \A i \in 2..Len(s) : s[i] # e /\ \E a \in 1..Len(list) : s[i] = list[a]
  /\ \A i, k \in 2..Len(s) : i < k =>
       \E a, b \in 1..Len(list) : a < b /\ s[i] = list[a] /\ s[k] = list[b]
  /\ \A a \in 1..Len(list) : list[a] \in Range(s) \/ (a = Len(list) /\ Len(list) = MaxRecent)

LEMMA SavedMeans ==
  ASSUME NEW list \in Seq(Events), Once(list), Len(list) <= MaxRecent,
         NEW e \in Events, NEW s, s = Saved(list, e)
  PROVE  SavedFrom(list, e, s)
<1> DEFINE w == Without(list, e)
           full == <<e>> \o w
<1>1. Len(list) \in Nat /\ \A i \in 1..Len(list) : list[i] \in Events
  BY LenProperties, ElementOfSeq
<1>2. LeftOf(list, e, Len(list), w) /\ w \in Seq(Events) /\ Len(w) \in Nat
  BY WithoutMeans, LenProperties DEF LeftOf
<1>3. <<e>> \in Seq(Events) /\ Len(<<e>>) = 1 /\ <<e>>[1] = e
  OBVIOUS
<1>4. MaxRecent \in Nat \ {0}
  BY BoundAssumption
<1> HIDE DEF w
<1>5. /\ full \in Seq(Events) /\ Len(full) = Len(w) + 1
      /\ \A i \in 1..Len(w) + 1 : full[i] = IF i <= 1 THEN e ELSE w[i - 1]
  BY <1>2, <1>3, ConcatProperties
<1>6. \A i \in 1..Len(full) : full[i] \in Events
  BY <1>5, ElementOfSeq
<1> DEFINE size == IF Len(full) < MaxRecent THEN Len(full) ELSE MaxRecent
<1>7. size \in 1..MaxRecent /\ size <= Len(full) /\ (size = Len(full) \/ size = MaxRecent)
  BY <1>2, <1>4, <1>5
<1>8. s = SubSeq(full, 1, size)
  BY DEF Saved, Trimmed, w
<1> HIDE DEF full, size
<1>9. /\ s \in Seq(Events) /\ Len(s) = size
      /\ \A i \in 1..size : s[i] = full[i]
  <2>1. \A i \in 1..size : full[i] \in Events
    BY <1>2, <1>4, <1>5, <1>6, <1>7
  <2>2. /\ 1 \in Int /\ size \in Int /\ 1 <= size /\ size - 1 + 1 = size
        /\ \A i \in 1..size : 1 + i - 1 = i
    BY <1>4, <1>7
  <2>3. /\ SubSeq(full, 1, size) \in Seq(Events)
        /\ Len(SubSeq(full, 1, size)) = IF 1 <= size THEN size - 1 + 1 ELSE 0
        /\ \A i \in 1..size - 1 + 1 : SubSeq(full, 1, size)[i] = full[1 + i - 1]
    BY <2>1, <2>2, SubSeqProperties
  <2> QED
    BY <1>8, <2>2, <2>3
<1>10. DOMAIN s = 1..Len(s)
  BY <1>9, LenProperties
<1>11. s[1] = e
  BY <1>2, <1>4, <1>5, <1>7, <1>9
<1>12. \A i \in 2..size : i - 1 \in 1..Len(w) /\ s[i] = w[i - 1]
  BY <1>2, <1>4, <1>5, <1>7, <1>9
<1>13. CASE \A i \in 1..Len(list) : list[i] # e
  <2>1. Len(w) = Len(list) /\ \A i \in 1..Len(list) : w[i] = list[i]
    BY <1>2, <1>13 DEF LeftOf
  <2>2. Len(list) = MaxRecent => size = MaxRecent
    BY <1>1, <1>5, <1>7, <2>1
  <2>3. \A i \in 2..size : i - 1 \in 1..Len(list) /\ s[i] = list[i - 1] /\ s[i] # e
    BY <1>12, <1>13, <2>1
  <2>4. ASSUME NEW a \in 1..Len(list)
        PROVE  list[a] \in Range(s) \/ (a = Len(list) /\ Len(list) = MaxRecent)
    <3>1. CASE a + 1 <= size
      <4>1. a + 1 \in 2..size /\ a + 1 - 1 = a /\ a + 1 \in 1..Len(s)
        BY <1>1, <1>4, <1>7, <1>9, <3>1
      <4>2. s[a + 1] = list[a]
        BY <2>3, <4>1
      <4> QED
        BY <1>10, <4>1, <4>2, Zenon DEF Range
    <3>2. CASE ~(a + 1 <= size)
      BY <1>1, <1>4, <1>5, <1>7, <2>1, <3>2
    <3> QED
      BY <3>1, <3>2
  <2>5. ASSUME NEW i \in 2..size, NEW k \in 2..size, i < k
        PROVE  \E a, b \in 1..Len(list) : a < b /\ s[i] = list[a] /\ s[k] = list[b]
    <3>1. i - 1 < k - 1
      BY <1>4, <1>7, <2>5
    <3> QED
      BY <2>3, <3>1
  <2> QED
    BY <1>7, <1>9, <1>11, <2>2, <2>3, <2>4, <2>5 DEF SavedFrom
<1>14. ASSUME NEW j \in 1..Len(list), list[j] = e
       PROVE  /\ Len(list) = MaxRecent => size = MaxRecent
              /\ \A i \in 2..size : s[i] # e /\ \E a \in 1..Len(list) : s[i] = list[a]
              /\ \A i, k \in 2..size : i < k =>
                   \E a, b \in 1..Len(list) : a < b /\ s[i] = list[a] /\ s[k] = list[b]
              /\ \A a \in 1..Len(list) : list[a] \in Range(s)
  <2> DEFINE At(i) == IF i < j THEN i ELSE i + 1
  <2>1. Len(w) = Len(list) - 1 /\ \A i \in 1..Len(list) - 1 : w[i] = list[At(i)]
    BY <1>2, <1>14 DEF LeftOf
  <2>2. size = Len(list)
    BY <1>1, <1>4, <1>5, <1>7, <2>1
  <2>3. \A i \in 2..size : At(i - 1) \in 1..Len(list) /\ s[i] = list[At(i - 1)]
    BY <1>1, <1>12, <2>1, <2>2
  <2>4. \A i, k \in 2..size : i < k => At(i - 1) < At(k - 1)
    BY <1>1, <2>2
  <2>5. ASSUME NEW a \in 1..Len(list) PROVE list[a] \in Range(s)
    <3>1. CASE a = j
      BY <1>7, <1>9, <1>10, <1>11, <1>14, <3>1 DEF Range
    <3>2. CASE a < j
      <4>1. a + 1 \in 2..size /\ At(a + 1 - 1) = a /\ a + 1 \in 1..Len(s)
        BY <1>1, <1>9, <2>2, <3>2
      <4>2. s[a + 1] = list[a]
        BY <2>3, <4>1
      <4> QED
        BY <1>10, <4>1, <4>2, Zenon DEF Range
    <3>3. CASE a > j
      <4>1. a \in 2..size /\ At(a - 1) = a /\ a \in 1..Len(s)
        BY <1>1, <1>9, <2>2, <3>3
      <4>2. s[a] = list[a]
        BY <2>3, <4>1
      <4> QED
        BY <1>10, <4>1, <4>2, Zenon DEF Range
    <3> QED
      BY <1>1, <3>1, <3>2, <3>3
  <2>6. \A i \in 2..size : At(i - 1) # j
    BY <1>1, <2>2
  <2> HIDE DEF At
  <2>7. \A i \in 2..size : s[i] # e
    BY <1>14, <2>3, <2>6 DEF Once
  <2> QED
    BY <2>2, <2>3, <2>4, <2>5, <2>7
<1> QED
  BY <1>7, <1>9, <1>11, <1>13, <1>14 DEF SavedFrom

-----------------------------------------------------------------------------
(* Where an event is first in a list.                                       *)
IsFirst(s, e, n) == n \in 1..Len(s) /\ s[n] = e /\ \A k \in 1..n - 1 : s[k] # e
FirstIn(s, e) == CHOOSE n \in 1..Len(s) : s[n] = e /\ \A k \in 1..n - 1 : s[k] # e

LEMMA FirstInIs ==
  ASSUME NEW s \in Seq(Events), NEW e \in Range(s)
  PROVE  IsFirst(s, e, FirstIn(s, e))
<1>1. Len(s) \in Nat /\ DOMAIN s = 1..Len(s)
  BY LenProperties
<1> DEFINE T == {n \in 1..Len(s) : s[n] = e}
<1>2. T \subseteq Nat /\ T # {}
  BY <1>1 DEF Range
<1>3. PICK n \in T : \A k \in T : n <= k
  BY <1>2, LeastNatural
<1>4. \A k \in 1..n - 1 : k \in 1..Len(s) /\ ~(n <= k)
  BY <1>1, <1>3
<1>5. n \in 1..Len(s) /\ s[n] = e /\ \A k \in 1..n - 1 : s[k] # e
  BY <1>3, <1>4
<1> QED
  BY <1>5, Zenon DEF FirstIn, IsFirst

LEMMA FirstIsOne ==
  ASSUME NEW s \in Seq(Events), NEW e, NEW n, NEW m, IsFirst(s, e, n), IsFirst(s, e, m)
  PROVE  n = m
<1>1. Len(s) \in Nat
  BY LenProperties
<1>2. n \in 1..Len(s) /\ m \in 1..Len(s) /\ s[n] = e /\ s[m] = e
  BY DEF IsFirst
<1>3. ~(n < m) /\ ~(m < n)
  <2>1. n < m => n \in 1..m - 1
    BY <1>1, <1>2
  <2>2. m < n => m \in 1..n - 1
    BY <1>1, <1>2
  <2> QED
    BY <1>2, <2>1, <2>2 DEF IsFirst
<1> QED
  BY <1>1, <1>2, <1>3

(* With one more in front, it is first and the others are one further back. *)
PutInFront(s, x, t) ==
  /\ t \in Seq(Events) /\ Range(t) = {x} \cup Range(s)
  /\ FirstIn(t, x) = 1
  /\ \A e \in Range(s) : e # x => FirstIn(t, e) = FirstIn(s, e) + 1

LEMMA FirstInFront ==
  ASSUME NEW s \in Seq(Events), NEW x \in Events, NEW t, t = <<x>> \o s
  PROVE  PutInFront(s, x, t)
<1>1. Len(s) \in Nat /\ DOMAIN s = 1..Len(s)
  BY LenProperties
<1>2. <<x>> \in Seq(Events) /\ Len(<<x>>) = 1 /\ <<x>>[1] = x
  OBVIOUS
<1>3. /\ t \in Seq(Events) /\ Len(t) = Len(s) + 1
      /\ \A i \in 1..Len(s) + 1 : t[i] = IF i <= 1 THEN x ELSE s[i - 1]
  BY <1>1, <1>2, ConcatProperties
<1>4. DOMAIN t = 1..Len(s) + 1
  BY <1>3, LenProperties
<1>5. t[1] = x /\ \A i \in 1..Len(s) : i + 1 \in 1..Len(s) + 1 /\ t[i + 1] = s[i]
  BY <1>1, <1>3
<1>6. Range(t) = {x} \cup Range(s)
  <2>1. Range(t) \subseteq {x} \cup Range(s)
    <3> SUFFICES ASSUME NEW i \in 1..Len(s) + 1 PROVE t[i] \in {x} \cup Range(s)
      BY <1>4 DEF Range
    <3>1. CASE i = 1
      BY <1>5, <3>1
    <3>2. CASE i # 1
      <4>1. i - 1 \in 1..Len(s) /\ t[i] = s[i - 1]
        BY <1>1, <1>3, <3>2
      <4>2. s[i - 1] \in Range(s)
        BY <1>1, <4>1, Zenon DEF Range
      <4> QED
        BY <4>1, <4>2
    <3> QED
      BY <3>1, <3>2
  <2>2. x \in Range(t)
    BY <1>1, <1>4, <1>5 DEF Range
  <2>3. Range(s) \subseteq Range(t)
    BY <1>1, <1>4, <1>5, Zenon DEF Range
  <2> QED
    BY <2>1, <2>2, <2>3
<1>7. FirstIn(t, x) = 1
  <2>1. IsFirst(t, x, 1)
    BY <1>1, <1>3, <1>5 DEF IsFirst
  <2> QED
    BY <1>3, <1>6, <2>1, FirstInIs, FirstIsOne
<1>8. ASSUME NEW e \in Range(s), e # x PROVE FirstIn(t, e) = FirstIn(s, e) + 1
  <2>1. PICK n : n = FirstIn(s, e)
    OBVIOUS
  <2>2. n \in 1..Len(s) /\ s[n] = e /\ \A k \in 1..n - 1 : s[k] # e
    BY <2>1, FirstInIs DEF IsFirst
  <2>3. n + 1 \in 1..Len(t) /\ t[n + 1] = e
    BY <1>1, <1>3, <1>5, <2>2
  <2>4. ASSUME NEW k \in 1..(n + 1) - 1 PROVE t[k] # e
    <3>1. CASE k = 1
      BY <1>5, <1>8, <3>1
    <3>2. CASE k # 1
      <4>1. k - 1 \in 1..n - 1 /\ k \in 1..Len(s) + 1 /\ ~(k <= 1)
        BY <1>1, <2>2, <3>2
      <4> QED
        BY <1>3, <2>2, <4>1
    <3> QED
      BY <3>1, <3>2
  <2>5. IsFirst(t, e, n + 1)
    BY <2>3, <2>4, Zenon DEF IsFirst
  <2>6. IsFirst(t, e, FirstIn(t, e))
    BY <1>3, <1>6, FirstInIs
  <2> QED
    BY <1>3, <2>1, <2>5, <2>6, FirstIsOne
<1> QED
  BY <1>3, <1>6, <1>7, <1>8 DEF PutInFront

(* A list of the events seen last: each once, the one seen last first, and  *)
(* all of them until it is full.                                            *)
Latest(list, past) ==
  /\ list \in Seq(Events) /\ past \in Seq(Events)
  /\ Len(list) <= MaxRecent
  /\ Range(list) \subseteq Range(past)
  /\ \A i, j \in 1..Len(list) : i < j => FirstIn(past, list[i]) < FirstIn(past, list[j])
  /\ \A e \in Range(past) \ Range(list) :
       Len(list) = MaxRecent /\ \A f \in Range(list) : FirstIn(past, f) < FirstIn(past, e)

RecentInv == Latest(recent, found)

LEMMA LatestOnce ==
  ASSUME NEW list, NEW past, Latest(list, past)
  PROVE  Once(list)
<1> SUFFICES ASSUME NEW i \in 1..Len(list), NEW j \in 1..Len(list), i < j
             PROVE  list[i] # list[j]
  <2>1. list \in Seq(Events) => Len(list) \in Nat
    BY LenProperties
  <2> QED
    BY <2>1 DEF Once, RecentInv
<1>1. DOMAIN list = 1..Len(list) /\ Len(past) \in Nat /\ past \in Seq(Events)
  BY LenProperties DEF Latest
<1>2. list[i] \in Range(past)
  BY <1>1 DEF Latest, Range
<1>3. FirstIn(past, list[i]) \in 1..Len(past)
  BY <1>1, <1>2, FirstInIs DEF IsFirst
<1>4. FirstIn(past, list[i]) < FirstIn(past, list[j])
  BY DEF Latest
<1> QED
  BY <1>1, <1>3, <1>4

LEMMA LatestSaved ==
  ASSUME NEW list, NEW past, Latest(list, past), NEW x \in Events,
         NEW new, new = Saved(list, x), NEW now, now = <<x>> \o past
  PROVE  Latest(new, now)
<1>1. /\ list \in Seq(Events) /\ past \in Seq(Events) /\ Len(list) <= MaxRecent
      /\ Once(list) /\ Range(list) \subseteq Range(past)
  BY LatestOnce DEF Latest
<1>2. Len(list) \in Nat /\ DOMAIN list = 1..Len(list) /\ Len(past) \in Nat /\ MaxRecent \in Nat
  BY <1>1, LenProperties, BoundAssumption
<1>3. SavedFrom(list, x, new)
  BY <1>1, SavedMeans, Zenon
<1>4. /\ now \in Seq(Events) /\ Range(now) = {x} \cup Range(past)
      /\ FirstIn(now, x) = 1
      /\ \A e \in Range(past) : e # x => FirstIn(now, e) = FirstIn(past, e) + 1
  <2>1. PutInFront(past, x, now)
    BY <1>1, FirstInFront, Zenon
  <2> QED
    BY <2>1 DEF PutInFront
<1>5. DOMAIN new = 1..Len(new)
  BY <1>3, LenProperties DEF SavedFrom
<1>6. \A e \in Range(past) : FirstIn(past, e) \in Nat \ {0}
  BY <1>1, <1>2, FirstInIs DEF IsFirst
<1>7. \A a \in 1..Len(list) : list[a] \in Range(list) /\ list[a] \in Range(past)
  BY <1>1, <1>2 DEF Range, Latest
<1>8. \A a, b \in 1..Len(list) : a < b => FirstIn(past, list[a]) < FirstIn(past, list[b])
  BY <1>1 DEF Latest
<1>9. /\ Len(new) <= MaxRecent /\ 1 \in 1..Len(new)
      /\ \A i \in 1..Len(new) : i = 1 \/ i \in 2..Len(new)
  <2>1. \A n \in 1..MaxRecent :
          n <= MaxRecent /\ 1 \in 1..n /\ \A i \in 1..n : i = 1 \/ i \in 2..n
    BY <1>2
  <2> QED
    BY <1>3, <2>1, Zenon DEF SavedFrom
<1>10. \A e \in Range(past) : e # x => FirstIn(now, x) < FirstIn(now, e)
  BY <1>4, <1>6
<1>11. \A e, f \in Range(past) : e # x /\ f # x /\ FirstIn(past, e) < FirstIn(past, f) =>
          FirstIn(now, e) < FirstIn(now, f)
  BY <1>4, <1>6
<1>12. \A f \in Range(new) : f = x \/ f \in Range(list)
  <2>1. ASSUME NEW i \in 1..Len(new) PROVE new[i] = x \/ new[i] \in Range(list)
    BY <1>3, <1>7, <1>9 DEF SavedFrom
  <2> QED
    BY <1>5, <2>1, Zenon DEF Range
<1>13. Range(new) \subseteq Range(now)
  BY <1>1, <1>4, <1>12 DEF Latest
<1>14. ASSUME NEW i \in 1..Len(new), NEW k \in 1..Len(new), i < k
       PROVE  FirstIn(now, new[i]) < FirstIn(now, new[k])
  <2>1. k \in 2..Len(new)
    BY <1>3, <1>14 DEF SavedFrom
  <2>2. new[k] # x /\ new[k] \in Range(past)
    BY <1>3, <1>7, <2>1 DEF SavedFrom
  <2>3. CASE i = 1
    <3>1. new[i] = x
      BY <1>3, <2>3 DEF SavedFrom
    <3> QED
      BY <1>10, <2>2, <3>1
  <2>4. CASE i \in 2..Len(new)
    <3>1. new[i] # x /\ new[i] \in Range(past)
      BY <1>3, <1>7, <2>4 DEF SavedFrom
    <3>2. PICK a \in 1..Len(list), b \in 1..Len(list) :
            a < b /\ new[i] = list[a] /\ new[k] = list[b]
      BY <1>3, <1>14, <2>1, <2>4 DEF SavedFrom
    <3>3. FirstIn(past, new[i]) < FirstIn(past, new[k])
      BY <1>8, <3>2
    <3> QED
      BY <1>11, <2>2, <3>1, <3>3
  <2> QED
    BY <1>9, <2>3, <2>4
<1>15. ASSUME NEW e \in Range(now), e \notin Range(new)
       PROVE  /\ Len(new) = MaxRecent
              /\ \A f \in Range(new) : FirstIn(now, f) < FirstIn(now, e)
  <2>1. x \in Range(new)
    BY <1>3, <1>5, <1>9, ZenonT(30) DEF Range, SavedFrom
  <2>2. e # x /\ e \in Range(past)
    BY <1>4, <1>15, <2>1
  <2>3. /\ Len(list) = MaxRecent
        /\ \A f \in Range(list) : f # e => FirstIn(past, f) < FirstIn(past, e)
    <3>1. CASE e \in Range(list)
      <4>1. PICK a \in 1..Len(list) : e = list[a]
        BY <1>2, <3>1, Zenon DEF Range
      <4>2. a = Len(list) /\ Len(list) = MaxRecent
        BY <1>3, <1>15, <4>1 DEF SavedFrom
      <4>3. ASSUME NEW f \in Range(list), f # e PROVE FirstIn(past, f) < FirstIn(past, e)
        <5>1. PICK b \in 1..Len(list) : f = list[b]
          BY <1>2, <4>3, Zenon DEF Range
        <5>2. b < a
          BY <1>2, <4>1, <4>2, <4>3, <5>1
        <5> QED
          BY <1>8, <4>1, <5>1, <5>2
      <4> QED
        BY <4>2, <4>3
    <3>2. CASE e \notin Range(list)
      BY <1>1, <2>2, <3>2 DEF Latest
    <3> QED
      BY <3>1, <3>2
  <2>4. ASSUME NEW f \in Range(new) PROVE FirstIn(now, f) < FirstIn(now, e)
    <3>1. CASE f = x
      BY <1>10, <2>2, <3>1
    <3>2. CASE f # x
      <4>1. f \in Range(list) /\ f \in Range(past) /\ f # e
        BY <1>1, <1>12, <1>15, <2>4, <3>2 DEF Latest
      <4> QED
        BY <1>11, <2>2, <2>3, <3>2, <4>1
    <3> QED
      BY <3>1, <3>2
  <2> QED
    BY <1>3, <2>3, <2>4 DEF SavedFrom
<1> QED
  BY <1>3, <1>4, <1>9, <1>13, <1>14, <1>15 DEF Latest, SavedFrom

LEMMA RecentInvInit == JoinInit => RecentInv
<1> SUFFICES ASSUME JoinInit PROVE RecentInv
  OBVIOUS
<1>1. recent = <<>> /\ found = <<>> /\ <<>> \in Seq(Events) /\ Len(<<>>) = 0
  BY EmptySeq DEF JoinInit
<1>2. Range(<<>>) = {} /\ 1..0 = {} /\ 0 <= MaxRecent
  <2>1. DOMAIN <<>> = {}
    OBVIOUS
  <2>2. Range(<<>>) = {}
    BY <2>1, Zenon DEF Range
  <2> QED
    BY <2>2, BoundAssumption
<1> QED
  BY <1>1, <1>2 DEF RecentInv, Latest

LEMMA RecentInvStep == RecentInv /\ [JoinNext]_join => RecentInv'
<1> SUFFICES ASSUME RecentInv, [JoinNext]_join PROVE RecentInv'
  OBVIOUS
<1>1. ASSUME NEW l \in lookups, Found(l) PROVE RecentInv'
  <2>1. /\ l.code \in Events
        /\ recent' = Saved(recent, l.code) /\ found' = <<l.code>> \o found
    BY <1>1 DEF Found
  <2> QED
    BY <2>1, LatestSaved DEF RecentInv
<1>2. CASE UNCHANGED <<recent, found>>
  BY <1>2 DEF RecentInv
<1>3. UNCHANGED <<recent, found>> \/ \E l \in lookups : Found(l)
  BY DEF JoinNext, Edit, Answer, EnterCode, Erase, Spoil, Enter, Back, Leave, OpenPage, SendRequest,
         NoToken, NotFound, join
<1> QED
  BY <1>1, <1>2, <1>3

(* The recent events are those looked up last, each once, the latest first, *)
(* and no more than MaxRecent (saveRecentEventId).                          *)
THEOREM RecentsAreTheLatest == JoinSpec => []RecentsAreLatest
<1>1. RecentInv => RecentsAreLatest
  BY DEF RecentInv, Latest, RecentsAreLatest, FirstAt, FirstIn
<1> QED
  BY <1>1, RecentInvInit, RecentInvStep, PTL DEF JoinSpec
=============================================================================
