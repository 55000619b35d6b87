---------------------------- MODULE Login_proofs ----------------------------
(* The two ways in.  By phone (PhoneLogin), for any number of requests and  *)
(* any limits: the variables keep their types, a pin has one row at most, a *)
(* window's requests text at most Limit pins, and the provider is sent at   *)
(* most MaxAttempts guesses at a pin, but for those that overlap and those  *)
(* a crash or a rejected await leaves uncounted.  By Google or password     *)
(* (Session), for any people, browsers, codes and restarts: who signs in by *)
(* Google has a wallet, and no live subscription is cleaned up.  The two    *)
(* share no state: each theorem is of one of them.                          *)
EXTENDS PhoneLogin, Session, FiniteSums

-----------------------------------------------------------------------------
(* By phone.                                                                *)


Places == {"idle", "counted", "clearing", "texting", "saving", "asking",
           "discarding", "rejecting", "accepting"}
Calls == [at : Places, n : 0..MaxHits, pin : 0..MaxPins, fresh : BOOLEAN]
Rows == [pin : 1..MaxPins, attempts : Nat, live : BOOLEAN]

CallsInv == call \in [Requests -> Calls]

(* The numbers, and the one request that has a window's end to arm.         *)
First(r) == call[r].at = "counted" /\ call[r].n = 1
WindowInv ==
  /\ hits \in 0..MaxHits /\ expiring \in BOOLEAN
  /\ expiring => hits > 0
  /\ \A r \in Requests : First(r) => ~expiring /\ hits > 0 /\ \A s \in Requests : First(s) => s = r

(* A row's pin is no one's who has yet to save it.                          *)
HoldsPin(r) == call[r].at \in {"saving", "asking", "rejecting"}
PinsInv ==
  /\ pins \in 0..MaxPins /\ rows \subseteq Rows
  /\ asked \in [1..MaxPins -> Nat]
  /\ \A w \in rows : w.pin <= pins
  /\ \A v, w \in rows : v.pin = w.pin => v = w
  /\ \A r \in Requests :
       /\ HoldsPin(r) => call[r].pin \in 1..pins
       /\ call[r].at = "saving" =>
            /\ \A w \in rows : w.pin # call[r].pin
            /\ \A s \in Requests : call[s].at = "saving" /\ call[s].pin = call[r].pin => s = r

(* The requests of the window that may still text, and have not.            *)
Pending ==
  {r \in Requests : call[r].fresh /\ call[r].n <= Limit /\ call[r].at \in {"counted", "clearing", "texting"}}
TextsInv ==
  /\ texted \in Nat
  /\ \A r \in Requests : call[r].at \in {"clearing", "texting"} => call[r].n <= Limit
  /\ texted + Cardinality(Pending) <= IF hits <= Limit THEN hits ELSE Limit

FlagsInv ==
  {lost, known, fits, signedIn} \subseteq BOOLEAN /\ crashes \in 0..MaxCrashes /\ faults \in 0..MaxFaults

Inv == CallsInv /\ WindowInv /\ PinsInv /\ TextsInv /\ FlagsInv

-----------------------------------------------------------------------------
(* What is written of a request is again a record of its kind.              *)
LEMMA IdleCall == Idle \in Calls
<1>1. "idle" \in Places /\ 0 \in 0..MaxHits /\ 0 \in 0..MaxPins
  BY LoginAssumption DEF Places
<1> QED
  BY <1>1, Zenon DEF Idle, Calls

LEMMA CallUpdates ==
  ASSUME NEW c \in Calls
  PROVE  /\ \A to \in Places : [c EXCEPT !.at = to] \in Calls
         /\ \A to \in Places, n \in 0..MaxHits : [c EXCEPT !.at = to, !.n = n, !.fresh = TRUE] \in Calls
         /\ \A to \in Places, n \in 0..MaxPins : [c EXCEPT !.at = to, !.pin = n] \in Calls
         /\ \A to \in Places, n \in 0..MaxPins : [c EXCEPT !.pin = n, !.at = to] \in Calls
         /\ [c EXCEPT !.fresh = FALSE] \in Calls
<1>1. \A to \in Places : [c EXCEPT !.at = to] \in Calls
  BY Zenon DEF Calls
<1>2. \A to \in Places, n \in 0..MaxHits : [c EXCEPT !.at = to, !.n = n, !.fresh = TRUE] \in Calls
  BY Zenon DEF Calls
<1>3. \A to \in Places, n \in 0..MaxPins : [c EXCEPT !.at = to, !.pin = n] \in Calls
  BY Zenon DEF Calls
<1>4. \A to \in Places, n \in 0..MaxPins : [c EXCEPT !.pin = n, !.at = to] \in Calls
  BY Zenon DEF Calls
<1>5. [c EXCEPT !.fresh = FALSE] \in Calls
  BY Zenon DEF Calls
<1> QED
  BY <1>1, <1>2, <1>3, <1>4, <1>5

LEMMA Fields ==
  /\ Idle.at = "idle" /\ Idle.pin = 0 /\ Idle.n = 0
  /\ \A c \in Calls, to \in Places :
       LET d == [c EXCEPT !.at = to]
       IN  d.at = to /\ d.pin = c.pin /\ d.n = c.n /\ d.fresh = c.fresh
<1>1. Idle.at = "idle" /\ Idle.pin = 0 /\ Idle.n = 0
  BY DEF Idle
<1>2. ASSUME NEW c \in Calls, NEW to \in Places
      PROVE  /\ [c EXCEPT !.at = to].at = to /\ [c EXCEPT !.at = to].pin = c.pin
             /\ [c EXCEPT !.at = to].n = c.n /\ [c EXCEPT !.at = to].fresh = c.fresh
  BY <1>2, Zenon DEF Calls
<1> QED
  BY <1>1, <1>2, Zenon

LEMMA InitInv == Init => Inv
<1> SUFFICES ASSUME Init PROVE Inv
  OBVIOUS
<1> USE LoginAssumption DEF Init, Idle
<1>1. CallsInv
  BY IdleCall DEF CallsInv
<1>2. WindowInv
  <2>1. expiring \in BOOLEAN
    BY Zenon
  <2>2. ~expiring /\ hits \in 0..MaxHits /\ \A r \in Requests : ~First(r)
    BY DEF First
  <2> QED
    BY <2>1, <2>2, Zenon DEF WindowInv
<1>3. PinsInv
  BY DEF PinsInv, HoldsPin, Rows
<1>4. TextsInv
  <2>1. Pending = {}
    BY DEF Pending
  <2> QED
    BY <2>1, FS_EmptySet DEF TextsInv
<1>5. FlagsInv
  <2>1. {lost, known, fits, signedIn} \subseteq BOOLEAN
    BY Zenon
  <2> QED
    BY <2>1 DEF FlagsInv
<1> QED
  BY <1>1, <1>2, <1>3, <1>4, <1>5 DEF Inv

(* Steps of a request r leave the other requests as they are.               *)
Others(r) == \A s \in Requests \ {r} : call'[s] = call[s]

LEMMA PutCall ==
  ASSUME CallsInv, NEW r \in Requests, NEW c \in Calls, call' = [call EXCEPT ![r] = c]
  PROVE  CallsInv' /\ call'[r] = c /\ Others(r)
BY DEF CallsInv, Others

(* What a request's step does to its record.                                *)
LEMMA CallOfStep ==
  ASSUME CallsInv, NEW r \in Requests, NEW from, NEW to \in Places, Step(r, from, to)
  PROVE  CallsInv' /\ call[r].at = from /\ call'[r] = [call[r] EXCEPT !.at = to] /\ Others(r)
<1>1. call[r] \in Calls
  BY DEF CallsInv
<1>2. call' = [call EXCEPT ![r] = [call[r] EXCEPT !.at = to]] /\ call[r].at = from
  BY DEF Step
<1>3. [call[r] EXCEPT !.at = to] \in Calls
  BY <1>1, CallUpdates
<1> QED
  BY <1>2, <1>3, PutCall

LEMMA CallOfReturn ==
  ASSUME CallsInv, NEW r \in Requests, NEW from, Return(r, from)
  PROVE  CallsInv' /\ call[r].at = from /\ call'[r] = Idle /\ Others(r)
BY PutCall, IdleCall DEF Return

LEMMA CallOfCount ==
  ASSUME CallsInv, WindowInv, NEW r \in Requests, Count(r)
  PROVE  /\ CallsInv' /\ Others(r) /\ call[r].at = "idle"
         /\ call'[r].at = "counted" /\ call'[r].n = hits + 1 /\ call'[r].fresh
<1> DEFINE c == [Idle EXCEPT !.at = "counted", !.n = hits + 1, !.fresh = TRUE]
<1>1. hits + 1 \in 0..MaxHits
  BY LoginAssumption DEF Count, WindowInv
<1>2. c \in Calls
  BY <1>1, IdleCall, CallUpdates DEF Places
<1>3. call' = [call EXCEPT ![r] = c] /\ call[r].at = "idle"
  BY DEF Count
<1>4. c.at = "counted" /\ c.n = hits + 1 /\ c.fresh
  BY DEF Idle
<1> HIDE DEF c
<1> QED
  BY <1>2, <1>3, <1>4, PutCall

LEMMA CallOfLook ==
  ASSUME CallsInv, PinsInv, NEW r \in Requests, Look(r)
  PROVE  /\ CallsInv' /\ Others(r) /\ call[r].at = "idle"
         /\ call'[r].at \in {"discarding", "asking"} /\ call'[r].pin \in 1..pins /\ ~call'[r].fresh
<1>1. PICK row \in rows : row.live /\ call[r].at = "idle" /\
        call' = [call EXCEPT ![r] = [Idle EXCEPT !.pin = row.pin, !.at = IF Spent(row) THEN "discarding" ELSE "asking"]]
  BY DEF Look
<1> DEFINE to == IF Spent(row) THEN "discarding" ELSE "asking"
           c == [Idle EXCEPT !.pin = row.pin, !.at = to]
<1>2. to \in {"discarding", "asking"}
  OBVIOUS
<1>3. row.pin \in 0..MaxPins /\ row.pin \in 1..pins
  BY DEF PinsInv, Rows
<1>4. c.at = to /\ c.pin = row.pin /\ ~c.fresh
  BY DEF Idle
<1>5. to \in Places
  BY <1>2 DEF Places
<1> HIDE DEF to
<1>6. c \in Calls
  BY <1>3, <1>5, IdleCall, CallUpdates
<1>7. call' = [call EXCEPT ![r] = c]
  BY <1>1 DEF to
<1> HIDE DEF c
<1> QED
  BY <1>1, <1>2, <1>3, <1>4, <1>6, <1>7, PutCall

LEMMA CallOfText ==
  ASSUME CallsInv, PinsInv, NEW r \in Requests, Text(r)
  PROVE  /\ CallsInv' /\ Others(r) /\ call[r].at = "texting"
         /\ call'[r].at = "saving" /\ call'[r].pin = pins + 1
<1> DEFINE c == [call[r] EXCEPT !.at = "saving", !.pin = pins + 1]
<1>1. pins + 1 \in 0..MaxPins
  BY LoginAssumption DEF Text, PinsInv
<1>2. call[r] \in Calls
  BY DEF CallsInv
<1>3. c \in Calls
  BY <1>1, <1>2, CallUpdates DEF Places
<1>4. call' = [call EXCEPT ![r] = c] /\ call[r].at = "texting"
  BY <1>2 DEF Text, CallsInv, Calls
<1>5. c.at = "saving" /\ c.pin = pins + 1
  BY <1>2 DEF Calls
<1> HIDE DEF c
<1> QED
  BY <1>3, <1>4, <1>5, PutCall

(* WindowEnds and Crash write every request's record.                       *)
LEMMA CallsOfWindowEnds ==
  ASSUME CallsInv, WindowEnds
  PROVE  /\ CallsInv'
         /\ \A r \in Requests : /\ call'[r].at = call[r].at /\ call'[r].n = call[r].n
                                /\ call'[r].pin = call[r].pin /\ ~call'[r].fresh
<1>1. \A r \in Requests : call[r] \in Calls
  BY DEF CallsInv
<1>2. call' = [r \in Requests |-> [call[r] EXCEPT !.fresh = FALSE]]
  BY DEF WindowEnds
<1>3. \A r \in Requests : call'[r] \in Calls
  BY <1>1, <1>2, CallUpdates
<1>4. CallsInv'
  BY <1>2, <1>3 DEF CallsInv
<1>5. ASSUME NEW r \in Requests
      PROVE  /\ call'[r].at = call[r].at /\ call'[r].n = call[r].n
             /\ call'[r].pin = call[r].pin /\ ~call'[r].fresh
  BY <1>1, <1>2 DEF Calls
<1> QED
  BY <1>4, <1>5

LEMMA CallsOfCrash ==
  ASSUME Crash
  PROVE  CallsInv' /\ \A r \in Requests : call'[r].at = "idle" /\ ~call'[r].fresh
BY IdleCall DEF Crash, CallsInv, Idle

-----------------------------------------------------------------------------
(* A step of r that leaves rate and pins alone, and puts r in no place that *)
(* these are about.                                                         *)
LEMMA WindowKept ==
  ASSUME WindowInv, NEW r \in Requests, Others(r), call'[r].at # "counted",
         hits' = hits, expiring' = expiring
  PROVE  WindowInv'
<1>1. ~First(r)' /\ \A s \in Requests : First(s)' => First(s)
  BY DEF First, Others
<1> QED
  BY <1>1 DEF WindowInv

LEMMA PinsKept ==
  ASSUME PinsInv, NEW r \in Requests, Others(r), pins' = pins, asked' \in [1..MaxPins -> Nat],
         rows' \subseteq Rows, \A w \in rows' : \E v \in rows : v.pin = w.pin,
         \A v, w \in rows' : v.pin = w.pin => v = w,
         call'[r].at # "saving", HoldsPin(r)' => call'[r].pin \in 1..pins
  PROVE  PinsInv'
<1>1. \A s \in Requests : call'[s].at = "saving" => s # r /\ call'[s] = call[s]
  BY DEF Others
<1>2. \A s \in Requests : HoldsPin(s)' => call'[s].pin \in 1..pins'
  BY DEF PinsInv, HoldsPin, Others
<1>3. \A w \in rows' : w.pin <= pins'
  BY DEF PinsInv
<1>4. ASSUME NEW s \in Requests, call'[s].at = "saving"
      PROVE  /\ \A w \in rows' : w.pin # call'[s].pin
             /\ \A t \in Requests : call'[t].at = "saving" /\ call'[t].pin = call'[s].pin => t = s
  BY <1>1, <1>4 DEF PinsInv
<1> QED
  BY <1>2, <1>3, <1>4 DEF PinsInv

LEMMA PendingFinite ==
  /\ IsFiniteSet(Pending) /\ Cardinality(Pending) \in Nat
  /\ IsFiniteSet(Pending') /\ Cardinality(Pending') \in Nat
<1>1. Pending \subseteq Requests /\ Pending' \subseteq Requests
  BY DEF Pending
<1> QED
  BY <1>1, LoginAssumption, FS_Subset, FS_CardinalityType

LEMMA TextsKept ==
  ASSUME WindowInv, TextsInv, NEW r \in Requests, Others(r), hits' = hits, texted' = texted,
         Pending' \subseteq Pending,
         call'[r].at \in {"clearing", "texting"} => call'[r].n <= Limit
  PROVE  TextsInv'
<1>1. Cardinality(Pending') <= Cardinality(Pending)
  BY PendingFinite, FS_Subset
<1>2. \A s \in Requests : call'[s].at \in {"clearing", "texting"} => call'[s].n <= Limit
  BY DEF TextsInv, Others
<1> HIDE DEF Pending
<1> QED
  BY <1>1, <1>2, PendingFinite, LoginAssumption DEF TextsInv, WindowInv

LEMMA PendingShrinks ==
  ASSUME NEW r \in Requests, Others(r), call'[r].at \notin {"counted", "clearing", "texting"}
  PROVE  Pending' \subseteq Pending
BY DEF Pending, Others

-----------------------------------------------------------------------------
LEMMA CheckRateCall ==
  ASSUME CallsInv, NEW r \in Requests, CheckRate(r)
  PROVE  /\ CallsInv' /\ Others(r) /\ call[r].at = "counted"
         /\ \/ call'[r] = Idle
            \/ call'[r] = [call[r] EXCEPT !.at = "clearing"] /\ ~TooMany(call[r].n)
<1>1. CASE TooMany(call[r].n) /\ Return(r, "counted")
  BY <1>1, CallOfReturn
<1>2. CASE ~TooMany(call[r].n) /\ Step(r, "counted", "clearing")
  BY <1>2, CallOfStep DEF Places
<1> QED
  BY <1>1, <1>2 DEF CheckRate

(* Where each other step of Handle, or a failure, leaves its request.       *)
Rests(r) ==
  \/ TextFails(r) \/ SaveRow(r) \/ Discard(r) \/ Reject(r) \/ Accept(r)
  \/ ExpireFails(r) \/ AwaitFails(r)

LEMMA HandleCalls ==
  ASSUME CallsInv, NEW r \in Requests
  PROVE  /\ ClearRows(r) => /\ CallsInv' /\ Others(r) /\ call[r].at = "clearing"
                            /\ call'[r] = [call[r] EXCEPT !.at = "texting"]
         /\ Rests(r) => CallsInv' /\ Others(r) /\ call'[r] = Idle
         /\ Answer(r) => /\ CallsInv' /\ Others(r) /\ call[r].at = "asking"
                         /\ \/ call'[r] = [call[r] EXCEPT !.at = "rejecting"]
                            \/ call'[r] = [call[r] EXCEPT !.at = "accepting"]
<1>1. {"texting", "rejecting", "accepting"} \subseteq Places
  BY DEF Places
<1>2. ASSUME ClearRows(r)
      PROVE  CallsInv' /\ Others(r) /\ call[r].at = "clearing" /\ call'[r] = [call[r] EXCEPT !.at = "texting"]
  BY <1>1, <1>2, CallOfStep DEF ClearRows
<1>3. ASSUME Rests(r)
      PROVE  CallsInv' /\ Others(r) /\ call'[r] = Idle
  <2>1. \E from \in Places : Return(r, from)
    BY <1>3 DEF Rests, TextFails, SaveRow, Discard, Reject, Accept, ExpireFails, AwaitFails, Places
  <2> QED
    BY <2>1, CallOfReturn
<1>4. ASSUME Answer(r)
      PROVE  /\ CallsInv' /\ Others(r) /\ call[r].at = "asking"
             /\ \/ call'[r] = [call[r] EXCEPT !.at = "rejecting"]
                \/ call'[r] = [call[r] EXCEPT !.at = "accepting"]
  <2>1. CASE Step(r, "asking", "rejecting")
    BY <1>1, <2>1, CallOfStep
  <2>2. CASE Step(r, "asking", "accepting")
    BY <1>1, <2>2, CallOfStep
  <2> QED
    BY <1>4, <2>1, <2>2 DEF Answer
<1> QED
  BY <1>2, <1>3, <1>4

(* What an answered request has become.                                     *)
LEMMA AnswerCall ==
  ASSUME CallsInv, NEW r \in Requests, Answer(r)
  PROVE  /\ Others(r) /\ call[r].at = "asking" /\ call'[r].at \in {"rejecting", "accepting"}
         /\ call'[r].pin = call[r].pin
<1>1. PICK to \in {"rejecting", "accepting"} :
        Others(r) /\ call[r].at = "asking" /\ call'[r] = [call[r] EXCEPT !.at = to]
  BY HandleCalls
<1>2. to \in Places /\ call[r] \in Calls
  BY DEF Places, CallsInv
<1> QED
  BY <1>1, <1>2, Fields

LEMMA FailCalls ==
  ASSUME NEW r \in Requests, Fail(r)
  PROVE  /\ CountFails(r) \/ ExpireFails(r) \/ AwaitFails(r)
         /\ pins' = pins /\ asked' = asked /\ texted' = texted /\ crashes' = crashes /\ faults' = faults + 1
         /\ CountFails(r) => call' = call /\ hits' = hits + 1 /\ hits < MaxHits /\ expiring' = expiring /\ rows' = rows
         /\ ExpireFails(r) => /\ hits' = hits /\ First(r) /\ (expiring' = TRUE \/ expiring' = expiring) /\ rows' = rows
         /\ AwaitFails(r) => hits' = hits /\ expiring' = expiring /\ (rows' = rows \/ rows' = {})
BY DEF Fail, CountFails, ExpireFails, AwaitFails, rate, Return, First

LEMMA CallsStep == Inv /\ [Next]_vars => CallsInv'
<1> SUFFICES ASSUME Inv, [Next]_vars PROVE CallsInv'
  OBVIOUS
<1> USE DEF Inv
<1>1. ASSUME NEW r \in Requests, Count(r) \/ Look(r) \/ Handle(r)
      PROVE  CallsInv'
  BY <1>1, CallOfCount, CallOfLook, CallOfText, CheckRateCall, HandleCalls DEF Handle, Rests
<1>2. CASE WindowEnds
  BY <1>2, CallsOfWindowEnds
<1>3. CASE Crash
  BY <1>3, CallsOfCrash
<1>4. CASE RowExpires \/ UNCHANGED vars
  BY <1>4 DEF RowExpires, vars, CallsInv
<1>5. ASSUME NEW r \in Requests, Fail(r) PROVE CallsInv'
  <2>1. CASE CountFails(r)
    BY <1>5, <2>1, FailCalls DEF CallsInv
  <2>2. CASE ExpireFails(r) \/ AwaitFails(r)
    BY <2>2, HandleCalls DEF Rests
  <2> QED
    BY <1>5, <2>1, <2>2, FailCalls
<1> QED
  BY <1>1, <1>2, <1>3, <1>4, <1>5 DEF Next

(* Only the first request of a window arms its end, and it is alone.        *)
LEMMA WindowStep == Inv /\ [Next]_vars => WindowInv'
<1> SUFFICES ASSUME Inv, [Next]_vars PROVE WindowInv'
  OBVIOUS
<1> USE DEF Inv
<1>1. ASSUME NEW r \in Requests, Count(r) PROVE WindowInv'
  <2>1. Others(r) /\ call'[r].at = "counted" /\ call'[r].n = hits + 1
    BY <1>1, CallOfCount
  <2>2. hits' = hits + 1 /\ hits < MaxHits /\ expiring' = expiring
    BY <1>1 DEF Count, rate
  <2>3. \A s \in Requests \ {r} : First(s)' <=> First(s)
    BY <2>1 DEF First, Others
  <2>4. First(r)' => hits = 0
    BY <2>1 DEF First, WindowInv
  <2>5. \A s \in Requests : First(s)' => ~expiring /\ \A t \in Requests : First(t)' => t = s
    BY <2>3, <2>4 DEF WindowInv
  <2> QED
    BY <2>2, <2>5, LoginAssumption DEF WindowInv
<1>2. ASSUME NEW r \in Requests, CheckRate(r) PROVE WindowInv'
  <2>1. Others(r) /\ call[r].at = "counted" /\ call'[r].at # "counted"
    <3>1. call[r] \in Calls
      BY DEF CallsInv
    <3> QED
      BY <1>2, <3>1, CheckRateCall, Fields DEF Places
  <2>2. hits' = hits /\ expiring' = (expiring \/ First(r))
    BY <1>2, <2>1 DEF CheckRate, Armed, First
  <2>3. ~First(r)' /\ \A s \in Requests \ {r} : First(s)' <=> First(s)
    BY <2>1 DEF First, Others
  <2>4. expiring' \in BOOLEAN
    BY <2>2, Zenon DEF WindowInv, First
  <2> QED
    BY <2>2, <2>3, <2>4 DEF WindowInv
<1>3. ASSUME NEW r \in Requests, Look(r) \/ Text(r) PROVE WindowInv'
  <2>1. Others(r) /\ call'[r].at # "counted"
    BY <1>3, CallOfLook, CallOfText
  <2>2. hits' = hits /\ expiring' = expiring
    BY <1>3 DEF Look, Text, rate
  <2> QED
    BY <2>1, <2>2, WindowKept
<1>4. ASSUME NEW r \in Requests,
             ClearRows(r) \/ Answer(r) \/ TextFails(r) \/ SaveRow(r) \/ Discard(r) \/ Reject(r) \/ Accept(r)
      PROVE  WindowInv'
  <2>1. call[r] \in Calls
    BY DEF CallsInv
  <2>2. Others(r) /\ call'[r].at # "counted"
    <3>1. CASE ClearRows(r)
      BY <2>1, <3>1, HandleCalls, Fields, ZenonT(30) DEF Places
    <3>2. CASE Answer(r)
      BY <3>2, AnswerCall
    <3>3. CASE Rests(r)
      BY <3>3, HandleCalls, Fields
    <3> QED
      BY <1>4, <3>1, <3>2, <3>3 DEF Rests
  <2>3. hits' = hits /\ expiring' = expiring
    BY <1>4 DEF ClearRows, Answer, TextFails, SaveRow, Discard, Reject, Accept, rate
  <2> QED
    BY <2>2, <2>3, WindowKept
<1>5. CASE WindowEnds
  <2>1. \A r \in Requests : First(r)' => First(r)
    BY <1>5, CallsOfWindowEnds DEF First
  <2>2. hits' = 0 /\ expiring' = FALSE /\ expiring
    BY <1>5 DEF WindowEnds
  <2>3. hits' \in 0..MaxHits /\ \A r \in Requests : ~First(r)'
    BY <2>1, <2>2, LoginAssumption DEF WindowInv
  <2>4. expiring' \in BOOLEAN /\ ~expiring'
    BY <2>2, Zenon
  <2> QED
    BY <2>3, <2>4, Zenon DEF WindowInv
<1>6. CASE Crash
  <2>1. \A r \in Requests : ~First(r)'
    BY <1>6, CallsOfCrash DEF First
  <2> QED
    BY <1>6, <2>1 DEF Crash, WindowInv
<1>7. CASE RowExpires \/ UNCHANGED vars
  BY <1>7 DEF RowExpires, vars, rate, WindowInv, First
<1>8. ASSUME NEW r \in Requests, Fail(r) PROVE WindowInv'
  <2>1. CASE CountFails(r)
    <3>1. call' = call /\ hits' = hits + 1 /\ hits < MaxHits /\ expiring' = expiring
      BY <1>8, <2>1, FailCalls
    <3>2. \A s \in Requests : First(s)' <=> First(s)
      BY <3>1 DEF First
    <3> QED
      BY <3>1, <3>2, LoginAssumption DEF WindowInv
  <2>2. CASE ExpireFails(r)
    <3>1. hits' = hits /\ First(r) /\ (expiring' = TRUE \/ expiring' = expiring)
      BY <1>8, <2>2, FailCalls
    <3>2. Others(r) /\ call'[r].at = "idle"
      BY <2>2, HandleCalls, Fields DEF Rests
    <3>3. \A s \in Requests : ~First(s)'
      BY <3>1, <3>2 DEF First, Others, WindowInv
    <3>4. expiring' \in BOOLEAN
      BY <3>1, Zenon DEF WindowInv
    <3>5. hits > 0
      BY <3>1 DEF WindowInv
    <3> QED
      BY <3>1, <3>3, <3>4, <3>5 DEF WindowInv
  <2>3. CASE AwaitFails(r)
    <3>1. hits' = hits /\ expiring' = expiring
      BY <1>8, <2>3, FailCalls
    <3>2. Others(r) /\ call'[r].at # "counted"
      BY <2>3, HandleCalls, Fields DEF Rests
    <3> QED
      BY <3>1, <3>2, WindowKept
  <2> QED
    BY <1>8, <2>1, <2>2, <2>3, FailCalls
<1> QED
  BY <1>1, <1>2, <1>3, <1>4, <1>5, <1>6, <1>7, <1>8 DEF Next, Handle

-----------------------------------------------------------------------------
(* A pin is new when it is made, and its row is saved once.                 *)
LEMMA PinsStep == Inv /\ [Next]_vars => PinsInv'
<1> SUFFICES ASSUME Inv, [Next]_vars PROVE PinsInv'
  OBVIOUS
<1> USE DEF Inv
<1>1. ASSUME NEW r \in Requests,
             Count(r) \/ Look(r) \/ CheckRate(r) \/ ClearRows(r) \/ TextFails(r) \/ Discard(r)
               \/ Accept(r)
      PROVE  PinsInv'
  <2>1. call[r] \in Calls
    BY DEF CallsInv
  <2>2. Others(r) /\ call'[r].at # "saving" /\ (HoldsPin(r)' => call'[r].pin \in 1..pins)
    <3>1. CASE Count(r)
      BY <3>1, CallOfCount DEF HoldsPin
    <3>2. CASE Look(r)
      BY <3>2, CallOfLook
    <3>3. CASE CheckRate(r)
      <4>1. Others(r) /\ (call'[r] = Idle \/ call'[r] = [call[r] EXCEPT !.at = "clearing"])
        BY <3>3, CheckRateCall
      <4>2. call'[r].at \in {"idle", "clearing"}
        <5>1. CASE call'[r] = Idle
          BY <5>1, Fields
        <5>2. CASE call'[r] = [call[r] EXCEPT !.at = "clearing"]
          BY <2>1, <5>2, Fields DEF Places
        <5> QED
          BY <4>1, <5>1, <5>2
      <4> QED
        BY <4>1, <4>2 DEF HoldsPin
    <3>4. CASE ClearRows(r)
      <4>1. Others(r) /\ call'[r] = [call[r] EXCEPT !.at = "texting"]
        BY <3>4, HandleCalls
      <4>2. call'[r].at = "texting"
        BY <2>1, <4>1, Fields DEF Places
      <4> QED
        BY <4>1, <4>2 DEF HoldsPin
    <3>5. CASE TextFails(r) \/ Discard(r) \/ Accept(r)
      <4>1. Others(r) /\ call'[r].at = "idle"
        BY <3>5, HandleCalls, Fields DEF Rests
      <4> QED
        BY <4>1 DEF HoldsPin
    <3> QED
      BY <1>1, <3>1, <3>2, <3>3, <3>4, <3>5
  <2>3. pins' = pins /\ (rows' = rows \/ rows' = {})
    BY <1>1 DEF Count, Look, CheckRate, ClearRows, TextFails, Discard, Accept
  <2>4. asked' \in [1..MaxPins -> Nat]
    <3>1. CASE Look(r)
      <4>1. PICK row \in rows : asked' = asked \/ asked' = [asked EXCEPT ![row.pin] = @ + 1]
        BY <3>1 DEF Look
      <4>2. row.pin \in 1..MaxPins
        BY DEF PinsInv, Rows
      <4> QED
        BY <4>1, <4>2 DEF PinsInv
    <3>2. CASE ~Look(r)
      BY <1>1, <3>2 DEF Count, CheckRate, ClearRows, TextFails, Discard, Accept, PinsInv
    <3> QED
      BY <3>1, <3>2
  <2> QED
    BY <2>2, <2>3, <2>4, PinsKept DEF PinsInv
<1>2. ASSUME NEW r \in Requests, Answer(r) PROVE PinsInv'
  <2>1. /\ Others(r) /\ call[r].at = "asking" /\ call'[r].at \in {"rejecting", "accepting"}
        /\ call'[r].pin = call[r].pin
    BY <1>2, AnswerCall
  <2>2. call[r].pin \in 1..pins
    BY <2>1 DEF PinsInv, HoldsPin
  <2>3. pins' = pins /\ rows' = rows /\ asked' = asked
    BY <1>2 DEF Answer
  <2> QED
    BY <2>1, <2>2, <2>3, PinsKept DEF PinsInv
<1>3. ASSUME NEW r \in Requests, Reject(r) PROVE PinsInv'
  <2>1. Others(r) /\ call'[r].at = "idle"
    BY <1>3, HandleCalls, Fields DEF Rests
  <2>2. pins' = pins /\ asked' = asked /\ rows' = {IF w.pin = call[r].pin THEN Guessed(w) ELSE w : w \in rows}
    BY <1>3 DEF Reject
  <2>3. \A w \in rows : Guessed(w) \in Rows /\ Guessed(w).pin = w.pin
    <3>1. ASSUME NEW w \in rows PROVE w.attempts + 1 \in Nat /\ w \in Rows
      BY DEF PinsInv, Rows
    <3>2. ASSUME NEW w \in Rows, NEW n \in Nat
          PROVE  [w EXCEPT !.attempts = n] \in Rows /\ [w EXCEPT !.attempts = n].pin = w.pin
      BY Zenon DEF Rows
    <3>3. \A w \in rows : Guessed(w) = [w EXCEPT !.attempts = w.attempts + 1]
      BY DEF Guessed
    <3> QED
      BY <3>1, <3>2, <3>3, ZenonT(30)
  <2>4. \A w \in rows' : w \in Rows /\ \E v \in rows : v.pin = w.pin
    BY <2>2, <2>3 DEF PinsInv
  <2>5. \A v, w \in rows' : v.pin = w.pin => v = w
    BY <2>2, <2>3 DEF PinsInv
  <2> QED
    BY <2>1, <2>2, <2>4, <2>5, PinsKept DEF PinsInv, HoldsPin
<1>4. ASSUME NEW r \in Requests, Text(r) PROVE PinsInv'
  <2>1. Others(r) /\ call'[r].at = "saving" /\ call'[r].pin = pins + 1
    BY <1>4, CallOfText
  <2>2. pins' = pins + 1 /\ pins < MaxPins /\ rows' = rows /\ asked' = asked
    BY <1>4 DEF Text
  <2>3. pins' \in 0..MaxPins /\ \A w \in rows : w.pin < pins' /\ w.pin <= pins'
    BY <2>2, LoginAssumption DEF PinsInv, Rows
  <2>4. \A s \in Requests : HoldsPin(s)' =>
           call'[s].pin \in 1..pins' /\ (s # r => call'[s].pin < pins')
    BY <2>1, <2>2, LoginAssumption DEF PinsInv, HoldsPin, Others
  <2>5. ASSUME NEW s \in Requests, call'[s].at = "saving"
        PROVE  /\ \A w \in rows' : w.pin # call'[s].pin
               /\ \A t \in Requests : call'[t].at = "saving" /\ call'[t].pin = call'[s].pin => t = s
    <3>1. \A t \in Requests : call'[t].at = "saving" => HoldsPin(t)'
      BY DEF HoldsPin
    <3> QED
      BY <2>1, <2>2, <2>3, <2>4, <2>5, <3>1 DEF PinsInv, Others
  <2> QED
    BY <2>2, <2>3, <2>4, <2>5 DEF PinsInv
<1>5. ASSUME NEW r \in Requests, SaveRow(r) PROVE PinsInv'
  <2> DEFINE row == [pin |-> call[r].pin, attempts |-> 0, live |-> TRUE]
  <2>1. Others(r) /\ call'[r].at = "idle" /\ call[r].at = "saving"
    BY <1>5, HandleCalls, Fields DEF SaveRow, Return, Rests
  <2>2. pins' = pins /\ asked' = asked /\ (rows' = rows \cup {row} \/ rows' = rows)
    BY <1>5 DEF SaveRow
  <2>3. call[r].pin \in 1..pins /\ \A w \in rows : w.pin # call[r].pin
    BY <2>1 DEF PinsInv, HoldsPin
  <2>4. call[r].pin \in 1..MaxPins
    BY <2>3, LoginAssumption DEF PinsInv
  <2>5. row \in Rows /\ row.pin = call[r].pin
    BY <2>4, Zenon, 0 \in Nat DEF Rows
  <2> HIDE DEF row
  <2>6. \A w \in rows' : w \in Rows /\ w.pin <= pins'
    BY <2>2, <2>3, <2>5 DEF PinsInv
  <2>7. \A v, w \in rows' : v.pin = w.pin => v = w
    BY <2>2, <2>3, <2>5 DEF PinsInv
  <2>8. \A s \in Requests : HoldsPin(s)' => s # r /\ call'[s] = call[s]
    BY <2>1 DEF HoldsPin, Others
  <2>9. \A s \in Requests : HoldsPin(s)' => call'[s].pin \in 1..pins'
    BY <2>2, <2>8 DEF PinsInv, HoldsPin
  <2>10. ASSUME NEW s \in Requests, call'[s].at = "saving"
         PROVE  /\ \A w \in rows' : w.pin # call'[s].pin
                /\ \A t \in Requests : call'[t].at = "saving" /\ call'[t].pin = call'[s].pin => t = s
    <3>1. \A t \in Requests : call'[t].at = "saving" => t # r /\ call'[t] = call[t]
      BY <2>8 DEF HoldsPin
    <3>2. call[s].at = "saving" /\ call'[s] = call[s] /\ s # r
      BY <2>10, <3>1
    <3>3. call[s].pin # call[r].pin
      BY <2>1, <3>2 DEF PinsInv
    <3>4. \A w \in rows' : w.pin # call'[s].pin
      BY <2>2, <2>5, <3>2, <3>3 DEF PinsInv
    <3> QED
      BY <3>1, <3>2, <3>4 DEF PinsInv
  <2> QED
    BY <2>2, <2>6, <2>7, <2>9, <2>10 DEF PinsInv
<1>6. CASE RowExpires
  <2>1. PICK w \in rows : w.live /\ rows' = (rows \ {w}) \cup {[w EXCEPT !.live = FALSE]}
    BY <1>6 DEF RowExpires
  <2> DEFINE dead == [w EXCEPT !.live = FALSE]
  <2>2. w \in Rows
    BY DEF PinsInv
  <2>3. dead \in Rows /\ dead.pin = w.pin
    BY <2>2, Zenon DEF Rows
  <2>4. rows' = (rows \ {w}) \cup {dead}
    BY <2>1
  <2> HIDE DEF dead
  <2>5. \A v \in rows' : v \in Rows /\ \E u \in rows : u.pin = v.pin
    BY <2>3, <2>4 DEF PinsInv
  <2>6. \A u, v \in rows' : u.pin = v.pin => u = v
    BY <2>3, <2>4 DEF PinsInv
  <2>7. pins' = pins /\ asked' = asked /\ call' = call
    BY <1>6 DEF RowExpires
  <2>8. \A r \in Requests : call'[r].at = "saving" => \A v \in rows' : v.pin # call'[r].pin
    BY <2>5, <2>7 DEF PinsInv
  <2>9. /\ pins' \in 0..MaxPins /\ rows' \subseteq Rows /\ asked' \in [1..MaxPins -> Nat]
        /\ \A v \in rows' : v.pin <= pins'
    BY <2>5, <2>7 DEF PinsInv
  <2> QED
    BY <2>6, <2>7, <2>8, <2>9 DEF PinsInv, HoldsPin
<1>7. CASE WindowEnds
  <2>1. pins' = pins /\ asked' = asked /\ rows' = rows
    BY <1>7 DEF WindowEnds
  <2> QED
    BY <1>7, <2>1, CallsOfWindowEnds DEF PinsInv, HoldsPin
<1>8. CASE Crash
  <2>1. pins' = pins /\ asked' = asked /\ rows' = rows
    BY <1>8 DEF Crash
  <2> QED
    BY <1>8, <2>1, CallsOfCrash DEF PinsInv, HoldsPin
<1>9. CASE UNCHANGED vars
  BY <1>9 DEF vars, PinsInv, HoldsPin
<1>10. ASSUME NEW r \in Requests, Fail(r) PROVE PinsInv'
  <2>1. CASE CountFails(r)
    <3>1. pins' = pins /\ asked' = asked /\ rows' = rows /\ call' = call
      BY <1>10, <2>1, FailCalls
    <3> QED
      BY <3>1 DEF PinsInv, HoldsPin
  <2>2. CASE ExpireFails(r) \/ AwaitFails(r)
    <3>1. pins' = pins /\ asked' = asked /\ (rows' = rows \/ rows' = {})
      BY <1>10, <2>2, FailCalls
    <3>2. Others(r) /\ call'[r].at = "idle"
      BY <2>2, HandleCalls, Fields DEF Rests
    <3> QED
      BY <3>1, <3>2, PinsKept DEF PinsInv, HoldsPin
  <2> QED
    BY <1>10, <2>1, <2>2, FailCalls
<1> QED
  BY <1>1, <1>2, <1>3, <1>4, <1>5, <1>6, <1>7, <1>8, <1>9, <1>10 DEF Next, Handle

-----------------------------------------------------------------------------
(* A window's requests text at most Limit pins: each of them had to find a  *)
(* count within the limit, and each count is given to one request.          *)
LEMMA TextsStep == Inv /\ [Next]_vars => TextsInv'
<1> SUFFICES ASSUME Inv, [Next]_vars PROVE TextsInv'
  OBVIOUS
<1> USE DEF Inv
<1>1. ASSUME NEW r \in Requests, Count(r) PROVE TextsInv'
  <2>1. /\ Others(r) /\ call[r].at = "idle" /\ call'[r].at = "counted"
        /\ call'[r].n = hits + 1 /\ call'[r].fresh
    BY <1>1, CallOfCount
  <2>2. hits' = hits + 1 /\ texted' = texted /\ hits \in Nat
    BY <1>1, LoginAssumption DEF Count, WindowInv
  <2>3. r \notin Pending
    BY <2>1 DEF Pending
  <2>4. Pending' = IF hits + 1 <= Limit THEN Pending \cup {r} ELSE Pending
    BY <2>1 DEF Pending, Others
  <2>5. Cardinality(Pending') = Cardinality(Pending) + IF hits + 1 <= Limit THEN 1 ELSE 0
    <3> HIDE DEF Pending
    <3>1. Cardinality(Pending \cup {r}) = Cardinality(Pending) + 1
      BY <2>3, PendingFinite, FS_AddElement
    <3> QED
      BY <2>4, <3>1, PendingFinite
  <2>6. \A s \in Requests : call'[s].at \in {"clearing", "texting"} => call'[s].n <= Limit
    BY <2>1 DEF TextsInv, Others
  <2>7. Cardinality(Pending) \in Nat
    BY PendingFinite
  <2> HIDE DEF Pending
  <2> QED
    BY <2>2, <2>5, <2>6, <2>7, LoginAssumption DEF TextsInv
<1>2. ASSUME NEW r \in Requests, CheckRate(r) PROVE TextsInv'
  <2>1. call[r] \in Calls
    BY DEF CallsInv
  <2>2. hits' = hits /\ texted' = texted
    BY <1>2 DEF CheckRate
  <2>3. CASE call'[r] = Idle
    <3>1. Others(r) /\ call'[r].at = "idle"
      BY <1>2, <2>3, CheckRateCall, Fields
    <3> QED
      BY <2>2, <3>1, PendingShrinks, TextsKept
  <2>4. CASE call'[r] = [call[r] EXCEPT !.at = "clearing"] /\ ~TooMany(call[r].n)
    <3>1. /\ Others(r) /\ call[r].at = "counted" /\ call'[r].at = "clearing"
          /\ call'[r].n = call[r].n /\ call'[r].fresh = call[r].fresh
      BY <1>2, <2>1, <2>4, CheckRateCall, Fields DEF Places
    <3>2. call[r].n <= Limit
      BY <2>1, <2>4, LoginAssumption DEF TooMany, Calls
    <3>3. Pending' \subseteq Pending
      BY <3>1 DEF Pending, Others
    <3> QED
      BY <2>2, <3>1, <3>2, <3>3, TextsKept
  <2> QED
    BY <1>2, <2>3, <2>4, CheckRateCall
<1>3. ASSUME NEW r \in Requests, ClearRows(r) PROVE TextsInv'
  <2>1. call[r] \in Calls
    BY DEF CallsInv
  <2>2. hits' = hits /\ texted' = texted
    BY <1>3 DEF ClearRows, rate
  <2>3. /\ Others(r) /\ call[r].at = "clearing" /\ call'[r].at = "texting"
        /\ call'[r].n = call[r].n /\ call'[r].fresh = call[r].fresh
    <3>1. Others(r) /\ call[r].at = "clearing" /\ call'[r] = [call[r] EXCEPT !.at = "texting"]
      BY <1>3, HandleCalls
    <3>2. "texting" \in Places
      BY DEF Places
    <3> DEFINE d == [call[r] EXCEPT !.at = "texting"]
    <3>3. d.at = "texting" /\ d.n = call[r].n /\ d.fresh = call[r].fresh
      BY <2>1, <3>2, Zenon DEF Calls
    <3>4. call'[r] = d
      BY <3>1
    <3> HIDE DEF d
    <3> QED
      BY <3>1, <3>3, <3>4, Zenon
  <2>4. Pending' \subseteq Pending /\ call'[r].n <= Limit
    BY <2>3 DEF Pending, Others, TextsInv
  <2> QED
    BY <2>2, <2>3, <2>4, TextsKept
<1>4. ASSUME NEW r \in Requests, Text(r) PROVE TextsInv'
  <2>1. Others(r) /\ call[r].at = "texting" /\ call'[r].at = "saving"
    BY <1>4, CallOfText
  <2>2. hits' = hits /\ texted' = texted + IF call[r].fresh THEN 1 ELSE 0
    BY <1>4 DEF Text
  <2>3. Pending' = Pending \ {r}
    BY <2>1 DEF Pending, Others
  <2>4. call[r].fresh => r \in Pending
    BY <2>1 DEF Pending, TextsInv
  <2>5. \A s \in Requests : call'[s].at \in {"clearing", "texting"} => call'[s].n <= Limit
    BY <2>1 DEF TextsInv, Others
  <2>6. texted' + Cardinality(Pending') <= texted + Cardinality(Pending)
    <3> HIDE DEF Pending
    <3>1. CASE r \in Pending
      <4>1. Cardinality(Pending \ {r}) = Cardinality(Pending) - 1
        BY <3>1, PendingFinite, FS_RemoveElement
      <4> QED
        BY <2>2, <2>3, <4>1, PendingFinite DEF TextsInv
    <3>2. CASE r \notin Pending
      BY <2>2, <2>3, <2>4, <3>2, PendingFinite DEF TextsInv
    <3> QED
      BY <3>1, <3>2
  <2>7. texted' \in Nat
    BY <2>2 DEF TextsInv
  <2>8. Cardinality(Pending) \in Nat /\ Cardinality(Pending') \in Nat
    BY PendingFinite
  <2> HIDE DEF Pending
  <2> QED
    BY <2>2, <2>5, <2>6, <2>7, <2>8, LoginAssumption DEF TextsInv, WindowInv
<1>5. ASSUME NEW r \in Requests,
             Look(r) \/ Answer(r) \/ TextFails(r) \/ SaveRow(r) \/ Discard(r) \/ Reject(r) \/ Accept(r)
      PROVE  TextsInv'
  <2>1. Others(r) /\ call'[r].at \notin {"counted", "clearing", "texting"}
    <3>1. CASE Look(r)
      BY <3>1, CallOfLook
    <3>2. CASE Answer(r)
      BY <3>2, AnswerCall
    <3>3. CASE Rests(r)
      BY <3>3, HandleCalls, Fields
    <3> QED
      BY <1>5, <3>1, <3>2, <3>3 DEF Rests
  <2>2. hits' = hits /\ texted' = texted
    BY <1>5 DEF Look, Answer, TextFails, SaveRow, Discard, Reject, Accept, rate
  <2> QED
    BY <2>1, <2>2, PendingShrinks, TextsKept
<1>6. CASE WindowEnds
  <2>1. Pending' = {}
    BY <1>6, CallsOfWindowEnds DEF Pending
  <2>2. hits' = 0 /\ texted' = 0
    BY <1>6 DEF WindowEnds
  <2>3. \A s \in Requests : call'[s].at \in {"clearing", "texting"} => call'[s].n <= Limit
    BY <1>6, CallsOfWindowEnds DEF TextsInv
  <2> QED
    BY <2>1, <2>2, <2>3, FS_EmptySet, LoginAssumption DEF TextsInv
<1>7. CASE Crash
  <2>1. Pending' = {}
    BY <1>7, CallsOfCrash DEF Pending
  <2>2. hits' = hits /\ texted' = texted
    BY <1>7 DEF Crash
  <2>3. \A s \in Requests : call'[s].at \notin {"clearing", "texting"}
    BY <1>7, CallsOfCrash
  <2>4. Cardinality(Pending') = 0 /\ Cardinality(Pending) >= 0
    BY <2>1, FS_EmptySet, PendingFinite
  <2> HIDE DEF Pending
  <2> QED
    BY <2>2, <2>3, <2>4, PendingFinite, LoginAssumption DEF TextsInv, WindowInv
<1>8. CASE RowExpires \/ UNCHANGED vars
  <2>1. hits' = hits /\ texted' = texted /\ call' = call
    BY <1>8 DEF RowExpires, vars, rate
  <2> QED
    BY <2>1 DEF TextsInv, Pending
<1>9. ASSUME NEW r \in Requests, Fail(r) PROVE TextsInv'
  <2>1. CASE CountFails(r)
    <3>1. call' = call /\ texted' = texted /\ hits' = hits + 1
      BY <1>9, <2>1, FailCalls
    <3>5. hits \in Nat
      BY LoginAssumption DEF WindowInv
    <3>2. Pending' = Pending
      BY <3>1 DEF Pending
    <3>3. \A s \in Requests : call'[s].at \in {"clearing", "texting"} => call'[s].n <= Limit
      BY <3>1 DEF TextsInv
    <3>4. Cardinality(Pending) \in Nat
      BY PendingFinite
    <3> HIDE DEF Pending
    <3> QED
      BY <3>5, <3>1, <3>2, <3>3, <3>4, LoginAssumption DEF TextsInv
  <2>2. CASE ExpireFails(r) \/ AwaitFails(r)
    <3>1. hits' = hits /\ texted' = texted
      BY <1>9, <2>2, FailCalls
    <3>2. Others(r) /\ call'[r].at = "idle"
      BY <2>2, HandleCalls, Fields DEF Rests
    <3> QED
      BY <3>1, <3>2, PendingShrinks, TextsKept
  <2> QED
    BY <1>9, <2>1, <2>2, FailCalls
<1> QED
  BY <1>1, <1>2, <1>3, <1>4, <1>5, <1>6, <1>7, <1>8, <1>9 DEF Next, Handle

LEMMA FlagsStep == Inv /\ [Next]_vars => FlagsInv'
<1> SUFFICES ASSUME Inv, [Next]_vars PROVE FlagsInv'
  OBVIOUS
<1> USE DEF Inv, FlagsInv
<1>1. ASSUME NEW r \in Requests, Count(r) \/ Look(r) \/ Handle(r) PROVE FlagsInv'
  <2>1. known' = known /\ fits' = fits /\ lost' = lost /\ crashes' = crashes /\ faults' = faults
    BY <1>1 DEF Handle, Count, Look, CheckRate, ClearRows, Text, TextFails, SaveRow, Discard, Answer, Reject,
                Accept, world, mishaps, rate
  <2>2. signedIn' = signedIn \/ Accept(r)
    BY <1>1 DEF Handle, Count, Look, CheckRate, ClearRows, Text, TextFails, SaveRow, Discard, Answer, Reject
  <2>3. signedIn' \in BOOLEAN
    BY <2>2, Zenon DEF Accept
  <2> QED
    BY <2>1, <2>3, Zenon
<1>2. ASSUME NEW r \in Requests, Fail(r) PROVE FlagsInv'
  <2>1. known' = known /\ fits' = fits /\ signedIn' = signedIn /\ crashes' = crashes
    BY <1>2 DEF Fail, world
  <2>2. faults' \in 0..MaxFaults
    BY <1>2, LoginAssumption DEF Fail
  <2>3. lost' \in BOOLEAN
    <3>1. \/ lost' = (lost \/ hits = 0) \/ lost' = lost \/ lost' = TRUE
      BY <1>2 DEF Fail, CountFails, ExpireFails, AwaitFails, rate
    <3> QED
      BY <3>1, Zenon
  <2> QED
    BY <2>1, <2>2, <2>3, Zenon
<1>3. CASE WindowEnds \/ RowExpires \/ UNCHANGED vars
  <2>1. /\ known' = known /\ fits' = fits /\ signedIn' = signedIn /\ lost' = lost
        /\ crashes' = crashes /\ faults' = faults
    BY <1>3 DEF WindowEnds, RowExpires, vars, world, mishaps, rate
  <2> QED
    BY <2>1, Zenon
<1>4. CASE Crash
  <2>1. known' = known /\ fits' = fits /\ signedIn' = signedIn /\ faults' = faults
    BY <1>4 DEF Crash, world
  <2>2. crashes' \in 0..MaxCrashes
    BY <1>4, LoginAssumption DEF Crash
  <2>3. lost' \in BOOLEAN
    BY <1>4, Zenon DEF Crash
  <2> QED
    BY <2>1, <2>2, <2>3, Zenon
<1> QED
  BY <1>1, <1>2, <1>3, <1>4 DEF Next

LEMMA InvStep == Inv /\ [Next]_vars => Inv'
BY CallsStep, WindowStep, PinsStep, TextsStep, FlagsStep, Zenon DEF Inv

-----------------------------------------------------------------------------
(* Every variable has its type, and no pin has two rows, whatever requests  *)
(* of sendPhoneOtp and verifyPhoneOtp overlap, die or reject.               *)
THEOREM LoginTypes == Spec => []TypeOK
<1>1. Inv => TypeOK
  <2> SUFFICES ASSUME Inv PROVE TypeOK
    OBVIOUS
  <2> USE DEF Inv
  <2>1. {expiring, lost, known, fits, signedIn} \subseteq BOOLEAN
    BY Zenon DEF WindowInv, FlagsInv
  <2>2. call \in [Requests -> [at : {"idle", "counted", "clearing", "texting", "saving", "asking",
                                    "discarding", "rejecting", "accepting"},
                              n : 0..MaxHits, pin : 0..MaxPins, fresh : BOOLEAN]]
    BY Zenon DEF CallsInv, Calls, Places
  <2>3. hits \in 0..MaxHits /\ (expiring => hits > 0) /\ texted \in Nat /\ crashes \in 0..MaxCrashes /\ faults \in 0..MaxFaults
    BY Zenon DEF WindowInv, TextsInv, FlagsInv
  <2>4. /\ pins \in 0..MaxPins /\ rows \subseteq [pin : 1..MaxPins, attempts : Nat, live : BOOLEAN]
        /\ asked \in [1..MaxPins -> Nat] /\ \A v, w \in rows : v.pin = w.pin => v = w
    BY Zenon DEF PinsInv, Rows
  <2> QED
    BY <2>1, <2>2, <2>3, <2>4, Zenon DEF TypeOK
<1> QED
  BY InitInv, InvStep, <1>1, PTL DEF Spec

(* sendPhoneOtp's rate limit holds although its counter is read before and  *)
(* used after other requests, and a crash or a rejection leaves its key.    *)
THEOREM SmsStayBounded == Spec => []SmsBounded
<1>1. Inv => SmsBounded
  BY PendingFinite, LoginAssumption DEF Inv, TextsInv, WindowInv, SmsBounded
<1> QED
  BY InitInv, InvStep, <1>1, PTL DEF Spec

-----------------------------------------------------------------------------
(* The guesses at a pin.  One that was sent is counted in its row, or is    *)
(* that of a request under way, or was forgotten: a crash forgets those of  *)
(* all requests, an await that rejects one.  A request sends a guess at a   *)
(* row it found unspent.                                                    *)
Guessing == {"asking", "rejecting", "accepting"}
Out(p) == {r \in Requests : call[r].at \in Guessing /\ call[r].pin = p}
Sent(p) == Cardinality(Out(p))
Many == Cardinality(Requests)
Forgotten == Many * crashes + faults

AskedInv ==
  \A p \in 1..MaxPins : asked[p] <= MaxAttempts - 1 + Many + Forgotten
CountedInv ==
  \A w \in rows : asked[w.pin] <= w.attempts + Sent(w.pin) + Forgotten
UnaskedInv ==
  /\ \A p \in 1..MaxPins : p > pins => asked[p] = 0
  /\ \A r \in Requests : call[r].at = "saving" => asked[call[r].pin] = 0
GuessInv == AskedInv /\ CountedInv /\ UnaskedInv

LEMMA ForgottenType ==
  ASSUME FlagsInv
  PROVE  Many \in Nat /\ Forgotten \in Nat /\ Many * (1 + crashes) + faults = Many + Forgotten
<1>1. Many \in Nat /\ crashes \in Nat /\ faults \in Nat
  BY LoginAssumption, FS_CardinalityType DEF Many, FlagsInv
<1>2. \A m, n \in Nat : m * n \in Nat /\ m * (1 + n) = m + m * n
  OBVIOUS
<1> QED
  BY <1>1, <1>2 DEF Forgotten

(* A step of r changes who guesses at a pin by r alone.                     *)
LEMMA OutOfStep ==
  ASSUME NEW r \in Requests, Others(r), NEW p
  PROVE  /\ Sent(p)' + (IF r \in Out(p) THEN 1 ELSE 0) = Sent(p) + (IF r \in Out(p)' THEN 1 ELSE 0)
         /\ Sent(p) \in Nat /\ Sent(p)' \in Nat
<1> DEFINE S == Out(p)
           T == Out(p)'
<1>1. S \ {r} = T \ {r} /\ S \subseteq Requests /\ T \subseteq Requests
  BY DEF Out, Others
<1>2. IsFiniteSet(S) /\ IsFiniteSet(T) /\ Cardinality(S) \in Nat /\ Cardinality(T) \in Nat
  BY <1>1, LoginAssumption, FS_Subset, FS_CardinalityType
<1> HIDE DEF S, T
<1>3. Cardinality(T) + (IF r \in S THEN 1 ELSE 0) = Cardinality(S) + (IF r \in T THEN 1 ELSE 0)
  BY <1>1, <1>2, OneDiffers
<1> QED
  BY <1>2, <1>3 DEF S, T, Sent

(* An idle request does not guess.                                          *)
LEMMA IdleBeside ==
  ASSUME NEW r \in Requests, call[r].at = "idle", NEW p
  PROVE  Sent(p) + 1 <= Many /\ Sent(p) \in Nat
<1> DEFINE S == Out(p)
<1>1. r \notin S /\ S \subseteq Requests /\ S \cup {r} \subseteq Requests
  BY DEF Out, Guessing
<1>2. IsFiniteSet(S) /\ Cardinality(S) \in Nat
  BY <1>1, LoginAssumption, FS_Subset, FS_CardinalityType
<1> HIDE DEF S
<1>3. Cardinality(S \cup {r}) = Cardinality(S) + 1
  BY <1>1, <1>2, FS_AddElement
<1>4. Cardinality(S \cup {r}) <= Many
  BY <1>1, LoginAssumption, FS_Subset DEF Many
<1> QED
  BY <1>2, <1>3, <1>4 DEF S, Sent

(* A row that a step leaves has been there, and what it no longer owes to   *)
(* requests under way it has counted or it is forgotten.                    *)
Accounted ==
  \A w \in rows' : \E v \in rows :
    w.pin = v.pin /\ v.attempts + Sent(v.pin) + Forgotten <= w.attempts + Sent(v.pin)' + Forgotten'

LEMMA NothingSent ==
  ASSUME PinsInv, FlagsInv, GuessInv, Accounted,
         asked' = asked, pins' = pins, Forgotten' \in Nat, Forgotten <= Forgotten',
         \A s \in Requests : call'[s].at = "saving" => call[s].at = "saving" /\ call'[s].pin = call[s].pin,
         \A p \in 1..MaxPins : Sent(p) \in Nat /\ Sent(p)' \in Nat,
         rows' \subseteq Rows
  PROVE  GuessInv'
<1>1. Many \in Nat /\ Forgotten \in Nat
  BY ForgottenType
<1>2. \A p \in 1..MaxPins : asked[p] \in Nat
  BY DEF PinsInv
<1>3. AskedInv'
  BY <1>1, <1>2, LoginAssumption DEF GuessInv, AskedInv
<1>4. ASSUME NEW w \in rows' PROVE asked[w.pin] <= w.attempts + Sent(w.pin)' + Forgotten'
  <2>1. PICK v \in rows :
          w.pin = v.pin /\ v.attempts + Sent(v.pin) + Forgotten <= w.attempts + Sent(v.pin)' + Forgotten'
    BY DEF Accounted
  <2>2. asked[v.pin] <= v.attempts + Sent(v.pin) + Forgotten
    BY DEF GuessInv, CountedInv
  <2>3. v.pin \in 1..MaxPins /\ v.attempts \in Nat /\ w.attempts \in Nat
    BY DEF PinsInv, Rows
  <2>4. asked[v.pin] \in Nat /\ Sent(v.pin) \in Nat /\ Sent(v.pin)' \in Nat
    BY <1>2, <2>3
  <2>5. w.pin = v.pin
    BY <2>1
  <2> QED
    BY <1>1, <2>1, <2>2, <2>3, <2>4, <2>5
<1>5. CountedInv'
  BY <1>4 DEF CountedInv
<1>6. UnaskedInv'
  BY DEF GuessInv, UnaskedInv
<1> QED
  BY <1>3, <1>5, <1>6 DEF GuessInv

(* The same for a step of one request, whose rows stay or go.               *)
LEMMA RequestSendsNothing ==
  ASSUME PinsInv, FlagsInv, GuessInv, NEW r \in Requests, Others(r), call'[r].at # "saving",
         asked' = asked, pins' = pins, crashes' = crashes,
         \/ faults' = faults /\ (call[r].at \in Guessing => call'[r].at \in Guessing /\ call'[r].pin = call[r].pin)
         \/ faults' = faults + 1
         \/ faults' = faults /\ rows' = {},
         rows' = rows \/ rows' = {}
  PROVE  GuessInv'
<1>1. faults \in Nat /\ crashes \in Nat /\ Many \in Nat /\ Forgotten \in Nat
  BY ForgottenType, LoginAssumption DEF FlagsInv
<1>2. Forgotten' = Forgotten + (faults' - faults)
  <2>1. \A m, f, g \in Nat : m + g = m + f + (g - f)
    OBVIOUS
  <2>2. Many * crashes \in Nat /\ faults' \in Nat
    <3>1. \A m, n \in Nat : m * n \in Nat
      OBVIOUS
    <3> QED
      BY <1>1, <3>1
  <2>3. Forgotten' = Many * crashes + faults'
    BY DEF Forgotten, Many
  <2> QED
    BY <1>1, <2>1, <2>2, <2>3 DEF Forgotten
<1>3. faults' = faults \/ faults' = faults + 1
  OBVIOUS
<1>4. Forgotten' \in Nat /\ Forgotten <= Forgotten'
  BY <1>1, <1>2, <1>3
<1>5. \A p : Sent(p) \in Nat /\ Sent(p)' \in Nat
  BY OutOfStep
<1>6. rows' \subseteq Rows /\ \A w \in rows' : w \in rows
  BY DEF PinsInv
<1>7. \A s \in Requests : call'[s].at = "saving" => call[s].at = "saving" /\ call'[s].pin = call[s].pin
  BY DEF Others
<1>8. ASSUME NEW w \in rows'
      PROVE  w.attempts + Sent(w.pin) + Forgotten <= w.attempts + Sent(w.pin)' + Forgotten'
  <2>1. w.attempts \in Nat
    BY <1>6 DEF Rows
  <2>2. CASE faults' = faults + 1
    <3>1. Sent(w.pin) <= Sent(w.pin)' + 1
      BY <1>5, OutOfStep
    <3> QED
      BY <1>1, <1>2, <1>5, <2>1, <2>2, <3>1
  <2>3. CASE faults' = faults
    <3>1. call[r].at \in Guessing => call'[r].at \in Guessing /\ call'[r].pin = call[r].pin
      BY <1>1, <2>3
    <3>2. r \in Out(w.pin) => r \in Out(w.pin)'
      BY <3>1 DEF Out
    <3>3. Sent(w.pin) <= Sent(w.pin)'
      BY <1>5, <3>2, OutOfStep
    <3> QED
      BY <1>1, <1>2, <1>5, <2>1, <2>3, <3>3
  <2> QED
    BY <1>3, <2>2, <2>3
<1>9. Accounted
  BY <1>6, <1>8 DEF Accounted
<1> QED
  BY <1>4, <1>5, <1>6, <1>7, <1>9, NothingSent

LEMMA LookedAt ==
  ASSUME CallsInv, PinsInv, NEW r \in Requests, Look(r)
  PROVE  \E row \in rows :
           /\ call'[r].pin = row.pin
           /\ \/ call'[r].at = "discarding" /\ asked' = asked
              \/ call'[r].at = "asking" /\ ~Spent(row) /\ asked' = [asked EXCEPT ![row.pin] = asked[row.pin] + 1]
<1>1. PICK row \in rows :
        /\ call' = [call EXCEPT ![r] = [Idle EXCEPT !.pin = row.pin, !.at = IF Spent(row) THEN "discarding" ELSE "asking"]]
        /\ asked' = IF (IF Spent(row) THEN "discarding" ELSE "asking") = "asking"
                      THEN [asked EXCEPT ![row.pin] = asked[row.pin] + 1] ELSE asked
  BY DEF Look
<1> DEFINE to == IF Spent(row) THEN "discarding" ELSE "asking"
           c == [Idle EXCEPT !.pin = row.pin, !.at = to]
<1>2. c.at = to /\ c.pin = row.pin
  BY DEF Idle
<1>3. \/ to = "asking" /\ ~Spent(row) /\ asked' = [asked EXCEPT ![row.pin] = asked[row.pin] + 1]
      \/ to = "discarding" /\ asked' = asked
  BY <1>1
<1> HIDE DEF to
<1>4. call' = [call EXCEPT ![r] = c]
  BY <1>1 DEF to
<1> HIDE DEF c
<1>5. call'[r] = c
  BY <1>4 DEF CallsInv
<1> QED
  BY <1>2, <1>3, <1>5

LEMMA GuessStep == Inv /\ GuessInv /\ [Next]_vars => GuessInv'
<1> SUFFICES ASSUME Inv, GuessInv, [Next]_vars PROVE GuessInv'
  OBVIOUS
<1> USE DEF Inv
<1>1. \A p \in 1..MaxPins : asked[p] \in Nat
  BY DEF PinsInv
<1>2. \A w \in rows : w \in Rows /\ w.attempts \in Nat /\ w.pin \in 1..MaxPins /\ w.pin \in 1..pins
  BY LoginAssumption DEF PinsInv, Rows
<1>3. /\ Many \in Nat /\ Forgotten \in Nat
      /\ crashes' = crashes /\ faults' = faults => Forgotten' = Forgotten
  BY ForgottenType DEF Forgotten, Many
<1>4. \A r \in Requests : call[r] \in Calls
  BY DEF CallsInv
<1>5. ASSUME NEW r \in Requests,
             Count(r) \/ CheckRate(r) \/ ClearRows(r) \/ TextFails(r) \/ Discard(r) \/ Accept(r)
      PROVE  GuessInv'
  <2>1. Others(r) /\ call'[r].at # "saving" /\ (call[r].at \notin Guessing \/ rows' = {})
    <3>1. CASE Count(r)
      BY <3>1, CallOfCount DEF Guessing
    <3>2. CASE CheckRate(r)
      <4>1. CASE call'[r] = Idle
        BY <3>2, <4>1, CheckRateCall, Fields DEF Guessing
      <4>2. CASE call'[r] = [call[r] EXCEPT !.at = "clearing"]
        BY <1>4, <3>2, <4>2, CheckRateCall, Fields DEF Places, Guessing
      <4> QED
        BY <3>2, <4>1, <4>2, CheckRateCall
    <3>3. CASE ClearRows(r)
      <4>1. Others(r) /\ call[r].at = "clearing" /\ call'[r] = [call[r] EXCEPT !.at = "texting"]
        BY <3>3, HandleCalls
      <4>2. call'[r].at = "texting"
        <5>1. "texting" \in Places
          BY DEF Places
        <5> QED
          BY <1>4, <4>1, <5>1, Fields, ZenonT(30)
      <4> QED
        BY <4>1, <4>2 DEF Guessing
    <3>4. CASE TextFails(r) \/ Discard(r) \/ Accept(r)
      <4>1. Others(r) /\ call'[r].at = "idle"
        BY <3>4, HandleCalls, Fields DEF Rests
      <4>2. call[r].at \notin Guessing \/ rows' = {}
        BY <3>4 DEF TextFails, Discard, Accept, Return, Guessing
      <4> QED
        BY <4>1, <4>2
    <3> QED
      BY <1>5, <3>1, <3>2, <3>3, <3>4
  <2>2. /\ asked' = asked /\ pins' = pins /\ crashes' = crashes /\ faults' = faults
        /\ rows' = rows \/ rows' = {}
    BY <1>5 DEF Count, CheckRate, ClearRows, TextFails, Discard, Accept, mishaps
  <2> QED
    BY <2>1, <2>2, RequestSendsNothing
<1>6. ASSUME NEW r \in Requests, Answer(r) PROVE GuessInv'
  <2>1. /\ Others(r) /\ call'[r].at \in {"rejecting", "accepting"} /\ call'[r].pin = call[r].pin
    BY <1>6, AnswerCall
  <2>2. asked' = asked /\ pins' = pins /\ crashes' = crashes /\ faults' = faults /\ rows' = rows
    BY <1>6 DEF Answer, mishaps
  <2>3. call'[r].at \in Guessing /\ call'[r].at # "saving"
    BY <2>1 DEF Guessing
  <2> QED
    BY <2>1, <2>2, <2>3, RequestSendsNothing
<1>7. ASSUME NEW r \in Requests, Fail(r) PROVE GuessInv'
  <2>1. asked' = asked /\ pins' = pins /\ crashes' = crashes /\ faults' = faults + 1
    BY <1>7, FailCalls
  <2>2. rows' = rows \/ rows' = {}
    BY <1>7, FailCalls
  <2>3. CASE CountFails(r)
    <3>1. call' = call
      BY <1>7, <2>3, FailCalls
    <3>2. \A p : Out(p)' = Out(p)
      BY <3>1 DEF Out
    <3>3. \A p : Sent(p)' = Sent(p)
      BY <3>2 DEF Sent
    <3>4. Forgotten' = Forgotten + 1
      <4>1. \A m, f \in Nat : m + (f + 1) = m + f + 1
        OBVIOUS
      <4>2. Many * crashes \in Nat /\ faults \in Nat
        <5>1. \A m, n \in Nat : m * n \in Nat
          OBVIOUS
        <5> QED
          BY <1>3, <5>1, LoginAssumption DEF FlagsInv
      <4> QED
        BY <2>1, <4>1, <4>2 DEF Forgotten, Many
    <3>5. rows' = rows
      BY <1>7, <2>3, FailCalls
    <3>6. \A p : Sent(p) \in Nat
      BY OutOfStep, <3>1 DEF Others
    <3>7. AskedInv'
      BY <1>1, <1>3, <2>1, <3>4, LoginAssumption DEF GuessInv, AskedInv
    <3>8. CountedInv'
      <4> SUFFICES ASSUME NEW w \in rows
                   PROVE  asked[w.pin] <= w.attempts + Sent(w.pin) + (Forgotten + 1)
        BY <2>1, <3>3, <3>4, <3>5 DEF CountedInv
      <4>1. asked[w.pin] <= w.attempts + Sent(w.pin) + Forgotten
        BY DEF GuessInv, CountedInv
      <4>2. asked[w.pin] \in Nat /\ w.attempts \in Nat /\ Sent(w.pin) \in Nat
        BY <1>1, <1>2, <3>6
      <4> QED
        BY <1>3, <4>1, <4>2
    <3>9. UnaskedInv'
      BY <2>1, <3>1 DEF GuessInv, UnaskedInv
    <3> QED
      BY <3>7, <3>8, <3>9 DEF GuessInv
  <2>4. CASE ExpireFails(r) \/ AwaitFails(r)
    <3>1. Others(r) /\ call'[r].at = "idle"
      BY <2>4, HandleCalls, Fields DEF Rests
    <3> QED
      BY <2>1, <2>2, <3>1, RequestSendsNothing
  <2> QED
    BY <1>7, <2>3, <2>4, FailCalls
<1>8. ASSUME NEW r \in Requests, Text(r) PROVE GuessInv'
  <2>1. Others(r) /\ call[r].at = "texting" /\ call'[r].at = "saving" /\ call'[r].pin = pins + 1
    BY <1>8, CallOfText
  <2>2. /\ rows' = rows /\ asked' = asked /\ pins' = pins + 1 /\ crashes' = crashes /\ faults' = faults
        /\ pins + 1 \in 1..MaxPins /\ pins \in Nat
    BY <1>8, LoginAssumption DEF Text, PinsInv, mishaps
  <2>3. \A p : Sent(p)' = Sent(p)
    <3>1. \A p : Out(p)' = Out(p)
      BY <2>1 DEF Out, Others, Guessing
    <3> QED
      BY <3>1 DEF Sent
  <2>4. AskedInv' /\ CountedInv'
    BY <1>3, <2>2, <2>3 DEF GuessInv, AskedInv, CountedInv
  <2>5. \A p \in 1..MaxPins : p > pins' => asked'[p] = 0
    BY <2>2 DEF GuessInv, UnaskedInv
  <2>6. asked[pins + 1] = 0
    BY <2>2 DEF GuessInv, UnaskedInv
  <2>7. \A s \in Requests : call'[s].at = "saving" => asked'[call'[s].pin] = 0
    BY <2>1, <2>2, <2>6 DEF GuessInv, UnaskedInv, Others
  <2> QED
    BY <2>4, <2>5, <2>7 DEF GuessInv, UnaskedInv
<1>9. ASSUME NEW r \in Requests, SaveRow(r) PROVE GuessInv'
  <2> DEFINE row == [pin |-> call[r].pin, attempts |-> 0, live |-> TRUE]
  <2>1. Others(r) /\ call'[r].at = "idle" /\ call[r].at = "saving"
    BY <1>9, HandleCalls, Fields DEF SaveRow, Return, Rests
  <2>2. /\ pins' = pins /\ asked' = asked /\ crashes' = crashes /\ faults' = faults
        /\ rows' = rows \cup {row} \/ rows' = rows
        /\ row.pin = call[r].pin /\ row.attempts = 0
    BY <1>9 DEF SaveRow, mishaps
  <2> HIDE DEF row
  <2>3. \A p : Sent(p)' = Sent(p) /\ Sent(p) \in Nat
    <3>1. \A p : Out(p)' = Out(p)
      BY <2>1 DEF Out, Others, Guessing
    <3> QED
      BY <2>1, <3>1, OutOfStep DEF Sent
  <2>4. AskedInv'
    BY <1>3, <2>2 DEF GuessInv, AskedInv
  <2>5. asked[row.pin] = 0
    BY <2>1, <2>2 DEF GuessInv, UnaskedInv
  <2>6. CountedInv'
    BY <1>3, <2>2, <2>3, <2>5 DEF GuessInv, CountedInv
  <2>7. UnaskedInv'
    BY <2>1, <2>2 DEF GuessInv, UnaskedInv, Others
  <2> QED
    BY <2>4, <2>6, <2>7 DEF GuessInv
<1>10. ASSUME NEW r \in Requests, Look(r) PROVE GuessInv'
  <2>1. Others(r) /\ call[r].at = "idle" /\ call'[r].at \in {"discarding", "asking"}
    BY <1>10, CallOfLook
  <2>2. PICK row \in rows :
          /\ call'[r].pin = row.pin
          /\ \/ call'[r].at = "discarding" /\ asked' = asked
             \/ call'[r].at = "asking" /\ ~Spent(row) /\ asked' = [asked EXCEPT ![row.pin] = asked[row.pin] + 1]
    BY <1>10, LookedAt
  <2>3. rows' = rows /\ pins' = pins /\ crashes' = crashes /\ faults' = faults
    BY <1>10 DEF Look, mishaps
  <2>4. CASE call'[r].at = "discarding" /\ asked' = asked
    <3>1. call[r].at \notin Guessing
      BY <2>1 DEF Guessing
    <3> QED
      BY <2>1, <2>3, <2>4, <3>1, RequestSendsNothing
  <2>5. CASE call'[r].at = "asking" /\ ~Spent(row) /\ asked' = [asked EXCEPT ![row.pin] = asked[row.pin] + 1]
    <3>1. /\ row.pin \in 1..MaxPins /\ row.pin \in 1..pins /\ row.attempts \in Nat
          /\ row.attempts <= MaxAttempts - 1
      BY <1>2, <2>5, LoginAssumption DEF Spent
    <3>2. /\ asked'[row.pin] = asked[row.pin] + 1
          /\ \A p \in 1..MaxPins : p # row.pin => asked'[p] = asked[p]
      BY <2>5, <3>1 DEF PinsInv
    <3>3. ASSUME NEW p
          PROVE  /\ Sent(p) \in Nat
                 /\ p # row.pin => Sent(p)' = Sent(p)
                 /\ p = row.pin => Sent(p)' = Sent(p) + 1
      <4>1. r \notin Out(p) /\ (r \in Out(p)' <=> p = row.pin)
        BY <2>1, <2>2, <2>5 DEF Out, Guessing
      <4> QED
        BY <2>1, <4>1, OutOfStep
    <3>4. asked[row.pin] <= row.attempts + Sent(row.pin) + Forgotten
      BY DEF GuessInv, CountedInv
    <3>5. Sent(row.pin) + 1 <= Many
      BY <2>1, IdleBeside
    <3>6. asked[row.pin] + 1 <= MaxAttempts - 1 + Many + Forgotten
      BY <1>1, <1>3, <3>1, <3>3, <3>4, <3>5, LoginAssumption
    <3>7. AskedInv'
      BY <1>3, <2>3, <3>1, <3>2, <3>6 DEF GuessInv, AskedInv
    <3>8. ASSUME NEW w \in rows
          PROVE  asked'[w.pin] <= w.attempts + Sent(w.pin)' + Forgotten
      <4>1. asked[w.pin] <= w.attempts + Sent(w.pin) + Forgotten
        BY DEF GuessInv, CountedInv
      <4>2. asked[w.pin] \in Nat /\ w.attempts \in Nat /\ w.pin \in 1..MaxPins
        BY <1>1, <1>2
      <4> QED
        BY <1>3, <3>2, <3>3, <4>1, <4>2
    <3>9. CountedInv'
      BY <1>3, <2>3, <3>8 DEF CountedInv
    <3>10. \A s \in Requests : call'[s].at = "saving" => s # r /\ call'[s] = call[s] /\ call[s].pin \in 1..MaxPins
      BY <2>1, LoginAssumption DEF Others, PinsInv, HoldsPin
    <3>11. \A s \in Requests : call'[s].at = "saving" => call[s].pin # row.pin
      BY <3>10 DEF PinsInv
    <3>12. \A p \in 1..MaxPins : p > pins => p # row.pin
      <4>1. pins \in Nat
        BY LoginAssumption DEF PinsInv
      <4> QED
        BY <3>1, <4>1, LoginAssumption
    <3>13. UnaskedInv'
      BY <2>3, <3>2, <3>10, <3>11, <3>12 DEF GuessInv, UnaskedInv
    <3> QED
      BY <3>7, <3>9, <3>13 DEF GuessInv
  <2> QED
    BY <2>2, <2>4, <2>5
<1>11. ASSUME NEW r \in Requests, Reject(r) PROVE GuessInv'
  <2> DEFINE q == call[r].pin
  <2>1. Others(r) /\ call[r].at = "rejecting" /\ call'[r].at = "idle"
    BY <1>11, HandleCalls, Fields DEF Reject, Return, Rests
  <2>2. /\ asked' = asked /\ pins' = pins /\ crashes' = crashes /\ faults' = faults
        /\ rows' = {IF w.pin = q THEN Guessed(w) ELSE w : w \in rows}
    BY <1>11 DEF Reject, mishaps
  <2>3. ASSUME NEW p
        PROVE  /\ Sent(p) \in Nat /\ Sent(p)' \in Nat
               /\ p # q => Sent(p)' = Sent(p)
               /\ p = q => Sent(p)' = Sent(p) - 1
    <3>1. (r \in Out(p) <=> p = q) /\ r \notin Out(p)'
      BY <2>1 DEF Out, Guessing
    <3> QED
      BY <2>1, <3>1, OutOfStep
  <2> HIDE DEF q
  <2>4. \A w \in rows : /\ Guessed(w) \in Rows
                        /\ Guessed(w).pin = w.pin /\ Guessed(w).attempts = w.attempts + 1
    <3>1. \A w \in rows : Guessed(w) = [w EXCEPT !.attempts = w.attempts + 1]
      BY DEF Guessed
    <3>2. ASSUME NEW w \in Rows, NEW n \in Nat
          PROVE  /\ [w EXCEPT !.attempts = n] \in Rows
                 /\ [w EXCEPT !.attempts = n].pin = w.pin /\ [w EXCEPT !.attempts = n].attempts = n
      BY Zenon DEF Rows
    <3>3. ASSUME NEW w \in rows
          PROVE  /\ Guessed(w) \in Rows
                 /\ Guessed(w).pin = w.pin /\ Guessed(w).attempts = w.attempts + 1
      <4>1. w \in Rows /\ w.attempts + 1 \in Nat
        BY <1>2
      <4>2. Guessed(w) = [w EXCEPT !.attempts = w.attempts + 1]
        BY <3>1
      <4>3. /\ [w EXCEPT !.attempts = w.attempts + 1] \in Rows
            /\ [w EXCEPT !.attempts = w.attempts + 1].pin = w.pin
            /\ [w EXCEPT !.attempts = w.attempts + 1].attempts = w.attempts + 1
        BY <3>2, <4>1
      <4> QED
        BY <4>2, <4>3, Zenon
    <3> QED
      BY <3>3
  <2>5. \A w \in rows' : w \in Rows
    BY <1>2, <2>2, <2>4
  <2>6. ASSUME NEW w \in rows'
        PROVE  \E v \in rows :
                 w.pin = v.pin /\ v.attempts + Sent(v.pin) + Forgotten <= w.attempts + Sent(v.pin)' + Forgotten'
    <3>1. PICK v \in rows : w = IF v.pin = q THEN Guessed(v) ELSE v
      BY <2>2
    <3>2. w.pin = v.pin /\ w.attempts = IF v.pin = q THEN v.attempts + 1 ELSE v.attempts
      BY <2>4, <3>1
    <3>3. v.attempts \in Nat
      BY <1>2
    <3>4. v.attempts + Sent(v.pin) = w.attempts + Sent(v.pin)'
      BY <2>3, <3>2, <3>3
    <3>5. w.attempts \in Nat /\ Sent(v.pin) \in Nat /\ Sent(v.pin)' \in Nat
      BY <2>3, <3>2, <3>3
    <3>6. v.attempts + Sent(v.pin) + Forgotten <= w.attempts + Sent(v.pin)' + Forgotten'
      BY <1>3, <2>2, <3>3, <3>4, <3>5
    <3> QED
      BY <3>2, <3>6
  <2>7. Accounted
    BY <2>6 DEF Accounted
  <2>8. \A s \in Requests : call'[s].at = "saving" => call[s].at = "saving" /\ call'[s].pin = call[s].pin
    BY <2>1 DEF Others
  <2>9. Forgotten' \in Nat /\ Forgotten <= Forgotten' /\ rows' \subseteq Rows
    BY <1>3, <2>2, <2>5
  <2> QED
    BY <2>2, <2>3, <2>7, <2>8, <2>9, NothingSent
<1>12. CASE RowExpires \/ WindowEnds \/ UNCHANGED vars
  <2>1. \A r \in Requests : call'[r].at = call[r].at /\ call'[r].pin = call[r].pin
    BY <1>12, CallsOfWindowEnds DEF RowExpires, vars
  <2>2. asked' = asked /\ pins' = pins /\ crashes' = crashes /\ faults' = faults
    BY <1>12 DEF RowExpires, WindowEnds, vars, mishaps
  <2>3. \A p : Sent(p)' = Sent(p)
    <3>1. \A p : Out(p)' = Out(p)
      BY <2>1 DEF Out
    <3> QED
      BY <3>1 DEF Sent
  <2>4. ASSUME NEW w \in rows' PROVE \E v \in rows : w.pin = v.pin /\ w.attempts = v.attempts
    <3>1. CASE RowExpires
      <4>1. PICK v \in rows : rows' = (rows \ {v}) \cup {[v EXCEPT !.live = FALSE]}
        BY <3>1 DEF RowExpires
      <4> DEFINE dead == [v EXCEPT !.live = FALSE]
      <4>2. dead.pin = v.pin /\ dead.attempts = v.attempts
        BY <1>2, Zenon DEF Rows
      <4>3. rows' = (rows \ {v}) \cup {dead}
        BY <4>1
      <4> HIDE DEF dead
      <4> QED
        BY <4>2, <4>3
    <3>2. CASE WindowEnds \/ UNCHANGED vars
      BY <3>2 DEF WindowEnds, vars
    <3> QED
      BY <1>12, <3>1, <3>2
  <2>5. AskedInv' /\ CountedInv'
    BY <1>3, <2>2, <2>3, <2>4 DEF GuessInv, AskedInv, CountedInv
  <2>6. UnaskedInv'
    BY <2>1, <2>2 DEF GuessInv, UnaskedInv
  <2> QED
    BY <2>5, <2>6 DEF GuessInv
<1>13. CASE Crash
  <2>1. asked' = asked /\ pins' = pins /\ crashes' = crashes + 1 /\ faults' = faults /\ rows' = rows
    BY <1>13 DEF Crash
  <2>2. \A r \in Requests : call'[r].at = "idle"
    BY <1>13, CallsOfCrash
  <2>3. Forgotten' = Forgotten + Many
    <3>1. crashes \in Nat /\ faults \in Nat
      BY LoginAssumption DEF FlagsInv
    <3>2. \A m, n, f \in Nat : m * (n + 1) + f = m * n + f + m
      OBVIOUS
    <3> QED
      BY <1>3, <2>1, <3>1, <3>2 DEF Forgotten, Many
  <2>4. \A p : Sent(p)' = 0 /\ Sent(p) \in 0..Many
    <3>1. \A p : Out(p)' = {} /\ Out(p) \subseteq Requests
      BY <2>2 DEF Out, Guessing
    <3> QED
      BY <3>1, FS_EmptySet, LoginAssumption, FS_Subset, FS_CardinalityType DEF Sent, Many
  <2>5. ASSUME NEW w \in rows'
        PROVE  /\ w \in rows
               /\ w.attempts + Sent(w.pin) + Forgotten <= w.attempts + Sent(w.pin)' + Forgotten'
    <3>1. w \in rows /\ w.attempts \in Nat
      BY <1>2, <2>1
    <3> QED
      BY <1>3, <2>3, <2>4, <3>1
  <2>6. Accounted
    BY <2>5 DEF Accounted
  <2>7. /\ Forgotten' \in Nat /\ Forgotten <= Forgotten' /\ rows' \subseteq Rows
        /\ \A p \in 1..MaxPins : Sent(p) \in Nat /\ Sent(p)' \in Nat
    BY <1>3, <2>1, <2>3, <2>4 DEF PinsInv
  <2> QED
    BY <2>1, <2>2, <2>6, <2>7, NothingSent
<1> QED
  BY <1>5, <1>6, <1>7, <1>8, <1>9, <1>10, <1>11, <1>12, <1>13 DEF Next, Handle

(* verifyPhoneOtp sends the provider no more guesses at a pin, whatever it  *)
(* answers to them, than the row allows and those it had under way, again   *)
(* for each crash, which forgets what it had not yet counted, and one for   *)
(* each await that rejects.                                                 *)
THEOREM GuessesStayBounded == Spec => []GuessesBounded
<1>1. Init => GuessInv
  <2> SUFFICES ASSUME Init PROVE GuessInv
    OBVIOUS
  <2>1. /\ rows = {} /\ \A r \in Requests : call[r].at = "idle"
        /\ \A p \in 1..MaxPins : asked[p] = 0
    BY DEF Init, Idle
  <2>2. FlagsInv
    BY InitInv DEF Inv
  <2>3. AskedInv
    BY <2>1, <2>2, ForgottenType, LoginAssumption DEF AskedInv
  <2>4. CountedInv /\ UnaskedInv
    BY <2>1 DEF CountedInv, UnaskedInv
  <2> QED
    BY <2>3, <2>4 DEF GuessInv
<1>2. Inv /\ GuessInv => GuessesBounded
  <2> SUFFICES ASSUME Inv, GuessInv, NEW p \in 1..MaxPins
               PROVE  asked[p] <= MaxAttempts - 1 + Many * (1 + crashes) + faults
    BY DEF GuessesBounded, Many
  <2>1. asked[p] <= MaxAttempts - 1 + Many + Forgotten
    BY DEF GuessInv, AskedInv
  <2>2. Many \in Nat /\ Forgotten \in Nat /\ Many * (1 + crashes) + faults = Many + Forgotten
    BY ForgottenType DEF Inv
  <2>3. crashes \in Nat /\ faults \in Nat /\ asked[p] \in Nat /\ Many * (1 + crashes) \in Nat
    <3>1. \A m, n \in Nat : m * (1 + n) \in Nat
      OBVIOUS
    <3>2. crashes \in Nat /\ faults \in Nat /\ asked[p] \in Nat
      BY LoginAssumption DEF Inv, FlagsInv, PinsInv
    <3> QED
      BY <2>2, <3>1, <3>2
  <2> DEFINE m == Many * (1 + crashes)
  <2>4. m \in Nat /\ m + faults = Many + Forgotten
    BY <2>2, <2>3
  <2> HIDE DEF m
  <2>5. asked[p] <= MaxAttempts - 1 + m + faults
    BY <2>1, <2>2, <2>3, <2>4, LoginAssumption
  <2> QED
    BY <2>5 DEF m
<1> QED
  BY InitInv, InvStep, GuessStep, <1>1, <1>2, PTL DEF Spec

-----------------------------------------------------------------------------
(* By Google or password, and push subscriptions.                           *)


(* Handlers that have passed the user row act for a user; a callback that   *)
(* has passed the wallet acts for the owner of one.                         *)
HandlersInv ==
  /\ \A b \in Browsers :
       /\ login[b].at # "idle" => login[b].who \in People
       /\ login[b].at \in {"wallet", "saving", "coding"} => login[b].who \in users
       /\ login[b].at = "coding" => login[b].who \in wallets
  /\ making.at # "idle" => making.who \in People
  /\ making.at = "wallet" => making.who \in users

(* A token, from its code to the cookie, is of somebody with a wallet, and  *)
(* a code that still has one has given none out.                            *)
TokensInv ==
  /\ \A k \in Codes :
       /\ owner[k] # None => owner[k] \in wallets /\ redeemed[k] = 0
       /\ k > made => owner[k] = None /\ redeemed[k] = 0
  /\ \A b \in Browsers :
       /\ page[b] = "capture" => code[b] \in Codes
       /\ answer[b] \in wallets \cup {None, "waiting"}
       /\ way[b] = "google" => cookie[b] \in wallets

(* What a send is about to delete, the push service no longer knows.        *)
PushInv == notice.dead \subseteq gone

SessionInv == SessionTypeOK /\ HandlersInv /\ TokensInv /\ PushInv

LEMMA SessionInvInit == SessionInit => SessionInv
  BY SessionAssumption
  DEF SessionInit, SessionInv, SessionTypeOK, HandlersInv, TokensInv, PushInv, NoHandler, NoNotice
LEMMA TypeStep == ASSUME SessionInv, [SessionNext]_session PROVE SessionTypeOK'
<1> USE SessionAssumption DEF SessionInv, SessionTypeOK, HandlersInv, TokensInv, accounts, handlers, codes, tab, signed, push
<1>1. ASSUME NEW b \in Browsers, FindUser(b) PROVE SessionTypeOK'
  BY <1>1 DEF HandlerAt, NextStep, FindUser
<1>2. ASSUME NEW b \in Browsers, UpsertUser(b) PROVE SessionTypeOK'
  BY <1>2 DEF HandlerAt, UpsertUser
<1>3. ASSUME NEW b \in Browsers, FindWallet(b) PROVE SessionTypeOK'
  BY <1>3 DEF HandlerAt, FindWallet
<1>4. ASSUME NEW b \in Browsers, SaveWallet(b) PROVE SessionTypeOK'
  BY <1>4, SMTT(30) DEF HandlerAt, Fails, NoHandler, SaveWallet
<1>5. ASSUME NEW b \in Browsers, SetCode(b) PROVE SessionTypeOK'
  BY <1>5 DEF NoHandler, SetCode
<1>6. ASSUME NEW b \in Browsers, GoogleFails(b) PROVE SessionTypeOK'
  BY <1>6 DEF Fails, NoHandler, GoogleFails
<1>7. ASSUME NEW b \in Browsers, Exchange(b) PROVE SessionTypeOK'
  <2>1. code[b] \in Codes
    BY <1>7 DEF Exchange
  <2>2. owner[code[b]] \in People \cup {None}
    BY <2>1
  <2>3. owner[code[b]] # None => redeemed[code[b]] = 0
    BY <2>1
  <2>4. redeemed' \in [Codes -> 0..1]
    <3>1. redeemed[code[b]] \in 0..1
      BY <2>1
    <3>2. CASE owner[code[b]] = None
      BY <1>7, <3>1, <3>2 DEF Exchange
    <3>3. CASE owner[code[b]] # None
      BY <1>7, <2>3, <3>3 DEF Exchange
    <3> QED
      BY <3>2, <3>3
  <2>5. answer' \in [Browsers -> People \cup {None, "waiting"}]
    BY <1>7, <2>2 DEF Exchange
  <2>6. owner' \in [Codes -> People \cup {None}]
    BY <1>7 DEF Exchange, GotAndDeleted
  <2>7. UNCHANGED <<accounts, handlers, made, page, code, signed, push, restarts>>
    BY <1>7 DEF Exchange
  <2> QED
    BY <2>4, <2>5, <2>6, <2>7
<1>8. ASSUME NEW b \in Browsers, Reload(b) PROVE SessionTypeOK'
  BY <1>8 DEF Reload
<1>9. ASSUME NEW b \in Browsers, SaveToken(b) PROVE SessionTypeOK'
  BY <1>9, SMTT(30) DEF SaveToken
<1>10. ASSUME NEW b \in Browsers, SignOut(b) PROVE SessionTypeOK'
  BY <1>10 DEF SignOut
<1>11. ASSUME NEW b \in Browsers, Subscribe(b) PROVE SessionTypeOK'
  BY <1>11 DEF Fresh, Subscribe
<1>12. ASSUME NEW b \in Browsers, SaveSubscription(b) PROVE SessionTypeOK'
  BY <1>12 DEF SaveSubscription
<1>13. ASSUME NEW b \in Browsers, PostFails(b) PROVE SessionTypeOK'
  BY <1>13 DEF PostFails
<1>14. ASSUME NEW b \in Browsers, Drop(b) PROVE SessionTypeOK'
  <2>1. device[b] \in Endpoints
    BY <1>14 DEF Drop
  <2>2. gone' \subseteq Endpoints
    BY <1>14, <2>1, ZenonT(30) DEF Drop
  <2>3. device' \in [Browsers -> Endpoints \cup {0}]
    BY <1>14 DEF Drop
  <2>4. UNCHANGED <<accounts, handlers, codes, tab, signed, posting, subs, notice, restarts>>
    BY <1>14 DEF Drop
  <2> QED
    BY <2>2, <2>3, <2>4
<1>15. ASSUME NEW b \in Browsers, NEW who \in People, Redirected(b, who) PROVE SessionTypeOK'
  BY <1>15 DEF Redirected
<1>16. ASSUME NEW b \in Browsers, NEW who \in People, PasswordLogin(b, who) PROVE SessionTypeOK'
  BY <1>16 DEF PasswordLogin
<1>17. ASSUME NEW who \in People, CreateUser(who) PROVE SessionTypeOK'
  BY <1>17 DEF NoHandler, CreateUser
<1>18. ASSUME NEW who \in People, FindRows(who) PROVE SessionTypeOK'
  BY <1>18 DEF NoNotice, FindRows
<1>19. CASE InsertUser
  BY <1>19 DEF NoHandler, InsertUser
<1>20. CASE MakeWallet
  BY <1>20 DEF NoHandler, MakeWallet
<1>21. CASE CodeExpires
  BY <1>21 DEF CodeExpires
<1>22. CASE SendAll
  BY <1>22 DEF SendAll
<1>23. CASE CleanUp
  BY <1>23 DEF Pruned, NoNotice, CleanUp
<1>24. CASE Restart
  BY <1>24 DEF NoHandler, NoNotice, Restart
<1>25. CASE UNCHANGED session
  BY <1>25 DEF session
<1> QED
  BY <1>1, <1>2, <1>3, <1>4, <1>5, <1>6, <1>7, <1>8, <1>9, <1>10, <1>11, <1>12, <1>13, <1>14, <1>15, <1>16, <1>17, <1>18, <1>19, <1>20, <1>21, <1>22, <1>23, <1>24, <1>25 DEF SessionNext, Callback, Registration

LEMMA HandlersStep == ASSUME SessionInv, [SessionNext]_session PROVE HandlersInv'
<1> USE SessionAssumption DEF SessionInv, SessionTypeOK, HandlersInv, accounts, handlers, codes, tab, signed, push
<1>1. ASSUME NEW b \in Browsers, FindUser(b) PROVE HandlersInv'
  BY <1>1 DEF HandlerAt, NextStep, FindUser
<1>2. ASSUME NEW b \in Browsers, UpsertUser(b) PROVE HandlersInv'
  BY <1>2 DEF HandlerAt, UpsertUser
<1>3. ASSUME NEW b \in Browsers, FindWallet(b) PROVE HandlersInv'
  BY <1>3 DEF HandlerAt, FindWallet
<1>4. ASSUME NEW b \in Browsers, SaveWallet(b) PROVE HandlersInv'
  BY <1>4 DEF HandlerAt, Fails, NoHandler, SaveWallet
<1>5. ASSUME NEW b \in Browsers, SetCode(b) PROVE HandlersInv'
  BY <1>5 DEF NoHandler, SetCode
<1>6. ASSUME NEW b \in Browsers, GoogleFails(b) PROVE HandlersInv'
  BY <1>6 DEF Fails, NoHandler, GoogleFails
<1>7. ASSUME NEW b \in Browsers, Exchange(b) PROVE HandlersInv'
  BY <1>7 DEF GotAndDeleted, Exchange
<1>8. ASSUME NEW b \in Browsers, Reload(b) PROVE HandlersInv'
  BY <1>8 DEF Reload
<1>9. ASSUME NEW b \in Browsers, SaveToken(b) PROVE HandlersInv'
  BY <1>9 DEF SaveToken
<1>10. ASSUME NEW b \in Browsers, SignOut(b) PROVE HandlersInv'
  BY <1>10 DEF SignOut
<1>11. ASSUME NEW b \in Browsers, Subscribe(b) PROVE HandlersInv'
  BY <1>11 DEF Fresh, Subscribe
<1>12. ASSUME NEW b \in Browsers, SaveSubscription(b) PROVE HandlersInv'
  BY <1>12 DEF SaveSubscription
<1>13. ASSUME NEW b \in Browsers, PostFails(b) PROVE HandlersInv'
  BY <1>13 DEF PostFails
<1>14. ASSUME NEW b \in Browsers, Drop(b) PROVE HandlersInv'
  BY <1>14 DEF Drop
<1>15. ASSUME NEW b \in Browsers, NEW who \in People, Redirected(b, who) PROVE HandlersInv'
  BY <1>15 DEF Redirected
<1>16. ASSUME NEW b \in Browsers, NEW who \in People, PasswordLogin(b, who) PROVE HandlersInv'
  BY <1>16 DEF PasswordLogin
<1>17. ASSUME NEW who \in People, CreateUser(who) PROVE HandlersInv'
  BY <1>17 DEF NoHandler, CreateUser
<1>18. ASSUME NEW who \in People, FindRows(who) PROVE HandlersInv'
  BY <1>18 DEF NoNotice, FindRows
<1>19. CASE InsertUser
  BY <1>19 DEF NoHandler, InsertUser
<1>20. CASE MakeWallet
  BY <1>20 DEF NoHandler, MakeWallet
<1>21. CASE CodeExpires
  BY <1>21 DEF CodeExpires
<1>22. CASE SendAll
  BY <1>22 DEF SendAll
<1>23. CASE CleanUp
  BY <1>23 DEF Pruned, NoNotice, CleanUp
<1>24. CASE Restart
  BY <1>24 DEF NoHandler, NoNotice, Restart
<1>25. CASE UNCHANGED session
  BY <1>25 DEF session
<1> QED
  BY <1>1, <1>2, <1>3, <1>4, <1>5, <1>6, <1>7, <1>8, <1>9, <1>10, <1>11, <1>12, <1>13, <1>14, <1>15, <1>16, <1>17, <1>18, <1>19, <1>20, <1>21, <1>22, <1>23, <1>24, <1>25 DEF SessionNext, Callback, Registration

LEMMA TokensStep == ASSUME SessionInv, [SessionNext]_session PROVE TokensInv'
<1> USE SessionAssumption DEF SessionInv, SessionTypeOK, HandlersInv, TokensInv, accounts, handlers, codes, tab, signed, push
<1>1. ASSUME NEW b \in Browsers, FindUser(b) PROVE TokensInv'
  BY <1>1 DEF HandlerAt, NextStep, FindUser
<1>2. ASSUME NEW b \in Browsers, UpsertUser(b) PROVE TokensInv'
  BY <1>2 DEF HandlerAt, UpsertUser
<1>3. ASSUME NEW b \in Browsers, FindWallet(b) PROVE TokensInv'
  BY <1>3 DEF HandlerAt, FindWallet
<1>4. ASSUME NEW b \in Browsers, SaveWallet(b) PROVE TokensInv'
  BY <1>4 DEF HandlerAt, Fails, NoHandler, SaveWallet
<1>5. ASSUME NEW b \in Browsers, SetCode(b) PROVE TokensInv'
  BY <1>5 DEF NoHandler, SetCode
<1>6. ASSUME NEW b \in Browsers, GoogleFails(b) PROVE TokensInv'
  BY <1>6 DEF Fails, NoHandler, GoogleFails
<1>7. ASSUME NEW b \in Browsers, Exchange(b) PROVE TokensInv'
  <2>1. code[b] \in Codes
    BY <1>7 DEF Exchange
  <2>2. owner[code[b]] \in wallets \cup {None}
    BY <2>1
  <2>3. UNCHANGED <<wallets, made, page, code, cookie, way>>
    BY <1>7 DEF Exchange
  <2>4. \A c \in Browsers : answer'[c] \in wallets' \cup {None, "waiting"}
    BY <1>7, <2>2, <2>3 DEF Exchange
  <2>5. ASSUME NEW k \in Codes
        PROVE  /\ owner'[k] # None => owner'[k] \in wallets' /\ redeemed'[k] = 0
               /\ k > made' => owner'[k] = None /\ redeemed'[k] = 0
    <3>1. CASE k = code[b]
      <4>1. owner'[k] = None
        BY <1>7, <2>1, <3>1 DEF Exchange, GotAndDeleted
      <4>2. k > made => redeemed'[k] = redeemed[k] + 0
        BY <1>7, <2>1, <3>1 DEF Exchange
      <4> QED
        BY <4>1, <4>2, <2>3
    <3>2. CASE k # code[b]
      <4>1. owner'[k] = owner[k] /\ redeemed'[k] = redeemed[k]
        BY <1>7, <2>1, <3>2 DEF Exchange, GotAndDeleted
      <4> QED
        BY <4>1, <2>3
    <3> QED
      BY <3>1, <3>2
  <2> QED
    BY <2>3, <2>4, <2>5
<1>8. ASSUME NEW b \in Browsers, Reload(b) PROVE TokensInv'
  BY <1>8 DEF Reload
<1>9. ASSUME NEW b \in Browsers, SaveToken(b) PROVE TokensInv'
  BY <1>9 DEF SaveToken
<1>10. ASSUME NEW b \in Browsers, SignOut(b) PROVE TokensInv'
  BY <1>10 DEF SignOut
<1>11. ASSUME NEW b \in Browsers, Subscribe(b) PROVE TokensInv'
  BY <1>11 DEF Fresh, Subscribe
<1>12. ASSUME NEW b \in Browsers, SaveSubscription(b) PROVE TokensInv'
  BY <1>12 DEF SaveSubscription
<1>13. ASSUME NEW b \in Browsers, PostFails(b) PROVE TokensInv'
  BY <1>13 DEF PostFails
<1>14. ASSUME NEW b \in Browsers, Drop(b) PROVE TokensInv'
  BY <1>14 DEF Drop
<1>15. ASSUME NEW b \in Browsers, NEW who \in People, Redirected(b, who) PROVE TokensInv'
  BY <1>15 DEF Redirected
<1>16. ASSUME NEW b \in Browsers, NEW who \in People, PasswordLogin(b, who) PROVE TokensInv'
  BY <1>16 DEF PasswordLogin
<1>17. ASSUME NEW who \in People, CreateUser(who) PROVE TokensInv'
  BY <1>17 DEF NoHandler, CreateUser
<1>18. ASSUME NEW who \in People, FindRows(who) PROVE TokensInv'
  BY <1>18 DEF NoNotice, FindRows
<1>19. CASE InsertUser
  BY <1>19 DEF NoHandler, InsertUser
<1>20. CASE MakeWallet
  BY <1>20 DEF NoHandler, MakeWallet
<1>21. CASE CodeExpires
  BY <1>21 DEF CodeExpires
<1>22. CASE SendAll
  BY <1>22 DEF SendAll
<1>23. CASE CleanUp
  BY <1>23 DEF Pruned, NoNotice, CleanUp
<1>24. CASE Restart
  BY <1>24 DEF NoHandler, NoNotice, Restart
<1>25. CASE UNCHANGED session
  BY <1>25 DEF session
<1> QED
  BY <1>1, <1>2, <1>3, <1>4, <1>5, <1>6, <1>7, <1>8, <1>9, <1>10, <1>11, <1>12, <1>13, <1>14, <1>15, <1>16, <1>17, <1>18, <1>19, <1>20, <1>21, <1>22, <1>23, <1>24, <1>25 DEF SessionNext, Callback, Registration

LEMMA PushStep == ASSUME SessionInv, [SessionNext]_session PROVE PushInv'
<1> USE SessionAssumption DEF SessionInv, SessionTypeOK, PushInv, accounts, handlers, codes, tab, signed, push
<1>1. ASSUME NEW b \in Browsers, FindUser(b) PROVE PushInv'
  BY <1>1 DEF HandlerAt, NextStep, FindUser
<1>2. ASSUME NEW b \in Browsers, UpsertUser(b) PROVE PushInv'
  BY <1>2 DEF HandlerAt, UpsertUser
<1>3. ASSUME NEW b \in Browsers, FindWallet(b) PROVE PushInv'
  BY <1>3 DEF HandlerAt, FindWallet
<1>4. ASSUME NEW b \in Browsers, SaveWallet(b) PROVE PushInv'
  BY <1>4 DEF HandlerAt, Fails, NoHandler, SaveWallet
<1>5. ASSUME NEW b \in Browsers, SetCode(b) PROVE PushInv'
  BY <1>5 DEF NoHandler, SetCode
<1>6. ASSUME NEW b \in Browsers, GoogleFails(b) PROVE PushInv'
  BY <1>6 DEF Fails, NoHandler, GoogleFails
<1>7. ASSUME NEW b \in Browsers, Exchange(b) PROVE PushInv'
  BY <1>7 DEF GotAndDeleted, Exchange
<1>8. ASSUME NEW b \in Browsers, Reload(b) PROVE PushInv'
  BY <1>8 DEF Reload
<1>9. ASSUME NEW b \in Browsers, SaveToken(b) PROVE PushInv'
  BY <1>9 DEF SaveToken
<1>10. ASSUME NEW b \in Browsers, SignOut(b) PROVE PushInv'
  BY <1>10 DEF SignOut
<1>11. ASSUME NEW b \in Browsers, Subscribe(b) PROVE PushInv'
  BY <1>11 DEF Fresh, Subscribe
<1>12. ASSUME NEW b \in Browsers, SaveSubscription(b) PROVE PushInv'
  BY <1>12 DEF SaveSubscription
<1>13. ASSUME NEW b \in Browsers, PostFails(b) PROVE PushInv'
  BY <1>13 DEF PostFails
<1>14. ASSUME NEW b \in Browsers, Drop(b) PROVE PushInv'
  BY <1>14 DEF Drop
<1>15. ASSUME NEW b \in Browsers, NEW who \in People, Redirected(b, who) PROVE PushInv'
  BY <1>15 DEF Redirected
<1>16. ASSUME NEW b \in Browsers, NEW who \in People, PasswordLogin(b, who) PROVE PushInv'
  BY <1>16 DEF PasswordLogin
<1>17. ASSUME NEW who \in People, CreateUser(who) PROVE PushInv'
  BY <1>17 DEF NoHandler, CreateUser
<1>18. ASSUME NEW who \in People, FindRows(who) PROVE PushInv'
  BY <1>18 DEF NoNotice, FindRows
<1>19. CASE InsertUser
  BY <1>19 DEF NoHandler, InsertUser
<1>20. CASE MakeWallet
  BY <1>20 DEF NoHandler, MakeWallet
<1>21. CASE CodeExpires
  BY <1>21 DEF CodeExpires
<1>22. CASE SendAll
  BY <1>22 DEF SendAll
<1>23. CASE CleanUp
  BY <1>23 DEF Pruned, NoNotice, CleanUp
<1>24. CASE Restart
  BY <1>24 DEF NoHandler, NoNotice, Restart
<1>25. CASE UNCHANGED session
  BY <1>25 DEF session
<1> QED
  BY <1>1, <1>2, <1>3, <1>4, <1>5, <1>6, <1>7, <1>8, <1>9, <1>10, <1>11, <1>12, <1>13, <1>14, <1>15, <1>16, <1>17, <1>18, <1>19, <1>20, <1>21, <1>22, <1>23, <1>24, <1>25 DEF SessionNext, Callback, Registration

LEMMA SessionInvStep == SessionInv /\ [SessionNext]_session => SessionInv'
  BY TypeStep, HandlersStep, TokensStep, PushStep DEF SessionInv

LEMMA SessionInvHolds == SessionSpec => []SessionInv
  BY SessionInvInit, SessionInvStep, PTL DEF SessionSpec

(* A row only goes when a clean-up deletes it, and that deletes endpoints   *)
(* the push service has given up.                                           *)
LEMMA RowsStep ==
  ASSUME SessionInv, [SessionNext]_session, NEW e \in Endpoints, e \notin gone, subs[e] # None
  PROVE  subs'[e] # None
<1> USE SessionAssumption DEF SessionInv, SessionTypeOK, PushInv
<1>1. CASE CleanUp
  <2>1. e \notin Pruned
    BY DEF Pruned
  <2> QED
    BY <1>1, <2>1 DEF CleanUp
<1>2. ASSUME NEW b \in Browsers, SaveSubscription(b) PROVE subs'[e] # None
  BY <1>2 DEF SaveSubscription
<1>3. CASE UNCHANGED subs
  BY <1>3
<1>4. CleanUp \/ UNCHANGED subs \/ \E b \in Browsers : SaveSubscription(b)
  BY ZenonT(30) DEF SessionNext, Callback, Registration, session, push, FindUser, UpsertUser,
         FindWallet, SaveWallet, SetCode, GoogleFails, Exchange, Reload, SaveToken, SignOut,
         Subscribe, PostFails, Drop, Redirected, PasswordLogin, CreateUser, FindRows, InsertUser,
         MakeWallet, CodeExpires, SendAll, Restart
<1> QED
  BY <1>1, <1>2, <1>3, <1>4

-----------------------------------------------------------------------------
(* Every variable keeps its type, no wallet is without its user, and no     *)
(* code is exchanged for two tokens (exchangeCode's GETDEL).                *)
THEOREM SessionTypes == SessionSpec => []SessionTypeOK
  BY SessionInvHolds, PTL DEF SessionInv

(* Whoever signed in by Google has a wallet: googleCallback passes          *)
(* createWallet before it makes the code, and wallets are never deleted.    *)
THEOREM GoogleSignInHasWallet == SessionSpec => []SignedInHasWallet
<1>1. SessionInv => SignedInHasWallet
  BY DEF SessionInv, TokensInv, SignedInHasWallet
<1> QED
  BY SessionInvHolds, <1>1, PTL

(* sendToUser's clean-up never deletes a subscription that lives.           *)
THEOREM LiveSubscriptionsStay == SessionSpec => LiveSubscriptionStays
<1>1. SessionInv /\ [SessionNext]_session =>
        [\A e \in Endpoints \ gone : subs[e] # None => subs'[e] # None]_session
  BY RowsStep
<1> QED
  BY SessionInvHolds, <1>1, PTL DEF SessionSpec, LiveSubscriptionStays
=============================================================================
