---------------------------- MODULE PhoneLogin ----------------------------
(* auth.controller's sendPhoneOtp and verifyPhoneOtp for one phone number:  *)
(* the rate limit in Redis, the rows of OtpService, the SMS provider that   *)
(* makes the pins and checks them, and requests that overlap between any    *)
(* two awaits.  The process may die anywhere, and any await may reject.     *)
EXTENDS Integers, FiniteSets

CONSTANTS
  Requests,     \* requests under way at a time
  Limit,        \* PHONE_OTP_RATE_LIMIT
  MaxAttempts,  \* wrong guesses a row allows
  MaxPins,      \* bound: pins the provider makes
  MaxHits,      \* bound: requests for a pin within a window
  MaxCrashes,   \* bound
  MaxFaults     \* bound: awaits of Redis, the database or the provider that reject

ASSUME LoginAssumption ==
  /\ IsFiniteSet(Requests)
  /\ Limit \in Nat \ {0} /\ MaxAttempts \in Nat \ {0}
  /\ {MaxPins, MaxHits, MaxCrashes, MaxFaults} \subseteq Nat

VARIABLES
  hits,      \* the counter of otp:ratelimit:phone:<number>, 0 for no key
  expiring,  \* that key has its time to live
  lost,      \* ghost: it was to get one and did not
  texted,    \* ghost: pins texted by requests counted in this window
  pins,      \* pins made so far
  rows,      \* otps of the number: pin, attempts, not yet expired
  call,      \* each request: where it is, its INCR, its pin, its window
  asked,     \* ghost: how often the provider was sent a guess at a pin
  known,     \* a user has the number
  fits,      \* the table otps has every column of its entity
  signedIn,  \* an access token was given out
  crashes, faults

rate == <<hits, expiring, lost, texted>>
world == <<known, fits>>
mishaps == <<crashes, faults>>
vars == <<rate, pins, rows, call, asked, world, signedIn, mishaps>>

Idle == [at |-> "idle", n |-> 0, pin |-> 0, fresh |-> FALSE]

(* No API call gives a user a number; an account may have one by hand.  The *)
(* migrations make otps without the entity's user_id, and nothing           *)
(* synchronizes it: the table fits only where a column was added by hand.   *)
Init ==
  /\ hits = 0 /\ expiring = FALSE /\ lost = FALSE /\ texted = 0
  /\ pins = 0 /\ rows = {}
  /\ call = [r \in Requests |-> Idle]
  /\ asked = [p \in 1..MaxPins |-> 0]
  /\ known \in BOOLEAN /\ fits \in BOOLEAN /\ signedIn = FALSE
  /\ crashes = 0 /\ faults = 0

Step(r, from, to) == call[r].at = from /\ call' = [call EXCEPT ![r].at = to]
Return(r, from) == call[r].at = from /\ call' = [call EXCEPT ![r] = Idle]

-----------------------------------------------------------------------------
(* sendPhoneOtp                                                             *)

Count(r) ==
  /\ call[r].at = "idle" /\ hits < MaxHits
  /\ hits' = hits + 1
  /\ call' = [call EXCEPT ![r] = [Idle EXCEPT !.at = "counted", !.n = hits + 1, !.fresh = TRUE]]
  /\ UNCHANGED <<expiring, lost, texted, pins, rows, asked, world, signedIn, mishaps>>

(* Only the first request of a window arms its end.                         *)
ArmedByLast(n) == n = 1
Armed(n) == expiring \/ n = 1
OneMore(n) == n > Limit + 1
TooMany(n) == n > Limit

(* Of INCR the reply may be lost, and nobody is then first: a retry of the  *)
(* client library or of the caller counts on.                               *)
CountFails(r) ==
  /\ call[r].at = "idle" /\ hits < MaxHits
  /\ hits' = hits + 1
  /\ lost' = (lost \/ hits = 0)
  /\ UNCHANGED <<expiring, texted, rows, call>>

(* EXPIRE rejects, done or not.                                             *)
ExpireFails(r) ==
  /\ call[r].n = 1 /\ Return(r, "counted")
  /\ \/ expiring' = TRUE /\ UNCHANGED lost
     \/ UNCHANGED expiring /\ lost' = TRUE
  /\ UNCHANGED <<hits, texted, rows>>

CheckRate(r) ==
  /\ expiring' = Armed(call[r].n)
  /\ \/ TooMany(call[r].n) /\ Return(r, "counted")
     \/ ~TooMany(call[r].n) /\ Step(r, "counted", "clearing")
  /\ UNCHANGED <<hits, lost, texted, pins, rows, asked, world, signedIn, mishaps>>

ClearRows(r) ==
  /\ Step(r, "clearing", "texting")
  /\ rows' = {}
  /\ UNCHANGED <<rate, pins, asked, world, signedIn, mishaps>>

Text(r) ==
  /\ call[r].at = "texting" /\ pins < MaxPins
  /\ pins' = pins + 1
  /\ call' = [call EXCEPT ![r].at = "saving", ![r].pin = pins + 1]
  /\ texted' = texted + IF call[r].fresh THEN 1 ELSE 0
  /\ UNCHANGED <<hits, expiring, lost, rows, asked, world, signedIn, mishaps>>

TextFails(r) ==
  /\ Return(r, "texting")
  /\ UNCHANGED <<rate, pins, rows, asked, world, signedIn, mishaps>>

(* The INSERT names every column of the entity: on a table without one of   *)
(* them the request fails, its pin texted.                                  *)
SaveRow(r) ==
  /\ Return(r, "saving")
  /\ IF fits THEN rows' = rows \cup {[pin |-> call[r].pin, attempts |-> 0, live |-> TRUE]}
             ELSE UNCHANGED rows
  /\ UNCHANGED <<rate, pins, asked, world, signedIn, mishaps>>

-----------------------------------------------------------------------------
(* verifyPhoneOtp: any row of the number, and its attempts as they were.    *)
(* The guess is sent as soon as the row is there.                           *)

NoLimit(row) == FALSE
Spent(row) == row.attempts >= MaxAttempts

Look(r) ==
  /\ call[r].at = "idle" /\ fits
  /\ \E row \in {w \in rows : w.live} :
       LET to == IF Spent(row) THEN "discarding" ELSE "asking" IN
       /\ call' = [call EXCEPT ![r] = [Idle EXCEPT !.pin = row.pin, !.at = to]]
       /\ asked' = IF to = "asking" THEN [asked EXCEPT ![row.pin] = @ + 1] ELSE asked
  /\ UNCHANGED <<rate, pins, rows, world, signedIn, mishaps>>

Discard(r) ==
  /\ Return(r, "discarding")
  /\ rows' = {}
  /\ UNCHANGED <<rate, pins, asked, world, signedIn, mishaps>>

(* The provider knows the pin. *)
Answer(r) ==
  /\ Step(r, "asking", "rejecting") \/ Step(r, "asking", "accepting")
  /\ UNCHANGED <<rate, pins, rows, asked, world, signedIn, mishaps>>

CountDown(row) == [row EXCEPT !.attempts = @ - 1]
Guessed(row) == [row EXCEPT !.attempts = @ + 1]

Reject(r) ==
  /\ Return(r, "rejecting")
  /\ rows' = {IF w.pin = call[r].pin THEN Guessed(w) ELSE w : w \in rows}
  /\ UNCHANGED <<rate, pins, asked, world, signedIn, mishaps>>

(* findUserByPhone throws for a number nobody has, so that no account is    *)
(* ever made here: the pin is gone and the answer an error.                 *)
Accept(r) ==
  /\ Return(r, "accepting")
  /\ rows' = {}
  /\ signedIn' = (signedIn \/ known)
  /\ UNCHANGED <<rate, pins, asked, world, mishaps>>

(* Any other await rejects; a DELETE may have been done all the same.       *)
AwaitFails(r) ==
  /\ \/ \E at \in {"clearing", "discarding", "accepting"} : Return(r, at) /\ rows' \in {rows, {}}
     \/ \E at \in {"saving", "asking", "rejecting"} : Return(r, at) /\ UNCHANGED rows
  /\ UNCHANGED rate

Fail(r) ==
  /\ faults < MaxFaults /\ faults' = faults + 1
  /\ CountFails(r) \/ ExpireFails(r) \/ AwaitFails(r)
  /\ UNCHANGED <<pins, asked, world, signedIn, crashes>>

-----------------------------------------------------------------------------
WindowEnds ==
  /\ expiring
  /\ hits' = 0 /\ expiring' = FALSE /\ texted' = 0
  /\ call' = [r \in Requests |-> [call[r] EXCEPT !.fresh = FALSE]]
  /\ UNCHANGED <<lost, pins, rows, asked, world, signedIn, mishaps>>

RowExpires ==
  /\ \E w \in rows : w.live /\ rows' = (rows \ {w}) \cup {[w EXCEPT !.live = FALSE]}
  /\ UNCHANGED <<rate, pins, call, asked, world, signedIn, mishaps>>

Crash ==
  /\ crashes < MaxCrashes
  /\ crashes' = crashes + 1
  /\ lost' = (lost \/ \E r \in Requests : call[r].at = "counted" /\ call[r].n = 1)
  /\ call' = [r \in Requests |-> Idle]
  /\ UNCHANGED <<hits, expiring, texted, pins, rows, asked, world, signedIn, faults>>

Handle(r) ==
  \/ CheckRate(r) \/ ClearRows(r) \/ Text(r) \/ TextFails(r) \/ SaveRow(r)
  \/ Discard(r) \/ Answer(r) \/ Reject(r) \/ Accept(r)

Next ==
  \/ \E r \in Requests : Count(r) \/ Look(r) \/ Handle(r) \/ Fail(r)
  \/ WindowEnds \/ RowExpires \/ Crash

(* A request goes on, and a key with a time to live goes.                   *)
Spec ==
  /\ Init /\ [][Next]_vars
  /\ WF_vars(WindowEnds)
  /\ \A r \in Requests : WF_vars(Handle(r))

-----------------------------------------------------------------------------
(* Every variable has its type; no pin has two rows.                        *)
TypeOK ==
  /\ hits \in 0..MaxHits /\ texted \in Nat /\ pins \in 0..MaxPins
  /\ {expiring, lost, known, fits, signedIn} \subseteq BOOLEAN
  /\ expiring => hits > 0
  /\ rows \subseteq [pin : 1..MaxPins, attempts : Nat, live : BOOLEAN]
  /\ \A v, w \in rows : v.pin = w.pin => v = w
  /\ call \in [Requests -> [at : {"idle", "counted", "clearing", "texting", "saving", "asking",
                                  "discarding", "rejecting", "accepting"},
                            n : 0..MaxHits, pin : 0..MaxPins, fresh : BOOLEAN]]
  /\ asked \in [1..MaxPins -> Nat] /\ crashes \in 0..MaxCrashes /\ faults \in 0..MaxFaults

(* However many guesses overlap, right, wrong or unanswered: the provider   *)
(* is sent MaxAttempts at a pin, one more for each request beside another,  *)
(* those a crash forgot, and one for each await that rejected.              *)
GuessesBounded ==
  \A p \in 1..MaxPins :
    asked[p] <= MaxAttempts - 1 + Cardinality(Requests) * (1 + crashes) + faults

(* The requests counted in one window text at most Limit pins, whatever     *)
(* overlaps, crashes or outlives the window.                                *)
SmsBounded == texted <= Limit

(* A number over its limit may ask again later, whatever requests overlap,  *)
(* unless a window's first INCR or its EXPIRE met a crash or a rejection.   *)
LockoutEnds == []<>(hits <= Limit) \/ <>lost
=============================================================================
