---------------------------- MODULE JoinByCode ----------------------------
(* The page where a guest enters an event's code: the boxes, the lookups    *)
(* they start, the preview of the event found and the step into its room,   *)
(* with the list of recent events that every lookup of the browser extends. *)
(* A lookup is two awaits, the token and the request; lookups overlap and   *)
(* are answered in any order, also after their page is gone.                *)
(* The boxes hold a full code or they do not, and an event is its code.     *)
EXTENDS Integers, SequencesExt

CONSTANTS
  Codes,       \* full codes a guest enters
  Events,      \* those an event has
  MaxRecent,   \* MAX_RECENT (5 in the code)
  MaxLookups,  \* bound: lookups started
  MaxFaults,   \* bound: lookups that find no token, or fail for an event
  None

ASSUME CodeAssumption == Events \subseteq Codes /\ None \notin Codes
ASSUME BoundAssumption == MaxRecent \in Nat \ {0} /\ {MaxLookups, MaxFaults} \subseteq Nat

VARIABLES
  open,      \* the page is shown
  boxes,     \* the full code in the boxes, or None
  preview,   \* the event previewed
  loading,   \* Enter is disabled
  error,     \* "No event found with that code"
  lookups,   \* lookupCode calls under way; "here" until their page is left
  made,      \* lookups started
  recent,    \* recent_event_ids in localStorage
  room,      \* the room the guest went to from the page left last
  found,     \* ghost: events found, the latest first
  orderly,   \* ghost: since the page was opened the boxes changed only while
             \* no lookup was under way, and a preview was erased, or replaced
             \* by a full code; the guest is signed in
  faults

joinPage == <<open, boxes, preview, loading, error>>
join == <<joinPage, lookups, made, recent, room, found, orderly, faults>>

JoinInit ==
  /\ open = TRUE /\ loading = FALSE /\ error = FALSE
  /\ boxes = None /\ preview = None
  /\ lookups = {} /\ made = 0
  /\ recent = <<>> /\ found = <<>>
  /\ room = None
  /\ orderly = TRUE
  /\ faults = 0

Here == {l \in lookups : l.here}

-----------------------------------------------------------------------------
(* The boxes.                                                               *)

(* The last character is typed, one is replaced, or a full code is pasted:  *)
(* lookupCode starts, and the preview before it stays.                      *)
EnterCode(c) ==
  /\ open /\ made < MaxLookups
  /\ boxes' = c
  /\ lookups' = lookups \cup {[id |-> made, code |-> c, at |-> "token", here |-> TRUE]}
  /\ made' = made + 1
  /\ orderly' = (orderly /\ Here = {})
  /\ UNCHANGED <<open, preview, loading, error, recent, room, found, faults>>

(* Backspace on a filled box. *)
KeepPreview == UNCHANGED <<preview, error>>
ClearPreview == preview' = None /\ error' = FALSE
Erase ==
  /\ open
  /\ boxes' = None
  /\ ClearPreview
  /\ orderly' = (orderly /\ Here = {})
  /\ UNCHANGED <<open, loading, lookups, made, recent, room, found, faults>>

(* A character that is no letter or digit, or a short code that is pasted.  *)
Spoil ==
  /\ open
  /\ boxes' = None
  /\ orderly' = (orderly /\ Here = {} /\ preview = None)
  /\ UNCHANGED <<open, preview, loading, error, lookups, made, recent, room, found, faults>>

-----------------------------------------------------------------------------
(* lookupCode.  What it sets reaches the page it was called on, no later    *)
(* one.                                                                     *)

SendRequest(l) ==
  /\ l.at = "token"
  /\ lookups' = (lookups \ {l}) \cup {[l EXCEPT !.at = "request"]}
  /\ IF l.here THEN loading' = TRUE /\ error' = FALSE ELSE UNCHANGED <<loading, error>>
  /\ UNCHANGED <<open, boxes, preview, made, recent, room, found, orderly, faults>>

(* The token is gone: the lookup ends without a word.                       *)
NoToken(l) ==
  /\ l.at = "token"
  /\ faults < MaxFaults /\ faults' = faults + 1
  /\ lookups' = lookups \ {l}
  /\ orderly' = (orderly /\ ~l.here)
  /\ UNCHANGED <<joinPage, made, recent, room, found>>

(* saveRecentEventId: to the front, once, and no more than MaxRecent.       *)
Trimmed(list) == SubSeq(list, 1, IF Len(list) < MaxRecent THEN Len(list) ELSE MaxRecent)
Repeated(list, e) == Trimmed(<<e>> \o list)
Without(list, e) == FoldLeft(LAMBDA kept, f : IF f = e THEN kept ELSE Append(kept, f), <<>>, list)
Saved(list, e) == Trimmed(<<e>> \o Without(list, e))

(* However a lookup ends, its page stops loading. *)
GoOn == UNCHANGED loading
StopLoading == loading' = FALSE

Found(l) ==
  /\ l.at = "request" /\ l.code \in Events
  /\ lookups' = lookups \ {l}
  /\ IF l.here THEN preview' = l.code /\ StopLoading ELSE UNCHANGED <<preview, loading>>
  /\ recent' = Saved(recent, l.code)
  /\ found' = <<l.code>> \o found
  /\ UNCHANGED <<open, boxes, error, made, room, orderly, faults>>

(* No event has the code, or the request fails. *)
NotFound(l) ==
  /\ l.at = "request"
  /\ IF l.code \in Events THEN faults < MaxFaults /\ faults' = faults + 1 ELSE UNCHANGED faults
  /\ lookups' = lookups \ {l}
  /\ IF l.here THEN preview' = None /\ error' = TRUE /\ StopLoading ELSE UNCHANGED <<preview, error, loading>>
  /\ UNCHANGED <<open, boxes, made, recent, room, found, orderly>>

-----------------------------------------------------------------------------
(* The page's state goes with it, but not the lookups. *)
Orphaned(l) == [l EXCEPT !.here = FALSE]
Leave(r) ==
  /\ open /\ open' = FALSE
  /\ room' = r
  /\ boxes' = None /\ preview' = None
  /\ loading' = FALSE /\ error' = FALSE
  /\ orderly' = TRUE
  /\ lookups' = {Orphaned(l) : l \in lookups}
  /\ UNCHANGED <<made, recent, found, faults>>

(* handleEnter, whose button is disabled while loading. *)
Enter == preview # None /\ ~loading /\ Leave(preview)

Back == Leave(None)

OpenPage ==
  /\ ~open /\ open' = TRUE
  /\ room' = None
  /\ UNCHANGED <<boxes, preview, loading, error, lookups, made, recent, found, orderly, faults>>

Edit == (\E c \in Codes : EnterCode(c)) \/ Erase \/ Spoil
Answer(l) == Found(l) \/ NotFound(l)

JoinNext ==
  \/ Edit \/ Enter \/ Back \/ OpenPage
  \/ \E l \in lookups : SendRequest(l) \/ NoToken(l) \/ Answer(l)

JoinSpec == JoinInit /\ [][JoinNext]_join

(* Lookups under way go on and are answered.  Guests do as they like.       *)
FairJoinSpec == JoinSpec /\ \A n \in 0..MaxLookups - 1 :
  WF_join(\E l \in lookups : l.id = n /\ (SendRequest(l) \/ Answer(l)))

-----------------------------------------------------------------------------
Lookup == [id : Nat, code : Codes, at : {"token", "request"}, here : BOOLEAN]

(* Every variable has its type; lookups of a page that is gone set nothing  *)
(* on the page that is there.                                               *)
JoinTypeOK ==
  /\ {open, loading, error, orderly} \subseteq BOOLEAN
  /\ boxes \in Codes \cup {None}
  /\ {preview, room} \subseteq Events \cup {None}
  /\ lookups \subseteq Lookup
  /\ Here # {} => open
  /\ made \in 0..MaxLookups /\ faults \in 0..MaxFaults
  /\ recent \in Seq(Events) /\ found \in Seq(Events)

(* While the guest does not change the code during a lookup, Enter leads to *)
(* the event whose code is in the boxes, over lookups that fail, pages left *)
(* and opened again and codes replaced under a preview - except in the      *)
(* instant before a lookup has its token, when the button is still enabled. *)
EntersTheCode ==
  [][Enter /\ orderly => room' = boxes \/ \E l \in Here : l.at = "token"]_join

(* The recent events are those looked up last, each once, the latest first, *)
(* whichever pages and overlapping lookups found them.                      *)
FirstAt(e) == CHOOSE n \in 1..Len(found) : found[n] = e /\ \A k \in 1..n - 1 : found[k] # e
RecentsAreLatest ==
  /\ Range(recent) \subseteq Range(found)
  /\ \A i, j \in 1..Len(recent) : i < j => FirstAt(recent[i]) < FirstAt(recent[j])
  /\ \A e \in Range(found) \ Range(recent) :
       Len(recent) = MaxRecent /\ \A f \in Range(recent) : FirstAt(f) < FirstAt(e)

(* A code that stays in the boxes of an orderly page ends with its preview  *)
(* and an enabled button, or with the error: the page is not stuck loading. *)
SettlesOnTheCode ==
  \A c \in Codes :
    <>[](open /\ orderly /\ boxes = c) => <>[](~loading /\ (preview = c \/ error))
=============================================================================
