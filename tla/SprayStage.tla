---------------------------- MODULE SprayStage ----------------------------
(* The stage of a spray overlay (NairaWidget): what is left of the balance  *)
(* it was opened with, the amount it shows, which follows a frame later,    *)
(* the rings, sparks and notes of its canvas, and the celebration that ends *)
(* it, whose animation has a loop of its own.  Overlays open and close at   *)
(* any time.  How many notes a swipe counts is NoteGesture's, and what is   *)
(* charged SprayClient's.                                                   *)
(* What flies has as many frames to live as its decay and the canvas leave  *)
(* it: a choice made when it is drawn first.                                *)
EXTENDS Integers, Functions

CONSTANTS
  Totals,       \* balances an overlay is opened with
  NoteValue,    \* noteValue
  Counts,       \* notes of a swipe
  MaxActive,    \* MAX_ACTIVE_NOTES
  MaxPerCall,   \* CFG.spawnPerCall
  BurstCount,   \* sparks of a burst, at the least
  MaxBursts,    \* MAX_BURSTS
  MaxRings,     \* MAX_RINGS
  Life,         \* bound: frames
  MaxOverlays   \* bound: overlays opened

ASSUME StageAssumption ==
  /\ Totals \subseteq Nat /\ Counts \subseteq Nat \ {0}
  /\ {NoteValue, MaxActive, MaxPerCall, BurstCount, MaxBursts, MaxRings, Life} \subseteq Nat \ {0}
  /\ MaxOverlays \in Nat

VARIABLES
  overlays,     \* overlays opened so far
  mounted,      \* the last of them is there
  left,         \* remainingRef
  counter,      \* state.remainingAmount
  trigger,      \* state.sprayTrigger
  seen,         \* prevTrigger
  asked,        \* rafPendingRef
  alive,        \* rings, sparks and notes by the frames they have left
  party         \* each celebration: Waiting, or frames its loop has left

amount == <<left, counter, trigger, asked>>
stage == <<overlays, mounted, amount, seen, alive, party>>

Waiting == -1
Kinds == {"rings", "bursts", "notes"}
Empty == [k \in Kinds |-> [n \in 1..Life |-> 0]]
Number(k) == SumFunctionOnSet(alive[k], 1..Life)

StageInit ==
  /\ overlays = 0 /\ mounted = FALSE
  /\ left = 0 /\ counter = 0 /\ trigger = 0 /\ seen = 0 /\ asked = FALSE
  /\ alive = Empty
  /\ party = [v \in 1..MaxOverlays |-> 0]

(* A population with n more, in each of the ways their lives may fall out.  *)
Grown(k, n) ==
  {[m \in 1..Life |-> alive[k][m] + more[m]] :
     more \in {f \in [1..Life -> 0..n] : SumFunctionOnSet(f, 1..Life) = n}}

Smaller(a, b) == IF a < b THEN a ELSE b
Larger(a, b) == IF a > b THEN a ELSE b

-----------------------------------------------------------------------------
(* The overlay opens with the page's first balance; nothing left means that *)
(* its first render is the celebration.                                     *)
Open(total) ==
  /\ ~mounted /\ overlays < MaxOverlays
  /\ overlays' = overlays + 1 /\ mounted' = TRUE
  /\ left' = total /\ counter' = total
  /\ trigger' = 0 /\ seen' = 0 /\ asked' = FALSE
  /\ alive' = Empty
  /\ party' = IF total = 0 THEN [party EXCEPT ![overlays + 1] = Waiting] ELSE party

(* The canvas's loop and the celebration's delay are cancelled, but not the *)
(* celebration's loop: the effect's timer returns its cleanup to nobody.    *)
Close ==
  /\ mounted
  /\ mounted' = FALSE /\ asked' = FALSE
  /\ alive' = Empty
  /\ party' = [party EXCEPT ![overlays] = IF @ = Waiting THEN 0 ELSE @]
  /\ UNCHANGED <<overlays, left, counter, trigger, seen>>

(* sprayNotes. *)
SpawnAll(count) == count
NotesFlown(count) == Smaller(count, Smaller(MaxActive - Number("notes"), MaxPerCall))

(* The canvas's effect on a new trigger: two rings while fewer than the     *)
(* limit are there, and sparks for which there is room.                     *)
Sparks(wanted) == Smaller(wanted, MaxBursts - Number("bursts"))
NewRings == IF Number("rings") < MaxRings THEN 2 ELSE 0

Burst(notes) ==
  \E wanted \in {BurstCount, BurstCount + 1} :
    \E rings \in Grown("rings", NewRings), bursts \in Grown("bursts", Sparks(wanted)) :
      alive' = [k \in Kinds |-> CASE k = "rings" -> rings [] k = "bursts" -> bursts [] OTHER -> notes]

Trigger(n, notes) ==
  /\ trigger' = n
  /\ IF n \notin {0, seen}
     THEN seen' = n /\ Burst(notes)
     ELSE alive' = [alive EXCEPT !["notes"] = notes] /\ UNCHANGED seen

(* dismiss: notes fly, then spray counts them.  The one that empties the    *)
(* stage is rendered at once, the others at the next frame.                 *)
Left(count) == Larger(left - NoteValue * Smaller(count, (left + NoteValue - 1) \div NoteValue), 0)

SwipeNotes(count) ==
  /\ mounted /\ left > 0
  /\ left' = Left(count)
  /\ \E notes \in Grown("notes", NotesFlown(count)) :
       IF left' = 0
       THEN /\ counter' = 0
            /\ Trigger(-1, notes)
            /\ party' = [party EXCEPT ![overlays] = Waiting]
            /\ UNCHANGED asked
       ELSE /\ asked' = TRUE
            /\ alive' = [alive EXCEPT !["notes"] = notes]
            /\ UNCHANGED <<counter, trigger, seen, party>>
  /\ UNCHANGED <<overlays, mounted>>

(* spray's frame renders what is left by then, of all the sprays since.     *)
OneNoteLess == counter - NoteValue
Rendered == left

Render ==
  /\ mounted /\ asked
  /\ asked' = FALSE
  /\ counter' = Rendered
  /\ Trigger(trigger + 1, alive["notes"])
  /\ UNCHANGED <<overlays, mounted, left, party>>

(* A frame of the canvas. *)
NeverDropped(k, n) == (IF n = 1 THEN alive[k][1] ELSE 0) + IF n = Life THEN 0 ELSE alive[k][n + 1]
Aged(k, n) == IF n = Life THEN 0 ELSE alive[k][n + 1]

Frame ==
  /\ mounted
  /\ alive # Empty
  /\ alive' = [k \in Kinds |-> [n \in 1..Life |-> Aged(k, n)]]
  /\ UNCHANGED <<overlays, mounted, amount, seen, party>>

(* CelebrationScreen: after its delay the loop starts, and it goes on while *)
(* a piece is alive.                                                        *)
StartParty(v) ==
  /\ party[v] = Waiting
  /\ party' = [party EXCEPT ![v] = Life]
  /\ UNCHANGED <<overlays, mounted, amount, seen, alive>>

Parties(v) == party[v] \in 1..Life
PartyFrame(v) ==
  /\ Parties(v)
  /\ \E n \in 0..party[v] - 1 : party' = [party EXCEPT ![v] = n]
  /\ UNCHANGED <<overlays, mounted, amount, seen, alive>>

Play(v) == StartParty(v) \/ PartyFrame(v)

StageNext ==
  \/ \E total \in Totals : Open(total)
  \/ Close \/ Render \/ Frame
  \/ \E count \in Counts : SwipeNotes(count)
  \/ \E v \in 1..MaxOverlays : Play(v)

(* Frames and timers come; guests do as they like.                          *)
StageSpec ==
  /\ StageInit /\ [][StageNext]_stage
  /\ WF_stage(Render) /\ WF_stage(Frame)
  /\ \A v \in 1..MaxOverlays : WF_stage(Play(v))

-----------------------------------------------------------------------------
(* Every variable has its type; what is left is never negative. *)
StageTypeOK ==
  /\ overlays \in 0..MaxOverlays /\ {mounted, asked} \subseteq BOOLEAN
  /\ {left, counter} \subseteq Nat
  /\ {trigger, seen} \subseteq Nat \cup {-1}
  /\ alive \in [Kinds -> [1..Life -> Nat]]
  /\ party \in [1..MaxOverlays -> {Waiting} \cup 0..Life]

(* However fast swipes and bursts come, the canvas draws no more than its   *)
(* tier's notes and sparks - and no more than one ring above MAX_RINGS: the *)
(* room for one ring lets two in.                                           *)
PoolsBounded ==
  /\ Number("notes") <= MaxActive /\ Number("bursts") <= MaxBursts
  /\ Number("rings") <= MaxRings + 1

(* No frame that an earlier spray asked for takes the celebration away, nor *)
(* shows other than what is left, over the sprays that came in between.     *)
CounterFollows ==
  mounted =>
    /\ ~asked => counter = left
    /\ left = 0 => counter = 0

(* Whatever is sprayed, closed and opened again, the canvas and every       *)
(* celebration come to rest, those of overlays that are gone included.      *)
StageComesToRest == <>[](alive = Empty /\ \A v \in 1..MaxOverlays : ~Parties(v))
=============================================================================
