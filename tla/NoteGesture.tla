---------------------------- MODULE NoteGesture ----------------------------
(* ui/Note.tsx: the gestures on the top note of the stack.  Pressing it     *)
(* without moving for HOLD_INTENT_MS starts a charge, which grows to        *)
(* MAX_NOTES while it runs; a swipe ends the drag and sprays as many notes  *)
(* as were charged, or one.  Timers and frames fire when they like.         *)
EXTENDS Integers

CONSTANT MaxNotes   \* a full charge (MAX_NOTES, 100 in the code)

ASSUME NotesAssumption == MaxNotes \in Nat \ {0}

VARIABLES
  pressed,    \* the pointer is down
  dragging,   \* between onDragStart and onDragEnd
  holding,    \* isHolding: the hold-intent window
  holdTimer,  \* its timer is set
  ticking,    \* isCharging: the charge grows with each frame
  charge      \* notes charged so far

gesture == <<pressed, dragging, holding, holdTimer, ticking, charge>>

GestureInit ==
  /\ pressed = FALSE /\ dragging = FALSE
  /\ holding = FALSE /\ holdTimer = FALSE
  /\ ticking = FALSE /\ charge = 0

(* resetCharge, and the reset of a dismissed note. *)
ResetCharge ==
  /\ holding' = FALSE
  /\ holdTimer' = FALSE
  /\ ticking' = FALSE
  /\ charge' = 0

(* The overlay, and the note with it, is gone. *)
Forget == pressed' = FALSE /\ dragging' = FALSE /\ ResetCharge

PointerDown ==
  /\ ~pressed /\ ~dragging
  /\ pressed' = TRUE
  /\ holding' = TRUE
  /\ holdTimer' = TRUE
  /\ UNCHANGED <<dragging, ticking, charge>>

(* Farther than DRAG_MOVE_THRESHOLD from where it was pressed; a mouse      *)
(* moves over the note without being pressed, too.                          *)
PointerMove ==
  /\ holding
  /\ holding' = FALSE
  /\ holdTimer' = FALSE
  /\ UNCHANGED <<pressed, dragging, ticking, charge>>

(* startChargeTick, unless the hold has been given up. *)
HoldElapsed ==
  /\ holdTimer
  /\ holdTimer' = FALSE
  /\ IF holding
     THEN ticking' = TRUE /\ charge' = 0
     ELSE UNCHANGED <<ticking, charge>>
  /\ UNCHANGED <<pressed, dragging, holding>>

Tick ==
  /\ ticking
  /\ charge' = charge + 1
  /\ ticking' = (charge + 1 < MaxNotes)
  /\ UNCHANGED <<pressed, dragging, holding, holdTimer>>

(* A charge that runs goes on. *)
DragStart ==
  /\ pressed /\ ~dragging
  /\ dragging' = TRUE
  /\ holding' = FALSE
  /\ holdTimer' = FALSE
  /\ UNCHANGED <<pressed, ticking, charge>>

(* The pointer is lifted where it was pressed: the note has no handler.     *)
Lift ==
  /\ pressed /\ ~dragging
  /\ pressed' = FALSE
  /\ UNCHANGED <<dragging, holding, holdTimer, ticking, charge>>

PointerCancel ==
  /\ pressed
  /\ pressed' = FALSE
  /\ ResetCharge
  /\ UNCHANGED dragging

(* The drag ends, as a swipe or not; either way nothing stays charged.      *)
DragEnds ==
  /\ dragging
  /\ dragging' = FALSE
  /\ pressed' = FALSE
  /\ ResetCharge

NotesToSpray == IF charge > 1 THEN charge ELSE 1

Drop == DragEnds      \* not far or fast enough

Touch ==
  PointerDown \/ PointerMove \/ HoldElapsed \/ Tick \/ DragStart \/ Lift \/ PointerCancel \/ Drop

GestureTypeOK ==
  /\ {pressed, dragging, holding, holdTimer, ticking} \subseteq BOOLEAN
  /\ charge \in 0..MaxNotes
  /\ ticking => charge < MaxNotes
=============================================================================
