--------------------------- MODULE PhoneLoginMC ---------------------------
(* Two requests at a time, one pin a window and two guesses at a pin.       *)
EXTENDS PhoneLogin
=============================================================================
