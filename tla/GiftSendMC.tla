---------------------------- MODULE GiftSendMC ----------------------------
(* Two guests with two notes each: ada gives one at a time, bola both.     *)
EXTENDS GiftSend, TLC

CONSTANTS ada, bola, one, both

Givers == one :> ada @@ both :> bola
Prices == one :> 1 @@ both :> 2
=============================================================================
