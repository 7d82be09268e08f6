---------------------------- MODULE MCShipToken ----------------------------
(* The instances TLC checks the ship token on. *)
EXTENDS ShipToken

===========================================================================
