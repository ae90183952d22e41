------------------------------ MODULE MCBtLink ------------------------------
(* A transmitter with two inputs to tell apart, one with the guide button, and a      *)
(* receiver that may restart once, as an Xbox One controller.                         *)
EXTENDS BtLink
=============================================================================
