---------------------------- MODULE MCSerialRing ----------------------------
(* A small transmit ring whose writes wrap around at every offset. *)
EXTENDS SerialRing
=============================================================================
