---------------------------- MODULE MCTwiMaster ----------------------------
(* A buffer of three bytes; a device that is read one byte or the whole buffer at a
   time, and written two or three with the pointer. *)
EXTENDS TwiMaster
=============================================================================
