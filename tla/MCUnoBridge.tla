----------------------------- MODULE MCUnoBridge -----------------------------
(* The bridge, packet by packet, with the console types of the .cfg. *)
EXTENDS UnoBridge
=============================================================================
