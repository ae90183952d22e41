------------------------------ MODULE MCUnoLink ------------------------------
(* The link with two console types and payload bytes that mimic a header. *)
EXTENDS UnoLink
=============================================================================
