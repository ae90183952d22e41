----------------------------- MODULE MCUnoModes -----------------------------
(* The Uno's modes.  Ordinary RAM is neither of the magic values by chance. *)
EXTENDS UnoModes
=============================================================================
