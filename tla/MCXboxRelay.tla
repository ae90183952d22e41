---------------------------- MODULE MCXboxRelay ----------------------------
(* The Pico with a hub on its host port: two addresses, three devices. *)
EXTENDS XboxRelay

GamepadFormats == {"ps3", "ps4", "x360", "xone"}
=============================================================================
