-------------------------- MODULE MCConsoleDetect --------------------------
(* Which device is plugged into what. *)
EXTENDS ConsoleDetect

S(platforms, hosts, holds, prompt) ==
  [platform : platforms,
   device : {"GUITAR", "LIVE_GUITAR", "DJ_HERO_TURNTABLE", "GAMEPAD"},
   host : hosts, hold : holds, prompt : prompt]

Platforms == {"uno", "micro", "pico"}

Hosts == {"PS3", "FAKEMOTE", "PADEMU", "WII", "PS4", "XBOX360", "WINDOWS", "XBOXONE",
          "SWITCH", "PC"}

Buttons == {"PS3", "SWITCH", "PS4", "XBOX360"}

\* Every device in every host, prompt or not and a button held or not, and hosts that
\* send anything or nothing.
Everything ==
  S(Platforms, Hosts, {"NONE"}, BOOLEAN)
  \cup S(Platforms, Hosts, Buttons, {TRUE})
  \cup S(Platforms, {"ANY"}, {"NONE", "PS3"}, {TRUE})
  \cup S({"micro"}, {"CHARGER"}, {"NONE"}, {TRUE})
=============================================================================
