--------------------------- MODULE ConsoleDetect ---------------------------
(***************************************************************************)
(* How the controller finds out what it is plugged into.                   *)
(*                                                                         *)
(* It starts as a UNIVERSAL device and waits for something that only one   *)
(* kind of host does: a control request, a report, or silence.  It then    *)
(* assigns consoleType and restarts the USB side, to be enumerated again   *)
(* under the new identity, from where further rules may apply.             *)
(*                                                                         *)
(* The rules are shared; the restart is not.  The Micro and the Pico reset *)
(* themselves and find the type in RAM that the reset leaves alone.  On    *)
(* the Uno the 328p keeps running: the flag it sets turns the answer to    *)
(* the next packet into a RESTART, and a RESTART that answers an endpoint  *)
(* packet is dropped (UnoBridge, UnoLink).                                 *)
(*                                                                         *)
(* What a host sends is taken from the code's comments and                 *)
(* console_detection.md: it is a script, started over whenever the device  *)
(* reappears.  A host of kind "ANY" sends anything at any time.            *)
(***************************************************************************)
EXTENDS Naturals, Sequences

CONSTANTS
  CONSOLE_TYPE,  \* the type the build starts with
  Setups,        \* what is plugged into what: [platform, device, host, hold, prompt]
  MaxResets      \* bound: commands to reboot and bus resets

Types == {"UNIVERSAL", "KEYBOARD_MOUSE", "MIDI", "XBOX360", "PS3", "WII_RB", "SWITCH",
          "PS4", "XBOXONE", "REAL_PS3", "WINDOWS_XBOXONE", "WINDOWS"}

ASSUME DetectAssumption ==
  /\ CONSOLE_TYPE \in Types
  /\ \A s \in Setups : s.hold \in Types \cup {"NONE"} /\ s.prompt \in BOOLEAN
  /\ MaxResets \in Nat

VARIABLES
  setup,                \* the situation: never changes
  consoleType,          \* and, on the Micro and the Pico, the copy that survives a reset
  should_reload_usb,    \* Uno: the next answer is a RESTART
  clock,                \* millis(): 0 below 2 s, 1 below 450 s, 2 above
  descriptor_requested, seen_non_wii_packet, connected,
  cleared,              \* cleared_input, cleared_output
  announced,            \* xbox_one_state is past Announce
  pos,                  \* host: next request of its script, 0 before it sees the device
  configured,           \* host: has configured the device
  shown,                \* host: the identity it has read
  heard,                \* host: has received an Announce
  resets,               \* commands to reboot and bus resets so far
  changes               \* history: identities assumed since the 328p or RAM was reset

ram == <<descriptor_requested, seen_non_wii_packet, connected, cleared, announced>>
hostVars == <<pos, configured, shown, heard>>
vars == <<setup, consoleType, should_reload_usb, clock, ram, hostVars, resets, changes>>

Uno == setup.platform = "uno"

-----------------------------------------------------------------------------
(* The hosts. *)

\* Requests that reach the program through an interrupt endpoint.
Interrupts == {"LED", "GIP"}

\* Standard requests: on the Uno the 8u2 keeps them to itself.
Clears == {"CLEAR_INPUT", "CLEAR_OUTPUT"}

Requests == Interrupts \cup Clears \cup
  {"DESCRIPTORS", "CONFIGURE", "HID_REPORT", "OS_COMPAT", "0x81", "GET_0300",
   "GET_0301", "GET_0303", "GET_03F2", "SET_03F4"}

Script(host) ==
  CASE host = "PS3"      -> <<"DESCRIPTORS", "CONFIGURE", "HID_REPORT", "GET_0300", "GET_0301">>
    [] host = "FAKEMOTE" -> <<"DESCRIPTORS", "CONFIGURE", "GET_03F2">>
    [] host = "PADEMU"   -> <<"DESCRIPTORS">>
    [] host = "WII"      -> <<"DESCRIPTORS", "CONFIGURE">>
    [] host = "PS4"      -> <<"DESCRIPTORS", "CONFIGURE", "HID_REPORT", "GET_0303">>
    [] host = "XBOX360"  -> <<"DESCRIPTORS", "CONFIGURE", "0x81">>
    [] host = "WINDOWS"  -> <<"DESCRIPTORS", "OS_COMPAT", "CONFIGURE", "LED">>
    [] host = "XBOXONE"  -> <<"DESCRIPTORS", "OS_COMPAT", "CONFIGURE", "GIP">>
    [] host = "SWITCH"   -> <<"DESCRIPTORS", "CONFIGURE", "HID_REPORT", "CLEAR_INPUT",
                              "CLEAR_OUTPUT">>
    [] host = "PC"       -> <<"DESCRIPTORS", "CONFIGURE", "HID_REPORT">>
    [] OTHER             -> <<>>

\* A Wii stops talking to a device it does not know; PADEMU never configures it; a
\* charger has no data lines.
Silent == {"WII", "PADEMU", "CHARGER"}

\* What the host may send now.  A console answers an Announce only when it got one.
Pending(r) ==
  /\ pos > 0
  /\ \/ setup.host = "ANY"
     \/ pos <= Len(Script(setup.host)) /\ r = Script(setup.host)[pos]
  /\ r = "GIP" => heard

HostDone == setup.host \in {"CHARGER", "ANY"} \/ pos > Len(Script(setup.host))

-----------------------------------------------------------------------------
(* The rules. *)

\* Broken variant of NewType: the report requests and the descriptor query are
\* taken for a detection whatever the device is by then.
NewTypeAlways(r) ==
  CASE r = "0x81" -> "XBOX360"
    [] r = "GET_0300" -> "REAL_PS3"
    [] r = "OS_COMPAT" -> "WINDOWS_XBOXONE"
    [] r = "LED" /\ consoleType = "WINDOWS_XBOXONE" -> "WINDOWS"
    [] OTHER -> consoleType

\* controlRequest, hid_set_report: the type the device takes on a request.  Every
\* rule that assigns consoleType calls reset_usb().  Guitars, drums and turntables
\* have no PS4 mode.
NewType(r) ==
  CASE r = "0x81" -> "XBOX360"
    [] r = "GET_0300" /\ consoleType = "UNIVERSAL" -> "REAL_PS3"
    [] r = "GET_03F2" /\ consoleType = "UNIVERSAL" -> "PS3"
    [] r = "SET_03F4" /\ consoleType = "UNIVERSAL" -> "PS3"
    [] r = "GET_0301" /\ consoleType = "PS3" -> "REAL_PS3"
    [] r = "GET_0303" /\ consoleType = "UNIVERSAL" ->
         IF setup.device \in {"GUITAR", "DRUMS", "DJ_HERO_TURNTABLE"} THEN "PS3" ELSE "PS4"
    [] r = "OS_COMPAT" /\ consoleType = "UNIVERSAL" -> "WINDOWS_XBOXONE"
    [] r \in Clears /\ consoleType = "UNIVERSAL" /\ cleared \cup {r} = Clears -> "SWITCH"
    [] r = "LED" /\ consoleType = "WINDOWS_XBOXONE" -> "WINDOWS"
    [] r = "GIP" /\ consoleType = "WINDOWS_XBOXONE" -> "XBOXONE"
    [] OTHER -> consoleType

Reaches(r) == Uno => r \notin Clears

\* Broken variant of Note: reading the report descriptor is not remembered.
NoteDescriptorsOnly(r) ==
  /\ descriptor_requested' = (descriptor_requested \/ r \in {"DESCRIPTORS", "HID_REPORT"})
  /\ seen_non_wii_packet' = seen_non_wii_packet
  /\ cleared' = IF r \in Clears /\ Reaches(r) /\ consoleType = "UNIVERSAL"
                THEN cleared \cup {r} ELSE cleared
  /\ IF setup.platform = "pico" /\ r = "CONFIGURE"
     THEN connected' = TRUE /\ announced' = FALSE
     ELSE UNCHANGED <<connected, announced>>

\* Broken variant of Note: being configured does not start the handshake over.
NoteNoDeviceReset(r) ==
  /\ descriptor_requested' = (descriptor_requested \/ r \in {"DESCRIPTORS", "HID_REPORT"})
  /\ seen_non_wii_packet' = (seen_non_wii_packet \/ r = "HID_REPORT")
  /\ cleared' = IF r \in Clears /\ Reaches(r) /\ consoleType = "UNIVERSAL"
                THEN cleared \cup {r} ELSE cleared
  /\ connected' = (connected \/ (setup.platform = "pico" /\ r = "CONFIGURE"))
  /\ UNCHANGED announced

\* What a request leaves in RAM.  tud_mount_cb is the Pico's: it starts the Xbox
\* One handshake over.
Note(r) ==
  /\ descriptor_requested' = (descriptor_requested \/ r \in {"DESCRIPTORS", "HID_REPORT"})
  /\ seen_non_wii_packet' = (seen_non_wii_packet \/ r = "HID_REPORT")
  /\ cleared' = IF r \in Clears /\ Reaches(r) /\ consoleType = "UNIVERSAL"
                THEN cleared \cup {r} ELSE cleared
  /\ IF setup.platform = "pico" /\ r = "CONFIGURE"
     THEN connected' = TRUE /\ announced' = FALSE
     ELSE UNCHANGED <<connected, announced>>

\* tick_usb after two seconds.
SilenceType ==
  CASE setup.device \in {"GUITAR", "DRUMS"} /\ ~seen_non_wii_packet /\ connected -> "WII_RB"
    [] setup.device = "LIVE_GUITAR" /\ ~seen_non_wii_packet /\ connected -> "PS3"
    [] setup.device \in {"GUITAR", "DRUMS", "LIVE_GUITAR"} /\ ~seen_non_wii_packet
         /\ ~connected /\ descriptor_requested -> "PS3"
    [] setup.device \in {"GAMEPAD", "DJ_HERO_TURNTABLE"} /\ ~descriptor_requested -> "PS3"
    [] OTHER -> "UNIVERSAL"

-----------------------------------------------------------------------------
(* The restarts. *)

\* The device disappears from the host.
Detach ==
  pos' = 0 /\ configured' = FALSE /\ shown' = "NONE" /\ heard' = FALSE

\* reset_usb() of the Micro and the Pico, and any other reset: RAM is initialised.
Boot ==
  /\ clock' = 0
  /\ descriptor_requested' = FALSE /\ seen_non_wii_packet' = FALSE
  /\ connected' = FALSE /\ cleared' = {} /\ announced' = FALSE
  /\ should_reload_usb' = FALSE
  /\ Detach

\* reset_usb() called from tick().
ResetUsb ==
  IF Uno THEN /\ should_reload_usb' = TRUE
              /\ UNCHANGED <<clock, ram, hostVars>>
         ELSE Boot

Assume(type) ==
  /\ consoleType' = type
  /\ changes' = IF type = consoleType THEN changes ELSE changes + 1

\* A request is handled, and answered with what the host asked for.  An endpoint
\* packet on the Uno has no other answer: if a restart is wanted it is lost.
Serve(r) ==
  /\ Note(r)
  /\ should_reload_usb' = FALSE
  /\ pos' = pos + (IF setup.host = "ANY" THEN 0 ELSE 1)
  /\ shown' = IF r = "DESCRIPTORS" THEN consoleType ELSE shown
  /\ configured' = (configured \/ r = "CONFIGURE")
  /\ UNCHANGED <<clock, heard>>

\* A request is handled, and the device restarts: at once, or instead of the answer.
ServeAndRestart(r) ==
  IF Uno THEN /\ Note(r)
              /\ should_reload_usb' = FALSE
              /\ Detach
              /\ UNCHANGED clock
         ELSE Boot

\* Broken variant of Request: on the Uno the flag is not looked at.
RequestRestartForgotten(r) ==
  LET new == IF Reaches(r) THEN NewType(r) ELSE consoleType IN
  /\ Pending(r)
  /\ Assume(new)
  /\ IF new # consoleType /\ ~Uno THEN ServeAndRestart(r) ELSE Serve(r)
  /\ UNCHANGED <<setup, resets>>

Request(r) ==
  LET new == IF Reaches(r) THEN NewType(r) ELSE consoleType
      restart == \/ new # consoleType /\ (Uno => r \notin Interrupts)
                 \/ should_reload_usb /\ Reaches(r) /\ r \notin Interrupts
  IN
  /\ Pending(r)
  /\ Assume(new)
  /\ IF restart THEN ServeAndRestart(r) ELSE Serve(r)
  /\ UNCHANGED <<setup, resets>>

\* The host sees the device: power on the Micro, a bus that is awake on the Uno.
Attach ==
  /\ pos = 0 /\ setup.host # "CHARGER"
  /\ pos' = 1
  /\ connected' = (connected \/ setup.platform # "pico")
  /\ UNCHANGED <<setup, consoleType, should_reload_usb, clock, descriptor_requested,
                 seen_non_wii_packet, cleared, announced, configured, shown, heard,
                 resets, changes>>

\* The host polls the device for a report.  While an Xbox One is possible the first
\* report is an Announce.  On the Uno a restart that is wanted takes the place of
\* the report and is dropped.
Poll ==
  /\ configured /\ setup.host \notin Silent
  /\ IF consoleType \in {"WINDOWS_XBOXONE", "XBOXONE"}
     THEN announced' = TRUE /\ heard' = (heard \/ (~announced /\ ~should_reload_usb))
     ELSE UNCHANGED <<announced, heard>>
  /\ should_reload_usb' = FALSE
  /\ UNCHANGED <<setup, consoleType, clock, descriptor_requested, seen_non_wii_packet,
                 connected, cleared, pos, configured, shown, resets, changes>>

-----------------------------------------------------------------------------
(* The main loop, the clock and the user. *)

\* tick_usb: nobody has asked for what every other host asks for.
Silence ==
  /\ clock > 0 /\ consoleType = "UNIVERSAL" /\ SilenceType # "UNIVERSAL"
  /\ Assume(SilenceType)
  /\ ResetUsb
  /\ UNCHANGED <<setup, resets>>

Holding == setup.hold # "NONE" /\ consoleType = "UNIVERSAL"

\* A button held while the device is plugged in chooses the type.
Hold ==
  /\ clock = 0 /\ Holding
  /\ Assume(setup.hold)
  /\ ResetUsb
  /\ UNCHANGED <<setup, resets>>

\* A PS4 disconnects a controller that did not authenticate after eight minutes:
\* the program is faster.  (No PS4 controller is plugged into the device to relay
\* the authentication to.)
Reconnect ==
  /\ clock = 2 /\ consoleType = "PS4"
  /\ ResetUsb
  /\ UNCHANGED <<setup, consoleType, resets, changes>>

\* Time passes.  Two seconds are enough for the tick that looks at the buttons, and
\* for the script of a host that is prompt.
Time ==
  /\ clock < 2
  /\ clock = 0 => (setup.prompt => HostDone) /\ ~Holding
  /\ clock' = clock + 1
  /\ UNCHANGED <<setup, consoleType, should_reload_usb, ram, hostVars, resets, changes>>

\* COMMAND_REBOOT.  The Uno's processors both start over; the Micro and the Pico
\* find the type in RAM.
Reboot ==
  /\ resets < MaxResets /\ configured
  /\ setup.host \in {"PC", "WINDOWS", "ANY"}
  /\ IF Uno THEN consoleType' = CONSOLE_TYPE /\ changes' = 0
            ELSE UNCHANGED <<consoleType, changes>>
  /\ Boot
  /\ resets' = resets + 1
  /\ UNCHANGED setup

\* The host resets the bus and starts its script over.
BusReset ==
  /\ resets < MaxResets /\ pos > 0
  /\ Detach
  /\ resets' = resets + 1
  /\ UNCHANGED <<setup, consoleType, should_reload_usb, clock, ram, changes>>

-----------------------------------------------------------------------------

TypeOK ==
  /\ setup \in Setups
  /\ consoleType \in Types
  /\ should_reload_usb \in BOOLEAN /\ (should_reload_usb => Uno)
  /\ clock \in 0..2
  /\ descriptor_requested \in BOOLEAN /\ seen_non_wii_packet \in BOOLEAN
  /\ connected \in BOOLEAN /\ announced \in BOOLEAN
  /\ cleared \subseteq Clears
  /\ pos \in Nat
  /\ configured \in BOOLEAN /\ heard \in BOOLEAN
  /\ shown \in Types \cup {"NONE"}
  /\ resets \in 0..MaxResets
  /\ changes \in Nat

Init ==
  /\ setup \in Setups
  /\ consoleType = CONSOLE_TYPE
  /\ should_reload_usb = FALSE /\ clock = 0
  /\ descriptor_requested = FALSE /\ seen_non_wii_packet = FALSE
  /\ connected = FALSE /\ cleared = {} /\ announced = FALSE
  /\ pos = 0 /\ configured = FALSE /\ shown = "NONE" /\ heard = FALSE
  /\ resets = 0 /\ changes = 0

HostStep == Attach \/ \E r \in Requests : Request(r)

Next ==
  \/ Attach \/ Poll
  \/ \E r \in Requests : Request(r)
  \/ Silence \/ Hold \/ Reconnect \/ Time
  \/ Reboot \/ BusReset

Spec == Init /\ [][Next]_vars

\* Time passes, the loop runs, and a host gets on with its script.
FairSpec ==
  /\ Spec
  /\ WF_vars(HostStep) /\ WF_vars(Poll)
  /\ WF_vars(Silence) /\ WF_vars(Hold) /\ WF_vars(Reconnect) /\ WF_vars(Time)

-----------------------------------------------------------------------------
(* Properties. *)

\* The type a host should end with (console_detection.md; the comments of tick_usb
\* and controlRequest).
Expected ==
  CASE setup.host = "PS3" -> "REAL_PS3"
    [] setup.host \in {"FAKEMOTE", "PADEMU"} -> "PS3"
    [] setup.host = "WII" -> IF setup.device \in {"GUITAR", "DRUMS"} THEN "WII_RB" ELSE "PS3"
    [] setup.host = "PS4" -> IF setup.device \in {"GUITAR", "DRUMS", "DJ_HERO_TURNTABLE"}
                             THEN "PS3" ELSE "PS4"
    [] setup.host \in {"XBOX360", "WINDOWS", "XBOXONE", "SWITCH"} -> setup.host
    [] OTHER -> "UNIVERSAL"

\* What a button held makes of that: a real PS3 and an Xbox 360 are known whatever
\* the device shows them.
Chosen ==
  CASE setup.host = "XBOX360" -> "XBOX360"
    [] setup.host = "PS3" /\ setup.hold = "PS3" -> "REAL_PS3"
    [] OTHER -> setup.hold

Wanted == {Expected} \cup (IF setup.hold = "NONE" THEN {} ELSE {Chosen})

Known == setup.host \notin {"ANY", "CHARGER"}

\* Hosts that are not recognised: a Wii, a Wii U or PADEMU by a gamepad or a turntable,
\* though tick_usb and console_detection.md say so (they read the descriptors, and the
\* rule wants a host that does not); PADEMU by a guitar or drums of a board that does
\* not notice that it never configures it; an Xbox One where only the first one to
\* configure the device gets an Announce; a Switch by the Uno.
Unrecognised ==
  \/ setup.host \in {"WII", "PADEMU"} /\ setup.device \in {"GAMEPAD", "DJ_HERO_TURNTABLE"}
  \/ setup.host = "PADEMU" /\ setup.device \in {"GUITAR", "DRUMS"} /\ setup.platform # "pico"
  \/ setup.host = "XBOXONE" /\ setup.platform # "pico"
  \/ setup.host = "SWITCH" /\ Uno

\* In the end every host that is prompt is recognised, or gets what the user chose, and
\* it stays so, but for those named above.
Recognised ==
  Known /\ setup.prompt /\ ~Unrecognised =>
    \E t \in Types : <>[](consoleType = t /\ t \in Wanted)

\* On the way there the device never takes itself for anything else than what it is
\* going to be: a rule meant for one host is not met by another, whatever survives the
\* restarts.  But Windows' and the Xbox One's first step is common; PADEMU is taken for
\* a Wii on the boards named above; and a host that is not prompt may be taken for one
\* that is silent, and for nothing else.
NeverMistaken ==
  Known =>
    \/ consoleType \in Wanted \cup {CONSOLE_TYPE, setup.hold}
    \/ consoleType = "WINDOWS_XBOXONE" /\ setup.host \in {"WINDOWS", "XBOXONE"}
    \/ consoleType = "WII_RB" /\ setup.host = "PADEMU" /\ Unrecognised
    \/ consoleType \in {"WII_RB", "PS3"} /\ ~setup.prompt

\* Setups of the Uno whose detection does not get to the host: it is made in the main
\* loop (silence, a button held) or on a packet for an endpoint, and nothing the host
\* sends after it can be answered with a RESTART; or each RESTART is followed by
\* another, the eight minutes of a PS4 being over for good.
Unseen ==
  Uno /\ \/ setup.host \in {"WII", "PADEMU", "WINDOWS", "XBOXONE"}
         \/ setup.hold # "NONE"
         \/ Expected = "PS4"

\* A detection gets to a host that is prompt, but for those named above: again and
\* again the identity the host has read is the one in force.
Shown == Known /\ setup.prompt /\ ~Unseen => []<>(shown = consoleType)

Rank(type) ==
  CASE type = "UNIVERSAL" -> 0
    [] type \in {"WINDOWS_XBOXONE", "PS3"} -> 1
    [] type = "XBOX360" -> 3
    [] OTHER -> 2

\* Whatever a host sends, it makes the device change its identity at most three
\* times: the rules have no cycle, and a host cannot keep the device restarting.
FewChanges == changes <= Rank(consoleType)
=============================================================================
