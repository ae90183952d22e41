----------------------------- MODULE XboxRelay -----------------------------
(***************************************************************************)
(* The Pico as an Xbox One controller: the handshake it makes up itself,   *)
(* the authentication it relays between the console and a real controller  *)
(* in its host port through one buffer each way, and the endpoint on which *)
(* all of it and the inputs leave.  Everything runs from loop(): a tick,   *)
(* the device stack's callbacks, the host stack's callbacks.               *)
(***************************************************************************)
EXTENDS PicoHost

CONSTANTS
  MaxConsole,     \* bound: reports of the console in the authentication
  MaxController,  \* bound: reports of the controller relayed to the console
  MaxResets       \* bound: resets of the bus by the console

ASSUME RelayAssumption == {MaxConsole, MaxController, MaxResets} \subseteq Nat

VARIABLES
  consoleType,     \* what the console has been recognised as
  mounted,         \* the console has configured the device
  resets,          \* resets of the bus so far
  sending,         \* xinput_device.cpp: a report waits for the console's poll
  xbox_one_state,
  fromConsole,     \* data_from_console: the number of the report it holds,
  consoleSize,     \*   data_from_console_size is not 0,
  patched,         \*   and its first bytes were overwritten since
  fromController,  \* data_from_controller: the number of the report it holds
  controllerSize,  \*   data_from_controller_size is not 0
  xbox_360_state,
  nConsole, nController,   \* reports numbered so far
  consoleBefore, controllerBefore,   \* history: the numbers at the last device_reset
  shown,           \* history, since device_reset: handshake packets sent,
  relayed,         \*   numbers of controller reports sent to the console,
  delivered        \*   numbers of console reports that reached a controller

relayVars == <<consoleType, mounted, resets, sending, xbox_one_state, fromConsole, consoleSize,
               patched, fromController, controllerSize, xbox_360_state, nConsole, nController,
               consoleBefore, controllerBefore, shown, relayed, delivered>>

vars == <<hostVars, relayVars>>

\* The histories of the resets.
marks == <<consoleBefore, controllerBefore>>

States == {"Announce", "Waiting1", "Ident1", "Waiting2", "Ident2", "Ident3", "Ident4",
           "Waiting5", "Ident5", "Auth", "Ready"}

Handshake == <<"announce", "identify_1", "identify_2", "identify_3", "identify_4", "identify_5">>

Init ==
  /\ HostInit
  /\ consoleType \in {"XBOXONE", "XBOX360", "PS4"}
  /\ mounted = FALSE /\ resets = 0 /\ sending = FALSE
  /\ xbox_one_state = "Announce"
  /\ fromConsole = 0 /\ consoleSize = FALSE /\ patched = FALSE
  /\ fromController = 0 /\ controllerSize = FALSE
  /\ xbox_360_state = "Auth1"
  /\ nConsole = 0 /\ nController = 0 /\ consoleBefore = 0 /\ controllerBefore = 0
  /\ shown = <<>> /\ relayed = <<>> /\ delivered = <<>>

-----------------------------------------------------------------------------
(* The console's side. *)

\* xinputd_reset: the endpoint is idle and closed.
BusReset ==
  /\ mounted /\ resets < MaxResets
  /\ mounted' = FALSE /\ sending' = FALSE /\ resets' = resets + 1
  /\ UNCHANGED <<hostVars, consoleType, xbox_one_state, fromConsole, consoleSize, patched,
                 fromController, controllerSize, xbox_360_state, nConsole, nController,
                 shown, relayed, delivered, marks>>

\* Broken variant: a report that waits is kept over the reset.
ConfigureKeeping ==
  /\ ~mounted
  /\ mounted' = TRUE
  /\ xbox_one_state' = "Announce"
  /\ consoleBefore' = nConsole /\ controllerBefore' = nController
  /\ shown' = <<>> /\ relayed' = <<>> /\ delivered' = <<>>
  /\ UNCHANGED <<hostVars, consoleType, resets, sending, fromConsole, consoleSize, patched,
                 fromController, controllerSize, xbox_360_state, nConsole, nController>>

\* tud_mount_cb and device_reset: the handshake starts again.
Configure ==
  /\ ~mounted
  /\ mounted' = TRUE
  /\ xbox_one_state' = "Announce"
  /\ consoleSize' = FALSE /\ controllerSize' = FALSE /\ patched' = FALSE
  /\ consoleBefore' = nConsole /\ controllerBefore' = nController
  /\ shown' = <<>> /\ relayed' = <<>> /\ delivered' = <<>>
  /\ UNCHANGED <<hostVars, consoleType, resets, sending, fromConsole, fromController,
                 xbox_360_state, nConsole, nController>>

\* xinputd_xfer_cb: the console has polled the report.
Polled ==
  /\ sending
  /\ sending' = FALSE
  /\ UNCHANGED <<hostVars, consoleType, mounted, resets, xbox_one_state, fromConsole,
                 consoleSize, patched, fromController, controllerSize, xbox_360_state,
                 nConsole, nController, shown, relayed, delivered, marks>>

\* Broken variant: the answer to the fourth packet is not recognised.
AdvanceTwice(s) ==
  CASE s = "Waiting1" -> "Ident1" [] s = "Waiting2" -> "Ident2" [] OTHER -> s

Advance(s) ==
  CASE s = "Waiting1" -> "Ident1" [] s = "Waiting2" -> "Ident2" [] s = "Waiting5" -> "Ident5"

\* hid_set_report before the authentication: any report moves the handshake on.
ConsoleAnswers ==
  /\ mounted /\ consoleType = "XBOXONE"
  /\ xbox_one_state \in {"Waiting1", "Waiting2", "Waiting5"}
  /\ xbox_one_state' = Advance(xbox_one_state)
  /\ UNCHANGED <<hostVars, consoleType, mounted, resets, sending, fromConsole, consoleSize,
                 patched, fromController, controllerSize, xbox_360_state, nConsole,
                 nController, shown, relayed, delivered, marks>>

\* hid_set_report in the authentication: the report is kept for the controller, over
\* one that is still waiting; the one that says it has succeeded ends it.
ConsoleAuth ==
  /\ mounted /\ consoleType = "XBOXONE" /\ xbox_one_state = "Auth"
  /\ nConsole < MaxConsole
  /\ nConsole' = nConsole + 1
  /\ fromConsole' = nConsole' /\ consoleSize' = TRUE /\ patched' = FALSE
  /\ xbox_one_state' \in {"Auth", "Ready"}
  /\ UNCHANGED <<hostVars, consoleType, mounted, resets, sending, fromController,
                 controllerSize, xbox_360_state, nController, shown, relayed, delivered,
                 marks>>

\* hid_set_report: rumble for the controllers; on an Xbox One only once the
\* authentication is over.
ConsoleRumbles ==
  /\ mounted /\ (consoleType = "XBOXONE" => xbox_one_state = "Ready")
  /\ Rumble
  /\ UNCHANGED relayVars

\* hid_set_report: the player number, which an Xbox One does not send.
ConsoleLeds ==
  /\ mounted /\ consoleType # "XBOXONE"
  /\ PlayerLeds
  /\ UNCHANGED relayVars

\* A request of the Xbox 360's or the PS4's authentication.
ConsoleRequest ==
  /\ mounted
  /\ \/ consoleType = "XBOX360" /\ Relay("x360")
     \/ consoleType = "PS4" /\ Relay("ps4")
  /\ UNCHANGED relayVars

\* controlRequestValid for request 0x83, which tud_vendor_control_xfer_cb calls at
\* each stage of the request: the Xbox 360's own authentication moves on.
Request83 ==
  /\ mounted /\ consoleType = "XBOX360" /\ xbox_360_state # "Authenticated"
  /\ xbox_360_state' = IF xbox_360_state = "Auth1" THEN "Auth2" ELSE "Authenticated"
  /\ UNCHANGED <<hostVars, consoleType, mounted, resets, sending, xbox_one_state,
                 fromConsole, consoleSize, patched, fromController, controllerSize,
                 nConsole, nController, shown, relayed, delivered, marks>>

-----------------------------------------------------------------------------
(* The controller's side. *)

\* xone_controller_connected builds its packet in data_from_console and sends it.
Connect(a, k) ==
  /\ Plug(a, k)
  /\ patched' = (patched \/ (k = "xone" /\ consoleSize))
  /\ UNCHANGED <<consoleType, mounted, resets, sending, xbox_one_state, fromConsole,
                 consoleSize, fromController, controllerSize, xbox_360_state, nConsole,
                 nController, shown, relayed, delivered, marks>>

Disconnect(a) == Unplug(a) /\ UNCHANGED relayVars

Drain(a) == OutDone(a) /\ UNCHANGED relayVars

\* receive_report_from_controller: during the authentication every report of the
\* Xbox One controller, inputs included, is kept for the console, over one that is
\* still waiting.
ControllerReport(a, input) ==
  /\ StoreReport(a, input)
  /\ IF a = xone /\ xbox_one_state = "Auth"
       THEN /\ nController < MaxController
            /\ nController' = nController + 1
            /\ fromController' = nController' /\ controllerSize' = TRUE
       ELSE UNCHANGED <<consoleType, nController, fromController, controllerSize>>
  /\ UNCHANGED <<consoleType, mounted, resets, sending, xbox_one_state, fromConsole,
                 consoleSize, patched, xbox_360_state, nConsole, shown, relayed, delivered,
                 marks>>

-----------------------------------------------------------------------------
(* tick(). *)

\* Broken variant: the device does not wait for the console before identify_5.
DueHasty(s) ==
  CASE s = "Announce" -> <<"announce", "Waiting1">>
    [] s = "Ident1" -> <<"identify_1", "Waiting2">>
    [] s = "Ident2" -> <<"identify_2", "Ident3">>
    [] s = "Ident3" -> <<"identify_3", "Ident5">>
    [] s = "Ident4" -> <<"identify_4", "Waiting5">>
    [] s = "Ident5" -> <<"identify_5", "Auth">>

\* tick_xbox_one: the packet of the handshake that is due, and the next state.
Due(s) ==
  CASE s = "Announce" -> <<"announce", "Waiting1">>
    [] s = "Ident1" -> <<"identify_1", "Waiting2">>
    [] s = "Ident2" -> <<"identify_2", "Ident3">>
    [] s = "Ident3" -> <<"identify_3", "Ident4">>
    [] s = "Ident4" -> <<"identify_4", "Waiting5">>
    [] s = "Ident5" -> <<"identify_5", "Auth">>

HandshakeDue ==
  /\ consoleType = "XBOXONE"
  /\ xbox_one_state \in {"Announce", "Ident1", "Ident2", "Ident3", "Ident4", "Ident5"}

RelayDue == xbox_one_state = "Auth" /\ controllerSize

\* The report kept for the controller is sent to it, or dropped.
ToController ==
  /\ delivered' = IF consoleSize /\ Accepts(xone) THEN Append(delivered, fromConsole)
                  ELSE delivered
  /\ busy' = IF consoleSize /\ Accepts(xone) THEN busy \cup {xone} ELSE busy
  /\ consoleSize' = FALSE /\ patched' = FALSE

\* tick_usb with the endpoint ready: a packet of the handshake, else a relayed report,
\* else the inputs.
Tick ==
  /\ mounted /\ ~sending
  /\ ToController
  /\ IF HandshakeDue
       THEN /\ shown' = Append(shown, Due(xbox_one_state)[1])
            /\ xbox_one_state' = Due(xbox_one_state)[2]
            /\ UNCHANGED <<relayed, controllerSize>>
       ELSE /\ relayed' = IF RelayDue THEN Append(relayed, fromController) ELSE relayed
            /\ controllerSize' = IF RelayDue THEN FALSE ELSE controllerSize
            /\ UNCHANGED <<shown, xbox_one_state>>
  /\ sending' = TRUE
  /\ UNCHANGED <<bus, plugs, slots, inst_count, armed, devices, xone, x360, ps4,
                 outputs, lost, consoleType, mounted, resets, fromConsole, fromController,
                 xbox_360_state, nConsole, nController, marks>>

Next ==
  \/ BusReset \/ Configure \/ Polled
  \/ ConsoleAnswers \/ ConsoleAuth \/ ConsoleRumbles \/ ConsoleLeds
  \/ ConsoleRequest \/ Request83
  \/ \E a \in Addrs, k \in Kinds : Connect(a, k)
  \/ \E a \in Addrs : Disconnect(a) \/ Drain(a)
  \/ \E a \in Addrs, input \in BOOLEAN : ControllerReport(a, input)
  \/ Tick

\* loop() runs tick() and tud_task() for ever; a console that uses the device polls
\* it and answers it.
Spec ==
  /\ Init /\ [][Next]_vars
  /\ WF_vars(Tick) /\ WF_vars(Polled) /\ WF_vars(ConsoleAnswers)

-----------------------------------------------------------------------------
TypeOK ==
  /\ HostTypeOK
  /\ consoleType \in {"XBOXONE", "XBOX360", "PS4"}
  /\ mounted \in BOOLEAN /\ resets \in 0..MaxResets /\ sending \in BOOLEAN
  /\ xbox_one_state \in States /\ xbox_360_state \in {"Auth1", "Auth2", "Authenticated"}
  /\ {consoleSize, patched, controllerSize} \subseteq BOOLEAN
  /\ nConsole \in 0..MaxConsole /\ fromConsole \in 0..MaxConsole
  /\ nController \in 0..MaxController /\ fromController \in 0..MaxController
  /\ consoleBefore \in 0..MaxConsole /\ controllerBefore \in 0..MaxController
  /\ shown \in Seq({Handshake[i] : i \in 1..6})
  /\ relayed \in Seq(0..MaxController) /\ delivered \in Seq(0..MaxConsole)

Increasing(s) == \A i, j \in 1..Len(s) : i < j => s[i] < s[j]

\* Between one configuration and the next the console is sent the handshake packets
\* in order and each once; the device relays authentication, or takes it as
\* succeeded, only after the whole handshake.
HandshakeInOrder ==
  /\ Len(shown) <= Len(Handshake) /\ shown = SubSeq(Handshake, 1, Len(shown))
  /\ consoleType = "XBOXONE" /\ xbox_one_state \in {"Auth", "Ready"} =>
       ~mounted \/ shown = Handshake
  /\ consoleSize \/ controllerSize => ~mounted \/ shown = Handshake

\* Whatever is lost in the two buffers, no report of the console reaches the
\* controller twice or after a later one, and none of the controller the console; and
\* none that was kept before the console's last device_reset is relayed after it, or
\* waits to be.
RelayInOrder ==
  /\ Increasing(delivered) /\ Increasing(relayed)
  /\ \A i \in 1..Len(delivered) : delivered[i] > consoleBefore
  /\ \A i \in 1..Len(relayed) : relayed[i] > controllerBefore
  /\ consoleSize => /\ fromConsole > consoleBefore
                    /\ \A i \in 1..Len(delivered) : delivered[i] < fromConsole
  /\ controllerSize => /\ fromController > controllerBefore
                       /\ \A i \in 1..Len(relayed) : relayed[i] < fromController

\* A console that goes on polling and answering the device brings it to the
\* authentication, whatever is plugged in and out meanwhile, unless it resets it.
HandshakeEnds ==
  (mounted /\ consoleType = "XBOXONE") ~> (~mounted \/ xbox_one_state \in {"Auth", "Ready"})
=============================================================================
