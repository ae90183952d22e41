------------------------------ MODULE UnoBridge ------------------------------
(***************************************************************************)
(* The promise of the Arduino Uno bridge, packet by packet.                *)
(*                                                                         *)
(* On an Uno the USB connector is driven by an ATmega8U2 / 16U2, which     *)
(* knows nothing of game controllers: it turns every USB request into a    *)
(* packet for the ATmega328p and waits for the packet that answers it.     *)
(* The 328p detects the kind of console it is plugged into (consoleType)   *)
(* and, when it changes its mind, wants the USB device to disappear and    *)
(* enumerate again under the new identity: reset_usb() sets a flag, and    *)
(* the next answer is replaced by a RESTART packet.                        *)
(*                                                                         *)
(* One exchange is outstanding at any time, so the link is a single slot   *)
(* that goes "idle" -> "requested" -> "answered" -> "idle".  UnoLink       *)
(* implements this specification byte by byte.                             *)
(***************************************************************************)
EXTENDS Naturals, FiniteSets

CONSTANTS
  Consoles,   \* the console types of defines.h that a build can switch between
  Universal   \* CONSOLE_TYPE, the type the 328p boots with

ASSUME ConsolesAssumption == Universal \in Consoles

VARIABLES
  phase,              \* where the outstanding exchange is
  req,                \* header.id of the request last sent
  reply,              \* what the 328p answered
  consoleType,        \* 328p: the console detected
  should_reload_usb,  \* 328p: a restart of the USB side is wanted
  configured,         \* 8u2: the endpoints have been configured
  seen                \* host: the types it was shown since the device attached

vars == <<phase, req, reply, consoleType, should_reload_usb, configured, seen>>

-----------------------------------------------------------------------------
(* Packet identifiers of packets.h. *)

RESTART == "CONTROLLER_DATA_RESTART_USB_ID"

\* Answered by handleControlRequest.
ControlIds == {"CONTROL_REQUEST_VALIDATION_ID", "CONTROL_REQUEST_ID",
               "DESCRIPTOR_ID", "DEVICE_ID"}

\* Answered by handleControllerData.
DataIds == {"CONTROLLER_DATA_REQUEST_ID", "CONTROLLER_DATA_TRANSMIT_ID"}

\* The two requests whose answer depends on consoleType, and so shows the host
\* (the descriptors) or the 8u2 (the endpoints' layout) an identity.
IdentityIds == {"DESCRIPTOR_ID", "DEVICE_ID"}

\* "valid" is the answer to a validation, "console" the type in force when the
\* answer was built.
Replies == [id : ControlIds \cup DataIds \cup {RESTART},
            valid : BOOLEAN, console : Consoles]

TypeOK ==
  /\ phase \in {"idle", "requested", "answered"}
  /\ req \in ControlIds \cup DataIds
  /\ reply \in Replies
  /\ consoleType \in Consoles
  /\ should_reload_usb \in BOOLEAN
  /\ configured \in BOOLEAN
  /\ seen \in SUBSET Consoles

Init ==
  /\ phase = "idle"
  /\ req = "DESCRIPTOR_ID"
  /\ reply = [id |-> "DESCRIPTOR_ID", valid |-> FALSE, console |-> Universal]
  /\ consoleType = Universal
  /\ should_reload_usb = FALSE
  /\ configured = FALSE
  /\ seen = {}

-----------------------------------------------------------------------------
(* The 8u2. *)

\* The main loop and the USB callbacks send one packet and then spin until it
\* is answered.  A CONTROL_REQUEST_ID only ever follows a validation
\* (ReceiveControl), and the endpoints serve data once they are configured.
Send(id) ==
  /\ phase = "idle"
  /\ id # "CONTROL_REQUEST_ID"
  /\ id \in DataIds => configured
  /\ phase' = "requested"
  /\ req' = id
  /\ UNCHANGED <<reply, consoleType, should_reload_usb, configured, seen>>

\* The 8u2 reboots with COMMAND_SKIP_WAIT: the device detaches from the host,
\* the 328p is not reset.
RestartUsb ==
  /\ phase' = "idle"
  /\ configured' = FALSE
  /\ seen' = {}
  /\ UNCHANGED <<req, reply, consoleType, should_reload_usb>>

\* Broken variant of ReceiveControl: the reader does not test for RESTART.
ReceiveControlIgnoringRestart ==
  /\ phase = "answered" /\ req \in ControlIds
  /\ phase' = "idle"
  /\ seen' = IF reply.id \in IdentityIds THEN seen \cup {reply.console} ELSE seen
  /\ configured' = (configured \/ reply.id = "DEVICE_ID")
  /\ UNCHANGED <<req, reply, consoleType, should_reload_usb>>

\* handleControlRequest reads the answer to a control-endpoint packet.
ReceiveControl ==
  /\ phase = "answered" /\ req \in ControlIds
  /\ \/ /\ reply.id = RESTART
        /\ RestartUsb
     \/ /\ reply.id # RESTART
        /\ req = "CONTROL_REQUEST_VALIDATION_ID" /\ reply.valid
        /\ phase' = "requested"
        /\ req' = "CONTROL_REQUEST_ID"
        /\ UNCHANGED <<reply, consoleType, should_reload_usb, configured, seen>>
     \/ /\ reply.id # RESTART
        /\ ~(req = "CONTROL_REQUEST_VALIDATION_ID" /\ reply.valid)
        /\ phase' = "idle"
        /\ seen' = IF req \in IdentityIds THEN seen \cup {reply.console} ELSE seen
        /\ configured' = (configured \/ req = "DEVICE_ID")
        /\ UNCHANGED <<req, reply, consoleType, should_reload_usb>>

\* handleControllerData reads the answer to an endpoint packet.  It compares
\* the type with CONTROLLER_DATA_TRANSMIT_ID and nothing else: a RESTART, whose
\* length is 0, is taken for an empty report.
ReceiveData ==
  /\ phase = "answered" /\ req \in DataIds
  /\ phase' = "idle"
  /\ UNCHANGED <<req, reply, consoleType, should_reload_usb, configured, seen>>

\* The host resets the bus and enumerates the device again.  The interrupt comes at
\* any time, but the host is assumed to let a control transfer finish.
BusReset ==
  /\ phase = "idle" \/ req \in DataIds
  /\ configured' = FALSE
  /\ seen' = {}
  /\ UNCHANGED <<phase, req, reply, consoleType, should_reload_usb>>

\* COMMAND_REBOOT from the host: the 8u2 restarts and resets the 328p.
Reboot ==
  /\ phase = "idle"
  /\ consoleType' = Universal
  /\ should_reload_usb' = FALSE
  /\ configured' = FALSE
  /\ seen' = {}
  /\ UNCHANGED <<phase, req, reply>>

-----------------------------------------------------------------------------
(* The 328p. *)

\* Somewhere in tick() or in the handler of a packet the console is detected:
\* consoleType is assigned and reset_usb() called.  The type may stay the same
\* (the PS4 seven-and-a-half-minute reconnect only calls reset_usb()).
Detect(c) ==
  /\ consoleType' = c
  /\ should_reload_usb' = TRUE
  /\ UNCHANGED <<phase, req, reply, configured, seen>>

\* Broken variant of Answer: descriptors and the device id are served even when
\* a restart is wanted.
AnswerIdentityFirst(valid) ==
  /\ phase = "requested"
  /\ phase' = "answered"
  /\ reply' = [id |-> IF should_reload_usb /\ req \notin IdentityIds THEN RESTART ELSE req,
               valid |-> valid, console |-> consoleType]
  /\ should_reload_usb' = (should_reload_usb /\ req \in IdentityIds)
  /\ UNCHANGED <<req, consoleType, configured, seen>>

\* The tail of loop(): the answer goes out, unless a restart is wanted.
Answer(valid) ==
  /\ phase = "requested"
  /\ phase' = "answered"
  /\ reply' = [id |-> IF should_reload_usb THEN RESTART ELSE req,
               valid |-> valid, console |-> consoleType]
  /\ should_reload_usb' = FALSE
  /\ UNCHANGED <<req, consoleType, configured, seen>>

Next ==
  \/ \E id \in ControlIds \cup DataIds : Send(id)
  \/ ReceiveControl
  \/ ReceiveData
  \/ BusReset
  \/ Reboot
  \/ \E c \in Consoles : Detect(c)
  \/ \E valid \in BOOLEAN : Answer(valid)

Spec == Init /\ [][Next]_vars

-----------------------------------------------------------------------------
(* Properties. *)

\* A restart of the USB side is on its way: wanted by the 328p, or in the
\* packet that the 8u2 has not read yet.
RestartPending ==
  \/ should_reload_usb
  \/ phase = "answered" /\ reply.id = RESTART

\* Until the endpoints are configured, every identity the host was shown is the
\* one in force, or a restart is pending: no detection made while the host
\* enumerates the device can be forgotten between the two processors
\* (main.cpp's reset_usb and loop, main.c's handleControlRequest).
DetectionSound ==
  ~configured => seen \subseteq {consoleType} \/ RestartPending

\* One enumeration shows one identity: the descriptors the host reads, and the
\* endpoints the 8u2 then configures from DEVICE_ID, are all of one console
\* type, even when detection changes it between two of these requests.
OneIdentity ==
  [][(~configured /\ seen' # {}) => \E c \in Consoles : seen' = {c}]_vars
=============================================================================
