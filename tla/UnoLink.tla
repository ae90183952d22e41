------------------------------- MODULE UnoLink -------------------------------
(***************************************************************************)
(* The Arduino Uno bridge, byte by byte.                                   *)
(*                                                                         *)
(* The 8u2 writes a packet into its ring and spins in handleControlRequest *)
(* or handleControllerData, parsing whatever the 328p sends.  The 328p has *)
(* ONE buffer, buf: its receive interrupt fills it, loop() reads the       *)
(* packet and builds the answer in it, and the transmit interrupt sends    *)
(* the answer out of it, all without a lock.  Suspend and resume           *)
(* interrupts on the 8u2 (write_ready) send a USB_READY packet that nobody *)
(* waits for.                                                              *)
(*                                                                         *)
(* Bytes are numbers; lengths count the bytes of this model's packets,     *)
(* whose payloads are cut down to what the framing depends on: a setup     *)
(* packet is its direction and wLength, a descriptor is the console type   *)
(* it was built for.                                                       *)
(***************************************************************************)
EXTENDS Naturals, Sequences, FiniteSets

CONSTANTS
  Consoles,    \* console types, as DEVICE_ID sends them
  Universal,   \* CONSOLE_TYPE, the type the 328p boots with
  DataBytes,   \* what payload bytes may be
  MaxReport,   \* bound: bytes of a controller report
  BufSize,     \* length of buf
  EventsRace,  \* whether suspend / resume interrupts come at any time
  MaxSuspends  \* bound: suspend interrupts in a behaviour

ASSUME LinkAssumption ==
  /\ Universal \in Consoles
  /\ Consoles \cup DataBytes \subseteq 0..255
  /\ {MaxReport, BufSize, MaxSuspends} \subseteq Nat
  /\ EventsRace \in BOOLEAN

VARIABLES
  \* the 8u2
  pc8,         \* "idle" in the main loop, "parse" in one of the two readers
  cur,         \* id of the packet being answered
  setup,       \* USB_ControlRequest: direction and wLength
  hstate,      \* state of the reader's parser
  type,        \* id it read
  left,        \* bytes of payload it still has to read
  configured,  \* endpoints configured
  attached,    \* the last USB_READY it sent was TRUE
  suspends,    \* suspend interrupts so far
  \* the wires, each with the ring that feeds or drains it
  toMega, toHost,
  \* the 328p
  buf, idx, ready,     \* receive interrupt
  handling,            \* id loop() dispatched on, or 0
  idxTX, bufTX, uart,  \* transmit interrupt, and the UART's own registers
  consoleType, should_reload_usb, usb_ready,
  \* history
  seen,        \* types shown to the host since the device attached
  answer       \* what the 328p last answered, as the bridge sees it

vars8 == <<pc8, cur, setup, hstate, type, left, configured, attached, suspends>>
rxVars == <<buf, idx, ready>>
txVars == <<idxTX, bufTX, uart>>
detectVars == <<consoleType, should_reload_usb, usb_ready>>
vars == <<vars8, toMega, toHost, rxVars, handling, txVars, detectVars, seen, answer>>

-----------------------------------------------------------------------------
(* packets.h *)

USB_READY    == 100
VALID_PACKET == 20
VALIDATION   == 113
RESTART      == 115
TRANSMIT     == 117
REQUEST      == 118
DESCRIPTOR   == 119
CONTROL      == 120
DEVICE       == 121

HeaderLen == 3
H2D == 33    \* bmRequestType of a class request to the device
D2H == 161   \* ... and of one to the host

Packet(id, payload) == <<VALID_PACKET, id, HeaderLen + Len(payload)>> \o payload

Payloads(n) == UNION {[1..k -> DataBytes] : k \in 0..n}

Min2(a, b) == IF a < b THEN a ELSE b

-----------------------------------------------------------------------------

\* What the bridge calls the packet ids.
IdName(b) ==
  CASE b = VALIDATION -> "CONTROL_REQUEST_VALIDATION_ID"
    [] b = CONTROL    -> "CONTROL_REQUEST_ID"
    [] b = DESCRIPTOR -> "DESCRIPTOR_ID"
    [] b = DEVICE     -> "DEVICE_ID"
    [] b = REQUEST    -> "CONTROLLER_DATA_REQUEST_ID"
    [] b = TRANSMIT   -> "CONTROLLER_DATA_TRANSMIT_ID"
    [] b = RESTART    -> "CONTROLLER_DATA_RESTART_USB_ID"

Requests == {VALIDATION, CONTROL, DESCRIPTOR, DEVICE, REQUEST, TRANSMIT}

TypeOK ==
  /\ pc8 \in {"idle", "parse"}
  /\ cur \in Requests
  /\ setup \in {H2D, D2H} \X {0, 1}
  /\ hstate \in {"NO_PACKET", "READ_PACKET_TYPE", "READ_LENGTH", "READ_AND_RETURN", "DATA"}
  /\ type \in 0..255 /\ left \in 0..255
  /\ configured \in BOOLEAN /\ attached \in BOOLEAN
  /\ suspends \in 0..MaxSuspends
  /\ toMega \in Seq(0..255) /\ toHost \in Seq(0..255)
  /\ buf \in [0..BufSize - 1 -> 0..255]
  /\ idx \in 0..BufSize
  /\ ready \in BOOLEAN
  /\ handling \in {0} \cup Requests
  /\ idxTX \in 0..255 /\ bufTX \in 0..BufSize
  /\ uart \in Seq(0..255) /\ Len(uart) <= 2
  /\ consoleType \in Consoles
  /\ should_reload_usb \in BOOLEAN /\ usb_ready \in BOOLEAN
  /\ seen \subseteq Consoles
  /\ answer.console \in Consoles

Init ==
  /\ pc8 = "idle" /\ cur = DESCRIPTOR /\ setup = <<D2H, 0>>
  /\ hstate = "NO_PACKET" /\ type = 0 /\ left = 0
  /\ configured = FALSE /\ attached = FALSE /\ suspends = 0
  /\ toMega = <<>> /\ toHost = <<>>
  /\ buf = [i \in 0..BufSize - 1 |-> 0] /\ idx = 0 /\ ready = FALSE
  /\ handling = 0
  /\ idxTX = 0 /\ bufTX = 0 /\ uart = <<>>
  /\ consoleType = Universal /\ should_reload_usb = FALSE /\ usb_ready = FALSE
  /\ seen = {}
  /\ answer = [id |-> "DESCRIPTOR_ID", valid |-> FALSE, console |-> Universal]

-----------------------------------------------------------------------------
(* The 8u2: requests. *)

\* The 328p has taken every byte sent to it and is not busy with one.
MegaQuiet == toMega = <<>> /\ idx = 0 /\ ~ready /\ handling = 0

\* Write a packet, store the write pointer, and start parsing from the read
\* pointer (WRITE_ARRAY_TO_BUF, FINISH_WRITE, INIT_TMP_SERIAL_TO_USB).
Ask(id, payload) ==
  /\ toMega' = toMega \o Packet(id, payload)
  /\ pc8' = "parse" /\ cur' = id
  /\ hstate' = "NO_PACKET"

\* The host reaches a device that is awake, and after waking it leaves it its
\* resume time, unless EventsRace.
Poll ==
  /\ pc8 = "idle" /\ attached
  /\ EventsRace \/ MegaQuiet
  /\ UNCHANGED <<type, left, configured, attached, suspends, toHost, rxVars,
                 handling, txVars, detectVars, seen, answer>>

RequestReport == Poll /\ configured /\ Ask(REQUEST, <<>>) /\ UNCHANGED setup

TransmitReport(d) == Poll /\ configured /\ Ask(TRANSMIT, <<d>>) /\ UNCHANGED setup

\* GET_DESCRIPTOR, with the wLength the host asked for.
GetDescriptor == Poll /\ Ask(DESCRIPTOR, <<1>>) /\ setup' = <<D2H, 1>>

\* SET_CONFIGURATION has no data stage.
ConfigurationChanged == Poll /\ Ask(DEVICE, <<>>) /\ setup' = <<H2D, 0>>

\* A class or vendor request: does the 328p want it?
ControlRequest(dir, wLength) ==
  Poll /\ Ask(VALIDATION, <<dir, wLength>>) /\ setup' = <<dir, wLength>>

\* write_ready, called in the resume and the suspend interrupt (LUFA's Connect and
\* Disconnect events on these chips).
WriteReady(up) ==
  /\ EventsRace \/ (pc8 = "idle" /\ MegaQuiet)
  /\ attached' = up
  /\ toMega' = toMega \o Packet(USB_READY, <<IF up THEN 1 ELSE 0>>)
  /\ UNCHANGED <<pc8, cur, setup, hstate, type, left, configured, toHost, rxVars,
                 handling, txVars, detectVars, seen, answer>>

Connect == ~attached /\ WriteReady(TRUE) /\ UNCHANGED suspends

Disconnect ==
  /\ attached /\ suspends < MaxSuspends
  /\ WriteReady(FALSE)
  /\ suspends' = suspends + 1

\* The host resets the bus and enumerates again.  The interrupt comes at any time,
\* but the host is assumed to let a control transfer finish.
BusReset ==
  /\ pc8 = "idle" \/ cur \in {REQUEST, TRANSMIT}
  /\ configured' = FALSE /\ seen' = {}
  /\ UNCHANGED <<pc8, cur, setup, hstate, type, left, attached, suspends, toMega,
                 toHost, rxVars, handling, txVars, detectVars, answer>>

\* COMMAND_REBOOT: both processors are reset.
Reboot ==
  /\ pc8 = "idle"
  /\ configured' = FALSE /\ attached' = FALSE /\ seen' = {}
  /\ hstate' = "NO_PACKET" /\ type' = 0 /\ left' = 0
  /\ toMega' = <<>> /\ toHost' = <<>>
  /\ buf' = [i \in 0..BufSize - 1 |-> 0] /\ idx' = 0 /\ ready' = FALSE
  /\ handling' = 0
  /\ idxTX' = 0 /\ bufTX' = 0 /\ uart' = <<>>
  /\ consoleType' = Universal /\ should_reload_usb' = FALSE /\ usb_ready' = FALSE
  /\ UNCHANGED <<pc8, cur, setup, suspends, answer>>

-----------------------------------------------------------------------------
(* The 8u2: the two readers. *)

\* The request is one the host writes the data of.
HostToDev == setup[1] = H2D

InControl == cur \notin {REQUEST, TRANSMIT}

\* READ_BYTE_FROM_BUF after WAIT_FOR_BYTES(1).
ReadByte(state) ==
  /\ pc8 = "parse" /\ hstate = state
  /\ toHost # <<>>
  /\ toHost' = Tail(toHost)

rest8 == <<rxVars, handling, txVars, detectVars, answer>>

\* Bytes before a VALID_PACKET are skipped.
ReadMagic ==
  /\ ReadByte("NO_PACKET")
  /\ hstate' = IF Head(toHost) = VALID_PACKET THEN "READ_PACKET_TYPE" ELSE "NO_PACKET"
  /\ UNCHANGED <<pc8, cur, setup, type, left, configured, attached, suspends, toMega,
                 seen, rest8>>

ReadType ==
  /\ ReadByte("READ_PACKET_TYPE")
  /\ type' = Head(toHost)
  /\ hstate' = "READ_LENGTH"
  /\ UNCHANGED <<pc8, cur, setup, left, configured, attached, suspends, toMega,
                 seen, rest8>>

\* The length byte of a packet with a payload to read.
ReadLength ==
  /\ ReadByte("READ_LENGTH")
  /\ left' = Head(toHost)
  /\ IF InControl
     THEN \/ type \in {VALIDATION, DEVICE} /\ hstate' = "READ_AND_RETURN"
          \/ type \notin {VALIDATION, DEVICE, RESTART} /\ ~HostToDev /\ hstate' = "DATA"
     ELSE type # TRANSMIT /\ hstate' = "DATA"
  /\ UNCHANGED <<pc8, cur, setup, type, configured, attached, suspends, toMega,
                 seen, rest8>>

\* The length byte of a packet nothing more is expected of.
ReadLengthDone ==
  /\ ReadByte("READ_LENGTH")
  /\ \/ InControl /\ HostToDev /\ type \notin {VALIDATION, DEVICE, RESTART}
     \/ ~InControl /\ type = TRANSMIT
  /\ pc8' = "idle"
  /\ UNCHANGED <<cur, setup, hstate, type, left, configured, attached, suspends,
                 toMega, seen, rest8>>

\* A RESTART: the 8u2 reboots with COMMAND_SKIP_WAIT, which empties its rings,
\* detaches the device and leaves the 328p running.
ReadLengthRestart ==
  /\ ReadByte("READ_LENGTH")
  /\ InControl /\ type = RESTART
  /\ pc8' = "idle"
  /\ hstate' = "NO_PACKET" /\ type' = 0 /\ left' = 0
  /\ configured' = FALSE /\ attached' = FALSE /\ seen' = {}
  /\ toMega' = <<>>
  /\ UNCHANGED <<cur, setup, suspends, rest8>>

\* STATE_READ_AND_RETURN: one byte is the answer.  A request the 328p accepts is
\* sent to it at once, with the data the host wrote.
ReadAnswer ==
  /\ ReadByte("READ_AND_RETURN")
  /\ LET data == Head(toHost) IN
     IF cur = VALIDATION /\ data # 0
     THEN /\ \E d \in [1..(IF HostToDev THEN setup[2] ELSE 0) -> DataBytes] :
               Ask(CONTROL, setup \o d)
          /\ UNCHANGED <<configured, seen>>
     ELSE /\ pc8' = "idle"
          /\ configured' = (configured \/ cur = DEVICE)
          /\ seen' = IF cur = DEVICE THEN seen \cup {data} ELSE seen
          /\ UNCHANGED <<toMega, cur, hstate>>
  /\ UNCHANGED <<setup, type, left, attached, suspends, rest8>>

\* Broken variant of ReadPayload: the rest of a transfer that the host ends early
\* is left in the ring.
ReadPayloadUndrained ==
  /\ pc8 = "parse" /\ hstate = "DATA"
  /\ Len(toHost) >= left
  /\ \E n \in 0..left : toHost' = SubSeq(toHost, n + 1, Len(toHost))
  /\ pc8' = "idle"
  /\ seen' = IF cur = DESCRIPTOR /\ left > 0 THEN seen \cup {toHost[1]} ELSE seen
  /\ UNCHANGED <<cur, setup, hstate, type, left, configured, attached, suspends,
                 toMega, rest8>>

\* Broken variant of ReadPayload: it waits for one byte more than the payload has.
ReadPayloadWaitsOneMore ==
  /\ pc8 = "parse" /\ hstate = "DATA"
  /\ Len(toHost) > left
  /\ toHost' = SubSeq(toHost, left + 1, Len(toHost))
  /\ pc8' = "idle"
  /\ seen' = IF cur = DESCRIPTOR /\ left > 0 THEN seen \cup {toHost[1]} ELSE seen
  /\ UNCHANGED <<cur, setup, hstate, type, left, configured, attached, suspends,
                 toMega, rest8>>

\* WAIT_FOR_BYTES(packetCount), then the payload goes to the endpoint.  A host
\* that ends the transfer early leaves the rest to be read and dropped.
ReadPayload ==
  /\ pc8 = "parse" /\ hstate = "DATA"
  /\ Len(toHost) >= left
  /\ toHost' = SubSeq(toHost, left + 1, Len(toHost))
  /\ pc8' = "idle"
  /\ seen' = IF cur = DESCRIPTOR /\ left > 0 THEN seen \cup {toHost[1]} ELSE seen
  /\ UNCHANGED <<cur, setup, hstate, type, left, configured, attached, suspends,
                 toMega, rest8>>

-----------------------------------------------------------------------------
(* The 328p. *)

rest3 == <<vars8, toHost, seen>>

\* Broken variant of Receive: idx is not reset when a packet is complete.
ReceiveWithoutReset ==
  /\ toMega # <<>>
  /\ idx < BufSize
  /\ LET b == Head(toMega)
         stored == [buf EXCEPT ![idx] = b]
         started == idx > 0 \/ b = VALID_PACKET
         complete == started /\ idx + 1 >= HeaderLen /\ stored[2] = idx + 1
     IN /\ buf' = stored
        /\ idx' = IF started THEN idx + 1 ELSE 0
        /\ ready' = (ready \/ complete)
  /\ toMega' = Tail(toMega)
  /\ UNCHANGED <<rest3, handling, txVars, detectVars, answer>>

\* ISR(USART_RX_vect): a packet is complete when its length byte says so.
Receive ==
  /\ toMega # <<>>
  /\ idx < BufSize
  /\ LET b == Head(toMega)
         stored == [buf EXCEPT ![idx] = b]
         started == idx > 0 \/ b = VALID_PACKET
         complete == started /\ idx + 1 >= HeaderLen /\ stored[2] = idx + 1
     IN /\ buf' = stored
        /\ idx' = IF started /\ ~complete THEN idx + 1 ELSE 0
        /\ ready' = (ready \/ complete)
  /\ toMega' = Tail(toMega)
  /\ UNCHANGED <<rest3, handling, txVars, detectVars, answer>>

\* A handler, or the tick() of an idle loop(), detects a console: consoleType is
\* assigned and reset_usb() called.
Detect(c) ==
  /\ (handling = 0 /\ ~ready) \/ handling \in {REQUEST, TRANSMIT, CONTROL}
  /\ consoleType' = c /\ should_reload_usb' = TRUE
  /\ UNCHANGED <<rest3, toMega, rxVars, handling, txVars, usb_ready, answer>>

\* Broken variant of Dispatch: the state is read one byte too far.
DispatchWrongByte ==
  /\ ready /\ handling = 0
  /\ ready' = FALSE
  /\ handling' = IF buf[1] \in Requests THEN buf[1] ELSE 0
  /\ usb_ready' = IF buf[1] = USB_READY THEN buf[4] # 0 ELSE usb_ready
  /\ buf' = IF buf[1] \in {REQUEST, TRANSMIT} THEN [buf EXCEPT ![2] = 0] ELSE buf
  /\ UNCHANGED <<rest3, toMega, idx, txVars, consoleType, should_reload_usb, answer>>

\* loop() finds a packet: ready is cleared first, then the switch is taken.
\* USB_READY and unknown ids return without an answer.
Dispatch ==
  /\ ready /\ handling = 0
  /\ ready' = FALSE
  /\ handling' = IF buf[1] \in Requests THEN buf[1] ELSE 0
  /\ usb_ready' = IF buf[1] = USB_READY THEN buf[3] # 0 ELSE usb_ready
  /\ buf' = IF buf[1] \in {REQUEST, TRANSMIT} THEN [buf EXCEPT ![2] = 0] ELSE buf
  /\ UNCHANGED <<rest3, toMega, idx, txVars, consoleType, should_reload_usb, answer>>

\* buf with a payload written behind the header and the length set.
Written(payload, len) ==
  [i \in DOMAIN buf |-> IF i = 2 THEN len
                        ELSE IF i - HeaderLen \in 0..Len(payload) - 1
                             THEN payload[i - HeaderLen + 1] ELSE buf[i]]

\* The answers the handler of "handling" may leave in buf.  send_report_to_pc
\* adds to the length it finds; a control request is cut to wLength, and one to
\* the device (SET_REPORT 0x03F4) may claim a byte that it does not write.
HandlerResults ==
  CASE handling = REQUEST    -> {Written(p, buf[2] + Len(p)) : p \in Payloads(MaxReport)}
    [] handling = TRANSMIT   -> {[buf EXCEPT ![2] = 0]}
    [] handling = DESCRIPTOR -> {Written(<<consoleType>>, Min2(1, buf[3]))}
    [] handling = VALIDATION -> {Written(<<v>>, 1) : v \in {0, 1}}
    [] handling = DEVICE     -> {Written(<<consoleType>>, 1)}
    [] handling = CONTROL    ->
         IF buf[3] = H2D THEN {[buf EXCEPT ![2] = Min2(n, buf[4])] : n \in {0, 1}}
         ELSE {Written(p, Min2(Len(p), buf[4])) : p \in Payloads(1)}

\* Broken variant of Complete: the restart is not taken off the list.
CompleteReloadKept ==
  /\ handling # 0
  /\ \E b \in HandlerResults :
       LET id == IF should_reload_usb THEN RESTART ELSE b[1] IN
       /\ buf' = IF should_reload_usb THEN [b EXCEPT ![1] = RESTART, ![2] = 0] ELSE b
       /\ answer' = [id |-> IF id \in Requests \cup {RESTART} THEN IdName(id) ELSE "unknown",
                     valid |-> handling = VALIDATION /\ b[3] # 0,
                     console |-> consoleType]
  /\ idxTX' = (buf'[2] + HeaderLen) % 256 /\ bufTX' = 0
  /\ handling' = 0
  /\ UNCHANGED <<rest3, toMega, idx, ready, uart, consoleType, should_reload_usb, usb_ready>>

\* The end of loop(): a wanted restart replaces the answer, and the transmit
\* interrupt is enabled.
Complete ==
  /\ handling # 0
  /\ \E b \in HandlerResults :
       LET id == IF should_reload_usb THEN RESTART ELSE b[1] IN
       /\ buf' = IF should_reload_usb THEN [b EXCEPT ![1] = RESTART, ![2] = 0] ELSE b
       /\ answer' = [id |-> IF id \in Requests \cup {RESTART} THEN IdName(id) ELSE "unknown",
                     valid |-> handling = VALIDATION /\ b[3] # 0,
                     console |-> consoleType]
  /\ should_reload_usb' = FALSE
  /\ idxTX' = (buf'[2] + HeaderLen) % 256 /\ bufTX' = 0
  /\ handling' = 0
  /\ UNCHANGED <<rest3, toMega, idx, ready, uart, consoleType, usb_ready>>

\* ISR(USART_UDRE_vect) loads the next byte into the UART, which holds one byte
\* and shifts another.
Load ==
  /\ idxTX > 0 /\ Len(uart) < 2
  /\ bufTX < BufSize
  /\ uart' = Append(uart, buf[bufTX])
  /\ idxTX' = idxTX - 1 /\ bufTX' = bufTX + 1
  /\ UNCHANGED <<rest3, toMega, rxVars, handling, detectVars, answer>>

\* A byte has been shifted out and the 8u2's receive interrupt stores it.  The
\* transmit interrupt is served within the time of a byte, so the next one is
\* loaded by then.
Shift ==
  /\ uart # <<>>
  /\ Len(uart) = 2 \/ idxTX = 0
  /\ toHost' = Append(toHost, Head(uart))
  /\ uart' = Tail(uart)
  /\ UNCHANGED <<vars8, seen, toMega, rxVars, handling, idxTX, bufTX, detectVars, answer>>

-----------------------------------------------------------------------------

Reader == ReadMagic \/ ReadType \/ ReadLength \/ ReadLengthDone \/ ReadLengthRestart
          \/ ReadAnswer \/ ReadPayload

Next ==
  \/ RequestReport
  \/ \E d \in DataBytes : TransmitReport(d)
  \/ GetDescriptor
  \/ ConfigurationChanged
  \/ \E dir \in {H2D, D2H}, w \in {0, 1} : ControlRequest(dir, w)
  \/ Connect \/ Disconnect \/ BusReset \/ Reboot
  \/ Reader
  \/ Receive \/ Dispatch \/ Complete \/ Load \/ Shift
  \/ \E c \in Consoles : Detect(c)

Spec == Init /\ [][Next]_vars

\* Both processors keep running and the wires keep moving; the host and the
\* detection of consoles owe nobody anything.
FairSpec ==
  /\ Spec
  /\ WF_vars(Reader)
  /\ WF_vars(Receive) /\ WF_vars(Dispatch) /\ WF_vars(Complete)
  /\ WF_vars(Load) /\ WF_vars(Shift)

-----------------------------------------------------------------------------
(* Properties. *)

\* What the 8u2 parses as a packet is the answer to the packet it sent, or a
\* RESTART: left-over bytes, payload bytes that look like VALID_PACKET and
\* answers to earlier packets never pass for it (the readers do not compare the
\* id they read with the one they asked).
PairedReply ==
  (pc8 = "parse" /\ hstate \in {"READ_LENGTH", "READ_AND_RETURN", "DATA"})
    => type \in {cur, RESTART}

\* The receive interrupt leaves the shared buffer alone from the moment a packet
\* is complete until the last byte of its answer has been loaded.
BufferExclusive ==
  /\ (ready \/ handling # 0 \/ idxTX > 0) => idx = 0
  /\ ready => handling = 0 /\ idxTX = 0

\* Between two exchanges the bytes still to be skipped cannot be taken for the
\* start of a packet.
StrayHarmless ==
  pc8 = "idle" =>
    \A i \in 1..Len(toHost \o uart) : (toHost \o uart)[i] # VALID_PACKET

\* A host that is attached is known to be: once a USB_READY packet has been
\* taken, the 328p agrees with the 8u2 that the bus is up.
AttachedKnown == (attached /\ MegaQuiet /\ pc8 = "idle") => usb_ready

\* The handlers of main.c "wait for and process the response from the 328p",
\* and it comes.
ResponseArrives == pc8 = "parse" ~> pc8 = "idle"

\* Where the exchange is, and what was asked, as the bridge sees it.
Phase == IF pc8 = "idle" THEN "idle" ELSE IF MegaQuiet THEN "answered" ELSE "requested"
Asked == IdName(cur)

Bridge == INSTANCE UnoBridge WITH phase <- Phase, req <- Asked, reply <- answer

\* The link implements the bridge.
BridgeSpec == Bridge!Spec
=============================================================================
