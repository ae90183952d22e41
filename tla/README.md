# Ardwiino in TLA+

Ardwiino is firmware that turns an Arduino Uno, Micro or Pro Mini, a Pi Pico, a
Teensy or an ESP32 into a game controller for every console its authors own. Two
things in it are hard. One is the *protocol* around the reports: which console is at
the other end, how the device tells it a new identity, how it proves to be licensed,
and, on the Uno, how two processors that share nothing but a serial line do it
together. The other is the *way of a report*: from buttons, through debouncing and
comparison, over a radio or Bluetooth, merged with the reports of others, numbered,
into an endpoint that may be busy. This directory models both, checks them with TLC and
proves what can be proved with TLAPS.

    tlc -config MCUnoLink.cfg MCUnoLink      # any run of PROJECT.json
    tlapm Uno8u2_proofs.tla                  # any module *_proofs

## 1. Inventory

Paths are relative to `src/src/`, as the source tree is checked out under `src/`.

| component | state it keeps | operations | what is hard | what makes it correct |
|---|---|---|---|---|
| **Uno bridge** (`avr/uno/usb/main.c` on the 8u2/16u2, `avr/uno/main/main.cpp` on the 328p, `include/packets.h`) | 8u2: position of the reader, layout of the endpoints. 328p: one packet buffer `buf`, `idx`, `idx_tx`, `ready`, `should_reload_usb`, `consoleType` | one packet and its answer per USB request; RESTART; USB_READY | main program and interrupts on both chips, no locks, no timeouts, a shared buffer | every request gets its own answer; no console detected is forgotten; one identity per enumeration |
| **8u2 serial rings** (`main.c`, `serial_macros.h`) | two rings of 128 and 256 bytes, four pointers, UDRIE1 | write, publish, enable, send, flush | interrupt between two instructions | a FIFO of whole packets, nothing stale, nothing stuck |
| **8u2 modes** (`main.c`, `avr/lufa/reboot.c`, `include/commands.h`) | `bootloaderState` in RAM that survives a reset, `serial` | start, reset pulse, wait for READY, commands, baud-rate touches, DTR | crash and restart are the mechanism; a timeout races a boot | every mode asked for is reached once; a controller has a running 328p |
| **Console detection** (`shared/usb/descriptors.cpp`, `shared/hid/hid.cpp`, `shared/main/shared_main.cpp`, `console_detection.md`) | `consoleType`, `descriptor_requested`, `seen_non_wii_packet`, timers, `cleared_*` | control requests, descriptors, reports out, timers, buttons | every rule races a host's enumeration; state that survives a restart and state that does not | the console at the other end is found, and is not mistaken for another |
| **Micro, Teensy, Mini glue** (`avr/micro/main/main.cpp`, `avr/mini/main/main.cpp`, `teensy/`) | type and magic in `.noinit` RAM | restart into a new type; control requests in an interrupt | interrupt and main loop share `buf` | the type survives its own restart only |
| **Pico glue** (`pico/main.cpp`, `pico/xinput_device.cpp`, `pico/xinput_host.cpp`) | table of host devices, the class driver's interfaces, the endpoint, type in a scratch register | mount, unmount, vendor requests, reports both ways | callbacks of two stacks, a table that forgets | the table names the devices that are plugged in |
| **Console authentication** (`shared/main/shared_main.cpp`, `shared/hid/hid.cpp`) | `xbox_one_state`, `xbox_360_state`, two passthrough buffers | announce, describe, authenticate, relay to a real controller | a handshake over resets; two one-place buffers | each message relayed once, in order; authentication only after the handshake |
| **Input polling** (`avr/shared/io.c`, `shared/main/ps2.cpp`, `shared/main/wii.cpp`) | TWI state machine, PS2 controller type, ack flag | interrupt-driven transfers with timeouts | a late interrupt after a timeout | a transfer that timed out does not touch the next one |
| **Reports** (`shared/main/shared_main.cpp` `tick`, `tick_usb`, `tick_inputs`; `inputs/usb_host.h`; `include/reports/`) | `debounce`, `last_report_usb`, three sequence numbers, `lastXboxOneGuide` | debounce, build, merge, compare, number, send; GET_REPORT | two callers share the state; keystrokes and keyboards have several reports and one endpoint; merging depends on instrument, console and order | what is remembered as sent was sent; no number is skipped; what is held is shown in the end; what one player holds another does not undo |
| **RF** (`shared_main.cpp` `tick_rf_tx`, `tick_inputs` under RF_RX; `include/rf.h`, `avr/mini`) | `last_report_rf`, `last_rf_inputs`, the nRF24's FIFOs | inputs one way, ack payloads the other | loss, restarts, three callers that take packets out | the newest report reaches the receiver's table |
| **Bluetooth** (`pico/bt.cpp`, `pico/bt_rx.cpp`, `pico/main.cpp`) | `app_state`, one timer, `con_handle`, a one-place mailbox, `last_report_bt` | connect, pair, query, subscribe, reconnect; notify, read | BTstack's events in an interrupt of the loop | reconnects; the last report sent is shown |
| **ESP32, calibration arithmetic, descriptors, build scripts** | - | - | - | data, libraries and pure arithmetic |

How they interact: the host talks to the USB stack, which calls `controlRequest`,
`descriptorRequest`, `hid_set_report` (directly on the Pico, in an interrupt on the
Micro, through two packets on the Uno). Those, and `tick()` in the main loop, call
`set_console_type`, which calls `reset_usb`: a watchdog reset on the Micro, a
scratch register and a reset on the Pico, a flag and a RESTART packet on the Uno.
`tick()` calls `tick_usb` (or `tick_rf_tx`, or `tick_bluetooth`), which calls
`tick_inputs`, which takes packets from the radio or the mailbox or reads the host
table, and hands its report to the endpoint, the radio or BTstack. GET_REPORT calls
`tick_inputs` from the USB side.

## 2. Modules

| module | models | uses |
|---|---|---|
| `UnoBridge` | the bridge packet by packet: what it promises | - |
| `UnoLink` | the same byte by byte, with both chips' interrupts | implements `UnoBridge` |
| `ByteFifo` | a queue into which whole packets go and out of which bytes come | - |
| `SerialRing` | the 8u2's transmit ring, instruction by instruction | implements `ByteFifo` |
| `UnoModes` | both processors' lives: resets, modes, flashing | - |
| `ConsoleDetect` | the rules that assign `consoleType`, against the hosts they are for, on three boards | - |
| `TwiMaster` | the two-wire master of the AVR boards: calls, interrupt, wires | - |
| `PicoHost` | the Pico's host port: hub, class driver, table of devices, outputs | - |
| `XboxRelay` | the Pico as an Xbox One, 360 or PS4 controller | extends `PicoHost` |
| `Reports` | tick by tick, from buttons held to what a wired console believes | - |
| `RfLink` | transmitters, the radio, the receiver's table and reports | - |
| `BtLink` | transmitter, receiver's connection, mailbox and loop | - |
| `ReportLayouts` | which buttons and axes each instrument has in each console's report, and on the USB host port | - |
| `Ps3Convert` | `convert_ps3_to_type`: one transmitter's report added to the receiver's | extends `ReportLayouts` |
| `UsbHostConvert` | `inputs/usb_host.h`: one host device's report added to the report | extends `ReportLayouts` |
| `ReportMerge` | the two loops over controllers, call by call | extends both |
| `Uno8u2_proofs` | theorems about `SerialRing` and `UnoModes` (section 4) | extends both |
| `Inputs_proofs` | theorems about `TwiMaster` and `Reports` | extends both |
| `Receiver_proofs` | theorems about `RfLink` and `ReportMerge` | extends both |
| `UnoLink_proofs` | theorems about `UnoLink` | extends it, instantiates `UnoBridge_proofs` |
| other `..._proofs` | theorems about the module they are named after | extends it |
| `MC...` | instances for TLC | |

### UnoBridge

One exchange is outstanding at a time, so the link is one slot, `phase`. `Send` is
whatever makes the 8u2 write a packet (an endpoint that wants data, a descriptor, a
control request). `Answer` is one turn of `loop()` of the 328p: it takes the
request, handles it, and replaces the answer by RESTART if `should_reload_usb` is
set, clearing the flag (`main.cpp:125-128`). `ReceiveControl` and `ReceiveData` are
the two readers of `main.c`; only the first knows RESTART. `Detect` is
`set_console_type`, which may happen at any time, as it is called from `tick()`
too. `seen` is history: the identities the host was shown since it attached.

* `DetectionSound`: until the endpoints are configured, every identity the host was
  shown is the one in force, or a restart is pending: in the flag, or in the answer
  on the wire.
* `OneIdentity`: one enumeration shows the host one console type.

### UnoLink

A byte is a number, the wires are sequences. On the 8u2, `Ask` writes a packet;
`ReadMagic` ... `ReadPayload` are the states of the reader's `switch`, one byte per
step. On the 328p, `Receive` is `USART_RX_vect`, `Load` is `USART_UDRE_vect`,
`Dispatch` / `Complete` are the two halves of `loop()` around the handler, with the
receive interrupt in between. The UART holds one byte and shifts one (`uart`).
`Connect` and `Disconnect` are the resume and suspend interrupts, which send
USB_READY behind the main program's back. Payloads are cut to what the framing
depends on; a payload byte may be equal to VALID_PACKET, so that a reader that lost
its place would find a false header.

* `PairedReply`: what either reader takes for a packet answers what was asked, or is RESTART.
* `BufferExclusive`: from a complete packet to the last byte of its answer, the receive
  interrupt leaves `buf` alone.
* `StrayHarmless`: between two exchanges nothing on its way to the 8u2 can be taken for the
  start of a packet.
* `AttachedKnown`: when all is quiet, the 328p knows of a host that is attached.
* `ResponseArrives`: every packet is answered.
* `BridgeSpec`: refinement of `UnoBridge`. Of the mapping, `Phase` is "requested" until the
  328p has handled the packet and "answered" until the 8u2 has read the answer, and `Asked`
  is the request whose packet is under way.

### SerialRing

`Begin`, `WriteByte`, `Publish`, `Enable` are INIT_TMP, WRITE_BYTE_TO_BUF and the
two instructions of FINISH_WRITE; `SendByte` is `USART1_UDRE_vect`; `FlushRead`,
`FlushWrite`, `Reconfigure` the three points of SetLineEncoding that matter. `Window`
bounds the interrupts that are served between the two halves of FINISH_WRITE.
The queue of `ByteFifo` is what lies between the pointers (`FifoSpec`).

### UnoModes

`mode` is where the 8u2's `main()` is; `bootloaderState` the word in `.noinit` RAM.
`Start` takes the wish, `Pulse` resets the 328p, `ReadyReceived` / `GiveUp` end the
wait, `Command`, `Touch1200`, `Touch2400`, `RestartUsb` leave a wish and let the
watchdog bite, `LeaveDfu` and `PowerCycle` are the ways back. `owed` (history) is
what the host asked for and has not got; `pressed` (history) that the user has reset
the 328p under the 8u2.

### ConsoleDetect

`setup` says what is plugged into what: the board, the instrument it was built as, the
host, the button held, and whether the host is prompt (done with its script within the two
seconds that the rules for silent hosts wait; of a host that is not, the rules may be evaluated
between any two requests). A host is a script (`Script`) of the requests that tell hosts
apart, started over whenever the device reappears; a host of kind ANY sends anything.
`NewType` is every branch of `controlRequest` and `hid_set_report` that assigns
`consoleType`; `SilenceType` the two-second rules of `tick_usb`; `Hold` the buttons
(`TICK_DETECTION`, generated from the user's configuration); `Reconnect` the PS4's 450
seconds. `Note` is what a request leaves in RAM.

`reset_usb` is three programs. On the Micro and the Pico it is a reset that keeps the
type (`Boot`); on the Uno it sets the flag, and `Request` and `Poll` say what becomes of
it: the answer to a control request restarts the device, the answer to an endpoint packet
loses it. That is the behaviour of `UnoBridge`, one exchange per step. The clock has
three values: below 2 s, below 450 s, and above.

* `NeverMistaken`: on the way the device takes itself for nothing but what it will be; a host
  that is not prompt may be taken for a silent one (WII_RB or PS3), and for nothing else.
* `Recognised`: every prompt host is recognised, or gets what the user chose, for good, but
  for those named in `Unrecognised`. The first of these contradicts the code's own words:
  `shared_main.cpp:1963` says that the rule for gamepads is for the Wii, the Wii U and PADEMU,
  and `console_detection.md` the same, but line 1965 asks for `!descriptor_requested` and those
  hosts read descriptors, so that a gamepad (or a turntable) stays UNIVERSAL there. The others: PADEMU
  by a guitar or drums off the Pico (taken for a Wii, as only the Pico sees that it
  configures nothing), an Xbox One off the Pico (only the Pico announces itself again after
  a reset of the bus), a Switch by the Uno, whose 8u2 keeps standard requests to itself.
* `Shown`: again and again a prompt host has read the type in force, but for the setups of
  the Uno named in `Unseen`, where the RESTART has no answer to ride on: a host that stops
  talking, a button held, a packet for an endpoint (`main.c:139`), a PS4's 450 seconds.
* `FewChanges`: no host makes the device change its type more than three times.

### TwiMaster

`pc` says which of the two waits of `twi_readFrom` or `twi_writeTo` the main program is in,
`todo` the calls it still has to make: a read is the write of the pointer and then the read
(`ReadFromPointer`), a write is one call (`WriteToPointer`). `Start` sets the transfer up
and starts it; `Finish` and `GiveUp` are the ends of the waits. `Isr...` are the cases of
`TWI_vect`, one interrupt each; `Stopped` and `StopTimeout` are the two ends of `twi_stop`,
which waits inside the interrupt and holds up the main program. `bus` is the hardware, which
sends one thing at a time and raises its flag; the device (`AddressSent`, `ByteSent`,
`ByteReceived`) refuses what it likes and `Noise` breaks in anywhere. A byte is its position in
the transfer, so that a byte of another transfer, or a byte that is missing, shows. `got` and
`sent` are what the device has seen of the transfer; `dead` (history) that a stop condition
outlasted its timeout.

* `Faithful`: a write that returned true has reached the device whole; a read that returned
  true has the device's bytes from the first on. It need not have all of them: both functions
  return a `bool`, where the library this comes from returns a count, so that a read cut
  short by a disturbance is a success to the driver (the property says when).
* `CallsReturn`: whatever the wires do, the main program is not held up for ever.
* `Recovers`: if the wires move on, the driver is ready again and again, unless a stop
  condition has outlasted `TIMEOUT`; after that it never is, as no interrupt follows a stop
  condition and `twi_stop`'s result is not looked at.

### PicoHost and XboxRelay

`bus` is what is plugged into which address. `Plug` and `Unplug` are the host stack's
callbacks in the order `xinput_host.cpp` makes them: the interface's slot, the count of
instances (all of them on the first device), the entries of `usb_host_devices`, and the
three variables that remember the controller of each kind for the authentication. `OutDone`
is the end of a transfer to a controller, `StoreReport` a report from it; `Rumble`,
`PlayerLeds` and `Relay` are the outputs, each with the device it goes to (`outputs`, history)
and the address it was meant for.

`XboxRelay` adds the other side: `xbox_one_state` and the packets of the handshake (`Due`),
what the console's reports do to it (`ConsoleAnswers`, `ConsoleAuth`), the two buffers
of the relay, where a report is its number, and the endpoint. `Tick` is `tick_usb` when the
endpoint is ready, whole: what waits for the controller is sent or dropped, then a packet of
the handshake, else a relayed report, else the inputs. `BusReset` and `Configure` are the two
halves of a reset by the console.

`devices`, the table, is a sequence: `main.cpp:192` appends at `total_usb_host_devices` whether
the array reaches that far or not, and so does `Plug`.

* `KnownDevices`: while nothing behind the hub has been pulled out, the table's entries and
  the controllers remembered for the authentication are the devices that are plugged in
  (all of them, until a first one is unplugged), and the table stays in its array. Every
  output that is sent by address reaches a controller of the type it was made for; those sent
  by index (`PlayerLeds` and `Rumble` for a PS3 or PS4 controller, `hid.cpp:287`) never reach
  their entry's own, which is recorded as a hazard. After a device behind the hub is pulled out the
  table keeps what has gone, and plugging it in again makes it longer than the array.
* `HandshakeInOrder`: the packets of the handshake, in order and once each, before anything
  is relayed.
* `RelayInOrder`: no report of the authentication twice or after a later one, in either
  direction, and none that was kept before the console's last `device_reset` is relayed, or
  waits, after it (`consoleBefore` and `controllerBefore`, history, are the numbers at that
  reset).
* `HandshakeEnds`: a console that keeps polling and answering gets to the authentication.

### Reports

One tick is one action (`Tick`): the debounce timers are armed from the buttons held
(TICK_SHARED), the reports are built in the code's order, the first that differs from
`last_report_usb` is stored, numbered and put into the endpoint, or a keystroke returns
before any of that, or an empty packet is sent and, 5 ms later, one more pass only runs the
timers (`Quiet`). `GetReport` is the same function for a HID GET_REPORT: it counts and runs
timers but compares nothing. `Poke` switches a live guitar between its two kinds of report.
A report is the set of its buttons. The console keeps what it was told last.

* `RecordTrue`: what the firmware remembers as sent, the console was told or is about to
  be told (change detection rests on it).
* `WellNumbered`: in each series of packets, no number is repeated or left out. The two series
  of reports start at 1 after a reset and skip 0; keystrokes count through 0. (The number that
  a relayed report of a controller gives the series, `shared_main.cpp:2035-2037`, is outside
  of this module.)
* `EventuallyShown`: buttons held on to end up in what the console believes, and none else.

### RfLink

A report is a version, higher the newer; 0 is all zero. `TxTick` is `tick_rf_tx`: the
report is compared, remembered and written; the write may fail after its retries, and the
acknowledgement may bring a player LED. `TxRestart` announces the console type. Four callers
take a packet out of the receiver's radio, and each puts it into the table first (`Take`):
`RxTick` builds a report from the table and compares it with the last one, unless the receiver
is an Xbox One's and somebody's guide button moved, when a keystroke takes the report's place and
nothing is compared or remembered (`Process`, `GuideMoves`; `shared_main.cpp:1545-1552`);
`GetReport` builds its answer in a buffer of its own and compares nothing (`Answer`);
`RxTickNull` has no buffer, and as this build has no check for that (the wired one has, at 872) it
goes on to build a report at address 0 and reads the guide button back from there, so that
`lastXboxOneGuide` may be anything after it (`Swallow`). `RxTickEmpty` sends what the buffer held,
keystrokes included, as `size` is never set. `SetConsoleType` restarts the receiver if a
transmitter was built for another console.

* `NewestArrives`: the newest report whose write did not fail is on its way or in the table.
* `HostKnows`: the endpoint or the console has the last report compared, and that is the merge
  of the table unless a packet has been taken since by a keystroke, a GET_REPORT or a tick
  without a buffer (`behind`, history).
* `NeverGoesBack`: until the receiver restarts, no report shows the console an older state of a
  player than the one before it did, nor none.
* `HeldHeard`: once its writes stop failing, what a player holds stays in the table.

### BtLink

The receiver's states, its one timer and what it has asked BTstack for (`request`); each
action is an event of `packet_handler`, `sm_packet_handler`, `handle_gatt_client_event`
or a timeout. `ConnectionComplete` and `ConnectionFailed` are one event, whose status the code
does not read: the failure of an attempt, or the late end of one that the timeout cancelled
(`cancelled`), removes the timer and requests a pairing of nobody. `PairingComplete` has the
three groups of statuses of the `switch`. `LinkLost` is the radio, which breaks the link in the phases of `LossPhases`.
`TxTick` sends a report that changed, if anybody has subscribed and BTstack has room, and
remembers it in any case. `ReportSet` writes the mailbox in an interrupt, at any point of
`Take`, `CopyFirst`, `CopySecond`, `Process`, the reader; the mailbox and its copy are two
halves. On an Xbox One a report in which the guide button moved gives way to a keystroke
(`Process`, `shared_main.cpp:1755-1762`), and nothing sends the rest of it later. `taken`
(history) says the newest report was dropped, there or at one of the other places the property's
comment lists; `misled` (history) that the receiver took a failure for a success or for nothing.

* `NothingElseLost`: with nothing under way, the console has seen the newest report, whole,
  unless that very one was dropped.
* `ReconnectsIfSeen`: after the last fault the receiver is connected again and stays so
  (`Reconnects`), unless one of the three failures happened that the code does not see
  (`misled`; see section 3).

### ReportLayouts, Ps3Convert, UsbHostConvert, ReportMerge

A report is its buttons and its axes with their ranges, named as in the code's structs;
`ReportLayouts` says which instrument has which, for which console. `Ps3Convert` is one call
of `convert_ps3_to_type`, `UsbHostConvert` the code that each instrument's build includes
for a device in the host port: pairs of buttons that are copied, moves of axes with the
macro's arithmetic. `ReportMerge` is the loop: a behaviour is one call of `tick_inputs`
over two controllers, in both orders, from a blank report; `Overwrite` is a receiver's second
block on an Xbox One.

* `MergedButtons`: every button somebody holds is in the report, and no other is.
* `MergedAxes`: every axis stands on the side to which the last controller that claims it
  points, and at rest if none does.

Both properties are stated from the layouts alone and name their exceptions: `NotCarried`,
`Misses`, `LastOnly`, `Misread` are what this code leaves out, found while modelling (the
orange fret of a transmitter's guitar on an Xbox 360, the cymbals on an Xbox One, ten-bit
triggers on other consoles, ...). What the callers do to the report after the loop is not in it:
the swap of a and b for a Switch (1656) and a turntable's `tableNeutral` (1653). No text in the repository promises otherwise, so they are
exceptions and not findings.

## 3. Runs

| run | instance | states | shows |
|---|---|---|---|
| `bridge` | 3 console types | 10 thousand | `DetectionSound`, `OneIdentity` |
| `link` | 2 console types, suspends while the link is quiet | 1.1 million | the safety properties, the refinement `BridgeSpec` and `ResponseArrives` |
| `ring` | 6 slots, writes of 3 or 4 bytes, 3 interrupts in the window | 16 thousand | FIFO, nothing stale, nothing stuck |
| `modes` | 4 power cycles, ordinary RAM at power-up | 350 | `ControllerHasPeer`, `WishesServed`, `Settles` |
| `detect` | 748 setups, one bus reset or reboot at any time | 84 thousand | `NeverMistaken`, `Recognised`, `Shown`, `FewChanges` |
| `twi` | a buffer of 3, reads of 1 and 3, writes of 2 and 3 | 8 thousand | `Faithful`, `CallsReturn`, `Recovers` |
| `host` | 2 addresses, a table of 2, 3 plugs, 3 consoles, 2 reports each way, 1 reset | 1.5 million | `KnownDevices`, `HandshakeInOrder`, `RelayInOrder`, `HandshakeEnds` |
| `bt` | 2 inputs, one with the guide button, 3 changes, room for 2 notifications, 2 faults in any phase, one restart as an Xbox One's | 339 thousand | `NothingElseLost`, `ReconnectsIfSeen` |
| `bt_loss` | one fault, in any phase | - | **violation**: `Reconnects` (the finding) |
| `reports` | 6 kinds of controller, 3 buttons, numbers that wrap at 3, 1 reset | 784 thousand | `RecordTrue`, `WellNumbered`, `EventuallyShown` |
| `rf` | 2 transmitters, an Xbox One's receiver at first, FIFO of 3, 2 versions, 2 restarts, 1 LED | 2.2 million | `NewestArrives`, `HostKnows`, `NeverGoesBack`, `HeldHeard` |
| `merge` | every instrument and console, one moved control against a whole report, both orders | 460 thousand | `MergedButtons`, `MergedAxes` |

**Bounds, and why they are enough.** `bridge`: a third console type lets a detection
overtake another one that waits. `link`: two types (an identity and a wrong one),
reports and data stages of one byte (the framing reads a length and then counts; a
length of two repeats the step), a buffer of six bytes (the longest packet), one
suspend (more repeat it: the state after a resume differs from the one before only
in `suspends`). `ring`: six slots with writes of three and four put every write at
every offset, wrapped and not, and fill the ring to its last slot; the 128 slots of
the code repeat that, and the theorems hold for any size. `modes`: the state is
finite without `cycles`; four power cycles let each of the resets come first.
`detect`: one bus reset or reboot meets every point of every script, and the script
starts over, so that a second finds the states of the first; the instruments stand for
the four groups the rules distinguish (drums are guitars to them), and no setup is left out: the
exceptions are in the properties. `twi`: a buffer that a
transfer fills, and the lengths at both ends and between; the theorems hold for any.
`host`: two addresses let one be unplugged under the other and its slot be taken again by
the third plug, and a table of two be outgrown once a device behind the hub was pulled out; two
reports each way let one overwrite the other, or wait over a reset; the theorems hold for any
number. `bt`: two notifications let reports queue and the third change be the one for which
there is no room; two faults let the second meet the recovery from the first; one of two
inputs holds the guide button, so that a keystroke takes the place of a report that differs in more.
`reports`: numbers
that wrap at 3 wrap within a few packets; a timer of two ticks (three for a keyboard, of whose
reports each takes one) can run out or be re-armed in between; a reset meets every state. `rf`:
two transmitters of different types, which restart the receiver that starts as an Xbox One's,
merges or copies; three packets fill the FIFO; with two versions, one with the guide button, one
can overtake another and a keystroke takes a report's place. `merge`: the loops treat each
controller alike and every control by itself, so a pair of reports, one of which moves a
single control to an end of its range, meets every copy.

**Fairness, and why the code justifies it.** Weak fairness of a processor's own steps
(the 8u2's reader, `loop()`, the two rings' interrupts): nothing in either program
blocks but the waits that are modelled, and an interrupt that is enabled and pending
is served. No fairness for the host, the user, the detection of consoles or the
power supply: they owe the program nothing. In `UnoModes` the 8u2's start-up and the
328p's boot are fair. In `ConsoleDetect` the main loop's rules and the clock are, and the
host's script: a host that stops in the middle is one whose script is shorter, and those
are among the hosts. In `TwiMaster` the processor is fair, main program and interrupt; the
wires are fair only as the premise of `Recovers`. In `XboxRelay` the tick is fair, and the
console's polls and answers, as `HandshakeEnds` is about a console that uses the device. In
`Reports` and `RfLink` the tick and the console's polls of the interrupt endpoint; nothing the
player does. In `BtLink` BTstack answers each request in the end and timers expire; the
radio owes nothing beyond that. There is no strong fairness.

**Assumptions of passing runs.** `EventsRace = FALSE`, `FlushBusy = FALSE`,
`LateBoot = TRUE`: see below. A host lets a control transfer finish before it resets the bus.
`PromptBoot` (a flashed 328p sends READY within the 8u2's patience: the wait is tuned for
it, `main.c:208-211`). RAM that was never written holds no command by chance. No wire of the
Uno loses a byte (the code has neither checksum nor timeout: a lost byte hangs it).
`Recognised` and `Shown` are of prompt hosts, for which two seconds are enough for a script
(`Time`); for the tick that looks at the buttons they always are. What hosts send is the code's own
belief about them, taken from its comments and from `console_detection.md`. `Reports` assumes
that an Xbox One sends no HID GET_REPORT and that a keyboard's timers are at least three ticks (a
shorter one runs out within one pass over its reports). What `PicoHost` writes past
`usb_host_devices` is taken to stay there, and with three interfaces a device the count of
interfaces fits its byte (`3 * MaxPlugs <= 255`). In `RfLink` and `BtLink` the writes of a tick
without a buffer, at address 0, are taken to hit nothing else, nor to stop the receiver
(`HeldHeard`); the handshake of an Xbox One is over there. The macros a user's configuration
generates (TICK_*) are external.

### Finding

`pico/bt_rx.cpp:335`: the handler of LE Connection Complete never reads the event's status. The
completion of an attempt that failed, or that the timeout has cancelled, removes the timer and
requests pairing on an invalid handle; nothing answers that, no timer runs, and the receiver never
connects again. The comment at line 174 says "In case of error, disconnect and start scanning
again". `bt_loss` finds this in three steps. Two other failures strand the receiver in the same
way, and `ReconnectsIfSeen` names all three: a pairing that ends with a status the `switch` does
not list (400), and a link that breaks while the device information is queried, when line 295
ignores the disconnection and line 236 the failure of `hids_client_connect`.

### Behaviour the runs keep out

The constants of passing runs leave out these behaviours, which TLC shows when they are let in:

* `avr/uno/main/main.cpp:140` (`EventsRace`): USB_READY from the suspend interrupt lands in
  `buf` while a request is in it or an answer is sent from it; the 8u2 then waits for ever.
* `avr/uno/usb/main.c:384` (`FlushBusy`): SetLineEncoding clears the pointers while the
  interrupt is enabled. An interrupt in between leaves the ring full of stale bytes.
* `avr/uno/usb/main.c:211` (`LateBoot`): READY is accepted from before the reset pulse, which
  has put the 328p back into its bootloader.

## 4. Proofs

TLAPS checks every leaf, for every value of the constants. Every safety property of the
passing runs is stated by a theorem, and so are both refinements. A hypothesis of a
theorem is a named operator of its module (`QuietHost`, `LongWrites`, `UsualHosts`, ...), and
says of the environment what section 3 says under *Assumptions*.

* **`UnoBridge_proofs`** `TypeCorrect`, `DetectionIsSound`, `IdentityIsOne`, for any
  set of console types. `OneIdentity` is not inductive: that the next answer shows
  the old identity depends on where the outstanding exchange is. The inductive
  invariant adds what the answer on the wire was built from (`AnswerCurrent`: an
  answer that shows an identity is of the current type, or a restart is pending) and
  that an endpoint packet never carries an identity (`DataOutOfTheWay`).
* **`Uno8u2_proofs`, the modes** `ModesTypeCorrect`, `WishesAreServed` (under `PlainRam`) and
  `PeerIsRunning` (under `PlainRam` and `OrderlyBoot`), for any number of power
  cycles. The first needs to know what each mode owes (`Owing`), the second that
  READY in the register, and the wish to skip the wait, both mean a 328p that runs
  (`ReadyMeansRunning`).
* **`UnoLink_proofs`** `TypeCorrect`, `RepliesArePaired`, `BufferIsExclusive`,
  `StraysAreHarmless`, `AttachedIsKnown` and `LinkIsBridge`, the refinement of `UnoBridge`
  step by step, for any console types, payload bytes and lengths. Two hypotheses: `QuietHost`
  (no suspend or resume interrupt in the middle of an exchange, see `EventsRace` below), and
  `BufFits` (a control request and the longest report fit into `buf`, and a length into its
  byte: the code has `buf[255]` and no packet as long; nothing in the interrupt checks it).
  No property is inductive, and they hang together, so there is one invariant of ten parts:
  the processors take turns (`TakeTurns`); the bytes on the way to the 328p, half of them in
  `buf`, are one packet as long as its third byte says (`Framed`) and the one that was asked
  for (`Carried`); the bytes on the way back, some still in `buf`, are its whole answer and
  no more (`Answered`); the reader has the header of that answer (`Reading`) and the interrupt
  that loads it goes on until all is loaded (`KeepsLoading`); before the first byte of it
  nothing is mistaken for a header (`Harmless`); the rest ties `attached` and `consoleType` to what
  the 328p was told. A payload byte may equal VALID_PACKET throughout: the reader never looks
  for a header inside a payload because it counts, and it counts right because of `Answered`.
  `ExchangeNeverStuck` is the safety half of `ResponseArrives`: while the 8u2 waits, and no wait
  of its has a timeout, one of the six steps that bring the answer on is possible. It needs one
  thing more, that a packet of which the 328p has a part is still coming (`StillComing`); the
  rest is `Answered` and `Reading`, as the reader is never promised more bytes than are loaded.
  `LinkDetectsSoundly` and `LinkShowsOneIdentity` carry the bridge's two theorems down to the
  bytes: every step of the refinement is a step of the bridge that `UnoBridge_proofs` is about.
* **`Uno8u2_proofs`, the rings** `TypeCorrect`, `NoStaleByte`, `NoByteStuck`, for any ring
  size, byte set and packet lengths. The argument for `NoStaleByte` counts: between
  the two halves of FINISH_WRITE at least `MinWrite - fires` bytes wait, so with
  writes longer than the interrupts in the window (the assumption `LongWrites`) the
  ring is not empty when the interrupt is enabled. Controller mode's packets have a
  header and meet it. A single byte in usbserial mode does not, if two interrupts are
  served in the window; this is recorded as a hazard. `RingIsQueue` is the refinement of
  `ByteFifo`: the bytes between the pointers, read around the ring's end, are the queue, a
  store of the write pointer appends the packet whole (`Publish`), and every other step of the
  writer stays outside of them.
* **`ConsoleDetect_proofs`** `TypeCorrect`, `ChangesAreFew`, for any default type, set of
  setups and number of resets. Types have a rank; each rule leads to a type of a higher
  one (`RequestsClimb`, `SilenceClimbs`), so the number of changes never exceeds the rank
  of the type in force, which is at most three. The inductive invariant is that and the
  types. `HostsAreNotMistaken` proves `NeverMistaken` for every host that has a script
  (`UsualHosts`), prompt or not, on any board. What a rule sees
  is what the host has sent so far, so the invariant says, for each point of each script and
  each board, which of the traces in RAM are there (`NoticedSoFar`), and that once silence
  counts there are all there will be (`NoticedInTime`).
* **`Inputs_proofs`, the two-wire master** `TwiTypeCorrect`, `FaithfulCalls`, for any buffer and
  any lengths. Even that the index stays in the buffer needs the whole argument, as nothing in
  `TWI_vect` checks it: it does because the hardware was told in time not to acknowledge the last
  byte (`ReadProgress`), the transfer is the one the main program set up (`Current`), and nobody
  sets up another while it runs (`AtRest`). `WriteProgress` and `ReadProgress` say, for each
  thing the wires may be doing, how far the bytes are.
* **`Inputs_proofs`, the reports** `TimersAreSound`, `RecordIsTrue`, `NumberedWell`, for any
  devices, debounce times, wrap and number of resets. The packet that waits in the endpoint is
  what stands between the firmware's record and the console: the record is what that packet
  says, or what the console was told if none waits (`Known`); the number after it, in each
  series, is the counter's (`Follows`). Both need to know what such a packet can look like
  for each kind of controller (`Typed`), as a keystroke and an empty packet take a way of their own.
  `NothingIsUntold` is what change detection is for, and the safety half of `EventuallyShown`: a
  device at ease (`AtEase`: nothing it would build differs from what it remembers, the timers of
  released buttons have run out, the endpoint is read) has told the console exactly the buttons
  that are held.
* **`XboxRelay_proofs`** `HandshakeIsInOrder`, `RelayIsInOrder`, for any number of ports,
  devices, reports and resets. The first ties the number of packets shown to the state
  (`AtStep`), which also shows that the authentication's buffers are empty before it. The
  second needs that nothing kept or passed on has a number above the counter it came from
  (`Ordered`, once for each direction), and none that is kept, or was relayed since the last
  `device_reset`, a number from before it (`ResetInOrder`). Neither looks inside `PicoHost`:
  whatever its table says of the controllers, the relay keeps its order. `DevicesAreKnown` does look there: the
  table is true until a device behind the hub is unplugged because no entry is without a type
  (`TrueTable`), or a free address could have an entry, and because the class driver's count of
  interfaces is not zero while a device is at address 1 (`HostShape`), or its unplugging would
  go unnoticed. That it stays in its array, which no code checks, follows from the order in which
  addresses are given and forgotten: until then an entry's place is at most its address
  (`InPlace`), and a device plugged in has the highest (`PlugIsLast`).
* **`Receiver_proofs`, the radio** `TypesCorrect`, `NewestIsNotOvertaken`, `ConsoleKnows`, for any number of
  transmitters, FIFO and number of restarts. `NewestArrives` is inductive relative to the
  types; the argument is four lemmas on a queue and a table (`ArrivesAppend`, `ArrivesNew`,
  `ArrivesTail`, `ArrivesTake`), from which each action follows for the transmitter concerned
  and for the others. `ConsoleKnows` needs that no report looks like no report
  or like a keystroke (`ReportIsOne`, `MarksDiffer`), and what the buffer that is sent
  again may hold: the last report, or a message (`Buffered`). `ReportsGoForward` proves the action property `NeverGoesBack` with two orders
  of versions: in the radio, from the table through the FIFO to the player (`InQueueOrder`), and
  on the way out, from the console through the endpoint to the table (`InSightOrder`).
  `PlayersAreShown` puts `NewestArrives` and `ConsoleKnows` together: when each player's report
  has been written and was not lost, no packet of it waits and the last one taken was taken by a
  report (`AllTaken`), the endpoint or the console has what the players hold.
* **`Receiver_proofs`, the merging** `AnyButtonsAreMerged`, for any number of controllers that
  hold any buttons and any hat, of every build and whatever a stray read gives;
  `ButtonsAreMerged` is the same of the two controllers of the run. The tables of pairs
  are read once for each instrument and console (`PairsMean`, `HostPairsMean`: a pair copies a
  button to one of its name or a twin, and each button both reports have is copied unless
  `NotCarried`); from them follows what one turn of the loop adds (`TransmitterAdded`,
  `HostAdded`), and from that the invariant of the loop (`MergedSoFar`): what `MergedButtons`
  says of all controllers holds of those before `next`. `Overwrite` starts it
  again from a blank report.
* **`Receiver_proofs`, the axes** `AnyAxesAreMerged`, for any number of controllers whose axes
  stand anywhere but where the console's field is too coarse to show it (`Vanishes`: less than
  16 of 255 on a drum's pad for an Xbox One, whose field has four bits, and less than 256 above
  the centre of a 16-bit stick for a PlayStation); `AxesAreMerged` is the same of the ends the
  run enumerates, none of which vanishes. Each arithmetic keeps the side of the rest it is
  given (`CopiesPoint`, `SticksWritten`, `TriggersWritten`), and each axis has one copy, with
  the rest of its own field (`AxisCopied`, by kind of controller; `PadMovesOf`). The
  invariant is `AxisSoFar`: an axis is blank if nobody has claimed it yet, else where the last
  claimant before `next` wants it. That is where a copy with the wrong rest would show: it would
  claim an axis for a controller that leaves it alone.
* **`BtLink_proofs`** `TypesCorrect`, `WhereTheNewestIs`, `OnlyTheTakenAreLost`, for any inputs,
  room and number of faults. `NothingElseLost` speaks of the moments when nothing is under way;
  the invariant `Conveyed` says where the newest report is in every other: the last
  notification (`InAir`), the mailbox (`InBox`), the copy of a reader whom no report has
  overtaken (`InCopy`), `last_report_usb` (`InUsb`), the endpoint or the console (`Shown`); a keystroke that takes a
  report's place counts that report as taken, unless a newer one is behind it.
  That the flag is cleared before the copy, not after, is what makes `InCopy` inductive.

Only model-checked: the liveness properties (`ResponseArrives`, `Settles`, `Recognised`,
`Shown`, `CallsReturn`, `Recovers`, `HandshakeEnds`, `ReconnectsIfSeen`, `EventuallyShown`,
`HeldHeard`), as TLAPS reasons neither from fairness nor about ENABLED.

## 5. Not modelled

* Electrical faults and lost bytes on the serial line; USB below the transfer.
* The cryptography of `xsm3.c`, the layout of bits in reports, descriptors, LEDs, wording.
* The receive ring of the 8u2 as a ring (it is a sequence in `UnoLink`).
* `write_ready` between the main program's INIT_TMP and FINISH_WRITE: `UnoLink` sends
  a packet in one step and `SerialRing` has one writer. Control requests that interrupt
  the Micro's `loop()`.
* The type chosen with a controller in the Pico's host port; the parser of HID report
  descriptors in `xinput_host.cpp`, which tells a generic PS4 controller.
* Merging: the axes of instruments in the host port (their buttons are checked), Rock Band
  drums there (that build does not compile), a live guitar's HID report of a receiver (all zero
  in this code), the keyboard branches of receivers; `rf_connected`, which lights a LED.
* Bluetooth: the scan the configuration tool asks for.
* MIDI; the arithmetic of calibration (`handle_calibration_*`): pure functions of 16 bits.
* The repeated start of the two-wire library, which no caller asks for; the drivers' use of
  the bytes (Wii extensions, PS2), SPI and ADC.
* The ESP32: a BLE gamepad over a library, with no state but a connection flag.
* Libraries (LUFA, TinyUSB, BTstack, RF24), the DFU bootloader, `avrdude`: only as the code
  uses them.

## 6. What is left

1. `WiiExt`: the extension's driver over `TwiMaster`, where the last good packet is shown
   again for 800 us after a failed poll; PS2 likewise.
2. The Micro's interrupt and main loop; a second writer in `SerialRing` (the suspend
   interrupt) and its second direction.
3. `ConsoleDetect` over `UnoBridge`: the restart of the one shown to be the exchange of
   the other; `Reports` at the end of `RfLink` and of `BtLink` in place of their one-line
   comparison.
4. The calibration's clamping, against its definition over bounded inputs.
