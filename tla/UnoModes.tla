------------------------------ MODULE UnoModes ------------------------------
(***************************************************************************)
(* What the Uno's two processors are, from power-up on: the 8u2 is a game  *)
(* controller, a USB-to-serial adapter through which the 328p is flashed,  *)
(* or in its own DFU bootloader; it changes between them by writing a      *)
(* wish into RAM that a reset leaves alone (bootloaderState) and letting   *)
(* the watchdog reset it.  Before it is a controller it resets the 328p    *)
(* and waits for the READY byte the 328p's setup() sends.                  *)
(***************************************************************************)
EXTENDS Naturals, Sequences

CONSTANTS
  PowerUp,      \* what bootloaderState may hold after power-up
  DfuLeaves,    \* what else the DFU bootloader may leave in bootloaderState
  PromptBoot,   \* whether a flashed 328p sends READY before the 8u2 gives up
  LateBoot,     \* whether it never does so before the 8u2 has reset it
  MaxCycles     \* bound: times the board is unplugged and plugged in again

VARIABLES
  bootloaderState,  \* 8u2: .noinit
  mode,             \* 8u2: where main() is
  serial,           \* 8u2: usbserial mode rather than controller mode
  waiting,          \* 8u2: spins for an answer to a packet
  received,         \* 8u2: READY is in the UART's data register
  mega,             \* 328p: "bootloader" or "running"
  firmware,         \* 328p: flashed with this program
  cycles,           \* times it was unplugged and plugged in again
  pressed,          \* history: the reset button, since the 8u2 last reset the 328p
  owed              \* history: modes the host asked for and has not got

modesVars == <<bootloaderState, mode, serial, waiting, received, mega, firmware, cycles,
               pressed, owed>>

\* The commands of commands.h that survive a reset, and COMMAND_SKIP_WAIT.
Commands == {"REBOOT", "JUMP_BOOTLOADER", "JUMP_BOOTLOADER_UNO",
             "JUMP_BOOTLOADER_UNO_USB_THEN_SERIAL"}

States == Commands \cup {"SKIP_WAIT", "ZERO", "GARBAGE"}

ASSUME ModesAssumption ==
  /\ PowerUp \subseteq States /\ PowerUp # {}
  /\ DfuLeaves \subseteq States
  /\ {PromptBoot, LateBoot} \subseteq BOOLEAN
  /\ MaxCycles \in Nat

\* The modes a command asks for, in the order it asks for them.
Wish(c) ==
  CASE c = "JUMP_BOOTLOADER" -> <<"dfu">>
    [] c = "JUMP_BOOTLOADER_UNO" -> <<"serial">>
    [] c = "JUMP_BOOTLOADER_UNO_USB_THEN_SERIAL" -> <<"dfu", "serial">>
    [] OTHER -> <<>>

ModesTypeOK ==
  /\ bootloaderState \in States
  /\ mode \in {"reset", "pulse", "await", "controller", "serial", "dfu"}
  /\ serial \in BOOLEAN /\ waiting \in BOOLEAN /\ received \in BOOLEAN
  /\ mega \in {"bootloader", "running"}
  /\ firmware \in BOOLEAN /\ pressed \in BOOLEAN
  /\ cycles \in 0..MaxCycles
  /\ owed \in {<<>>, <<"dfu">>, <<"serial">>, <<"dfu", "serial">>}

ModesInit ==
  /\ bootloaderState \in PowerUp
  /\ mode = "reset" /\ serial = FALSE /\ waiting = FALSE /\ received = FALSE
  /\ mega = "bootloader"
  /\ firmware \in BOOLEAN
  /\ cycles = 0 /\ pressed = FALSE /\ owed = <<>>

-----------------------------------------------------------------------------
(* The 8u2. *)

\* reboot(): the watchdog resets the 8u2, and nothing but it.
Reset(state) ==
  /\ bootloaderState' = state
  /\ mode' = "reset" /\ serial' = FALSE /\ waiting' = FALSE /\ received' = FALSE

\* A mode the host asked for has been reached.
Serve(m) == owed' = IF owed # <<>> /\ Head(owed) = m THEN Tail(owed) ELSE owed

\* Broken variant of Start: the wish that is left for the start after the
\* bootloader is cleared as well.
StartForgetful ==
  /\ mode = "reset"
  /\ bootloaderState' = "ZERO"
  /\ mode' = CASE bootloaderState \in {"JUMP_BOOTLOADER",
                                       "JUMP_BOOTLOADER_UNO_USB_THEN_SERIAL"} -> "dfu"
               [] bootloaderState = "SKIP_WAIT" -> "controller"
               [] OTHER -> "pulse"
  /\ serial' = (bootloaderState = "JUMP_BOOTLOADER_UNO")
  /\ Serve(mode')
  /\ UNCHANGED <<waiting, received, mega, firmware, cycles, pressed>>

\* The start of main(): the wish is taken, and cleared or replaced by what is left
\* of it.
Start ==
  /\ mode = "reset"
  /\ bootloaderState' = IF bootloaderState = "JUMP_BOOTLOADER_UNO_USB_THEN_SERIAL"
                        THEN "JUMP_BOOTLOADER_UNO" ELSE "ZERO"
  /\ mode' = CASE bootloaderState \in {"JUMP_BOOTLOADER",
                                       "JUMP_BOOTLOADER_UNO_USB_THEN_SERIAL"} -> "dfu"
               [] bootloaderState = "SKIP_WAIT" -> "controller"
               [] OTHER -> "pulse"
  /\ serial' = (bootloaderState = "JUMP_BOOTLOADER_UNO")
  /\ Serve(mode')
  /\ UNCHANGED <<waiting, received, mega, firmware, cycles, pressed>>

\* The reset line is pulled low for a millisecond, a millisecond after the UART's
\* receiver was enabled.
Pulse ==
  /\ mode = "pulse"
  /\ mega' = "bootloader" /\ pressed' = FALSE
  /\ mode' = IF serial THEN "serial" ELSE "await"
  /\ Serve(mode')
  /\ UNCHANGED <<bootloaderState, serial, waiting, received, firmware, cycles>>

\* The loop that waits for READY finds it in the data register.
ReadyReceived ==
  /\ mode = "await" /\ received
  /\ mode' = "controller" /\ received' = FALSE
  /\ UNCHANGED <<bootloaderState, serial, waiting, mega, firmware, cycles, pressed, owed>>

\* Broken variant of GiveUp: the next start will wait again.
GiveUpAndRetry ==
  /\ mode = "await" /\ ~received
  /\ PromptBoot => ~(firmware /\ mega = "bootloader")
  /\ Reset("ZERO")
  /\ UNCHANGED <<mega, firmware, cycles, pressed, owed>>

\* Broken variant of GiveUp: the 328p is taken to be running.
GiveUpAndSkip ==
  /\ mode = "await" /\ ~received
  /\ PromptBoot => ~(firmware /\ mega = "bootloader")
  /\ Reset("SKIP_WAIT")
  /\ UNCHANGED <<mega, firmware, cycles, pressed, owed>>

\* "If we don't get it in time, we can assume the 328p is missing its firmware."
GiveUp ==
  /\ mode = "await" /\ ~received
  /\ PromptBoot => ~(firmware /\ mega = "bootloader")
  /\ Reset("JUMP_BOOTLOADER_UNO")
  /\ UNCHANGED <<mega, firmware, cycles, pressed, owed>>

\* The main loop or a callback sends the 328p a packet and waits for its answer.
\* The running program answers; the bootloader and a blank chip do not.
Exchange ==
  /\ mode = "controller"
  /\ waiting' = (mega # "running")
  /\ UNCHANGED <<bootloaderState, mode, serial, received, mega, firmware, cycles, pressed, owed>>

\* A control request with one of the commands.  The control endpoint is polled, so
\* not while the 8u2 waits.
Command(c) ==
  /\ mode = "controller" /\ ~waiting
  /\ Reset(c)
  /\ owed' = Wish(c)
  /\ UNCHANGED <<mega, firmware, cycles, pressed>>

\* The answer is a RESTART packet (handleControlRequest).
RestartPacket ==
  /\ mode = "controller" /\ ~waiting /\ mega = "running"
  /\ Reset("SKIP_WAIT")
  /\ UNCHANGED <<mega, firmware, cycles, pressed, owed>>

\* SetLineEncoding with 1200 baud.
Touch1200 ==
  /\ mode = "serial"
  /\ Reset("JUMP_BOOTLOADER")
  /\ owed' = Wish("JUMP_BOOTLOADER")
  /\ UNCHANGED <<mega, firmware, cycles, pressed>>

\* SetLineEncoding with 2400 baud.
Touch2400 ==
  /\ mode = "serial"
  /\ Reset(bootloaderState)
  /\ owed' = <<>>
  /\ UNCHANGED <<mega, firmware, cycles, pressed>>

\* SetControlLineState: DTR resets the 328p, whose bootloader waits for a sketch.
Dtr ==
  /\ mode = "serial"
  /\ mega' = "bootloader"
  /\ UNCHANGED <<bootloaderState, mode, serial, waiting, received, firmware, cycles, pressed, owed>>

-----------------------------------------------------------------------------
(* The 328p, the host and the power supply. *)

\* setup() enables the UART and sends READY, which the 8u2 receives if it has
\* enabled its own.
MegaBoot ==
  /\ mega = "bootloader" /\ firmware
  /\ mode = "pulse" => ~LateBoot
  /\ mega' = "running"
  /\ received' = (received \/ mode \in {"pulse", "await"})
  /\ UNCHANGED <<bootloaderState, mode, serial, waiting, firmware, cycles, pressed, owed>>

\* The host flashes the 328p, with this program or another.
Flash ==
  /\ mode = "serial" /\ mega = "bootloader"
  /\ firmware' \in BOOLEAN
  /\ UNCHANGED <<bootloaderState, mode, serial, waiting, received, mega, cycles, pressed, owed>>

\* The host tells the DFU bootloader to start the program.
LeaveDfu ==
  /\ mode = "dfu"
  /\ \E s \in {bootloaderState} \cup DfuLeaves : Reset(s)
  /\ UNCHANGED <<mega, firmware, cycles, pressed, owed>>

\* The reset button of the board, which is wired to the 328p.
ResetButton ==
  /\ mega' = "bootloader" /\ pressed' = TRUE
  /\ UNCHANGED <<bootloaderState, mode, serial, waiting, received, firmware, cycles, owed>>

PowerCycle ==
  /\ cycles < MaxCycles /\ cycles' = cycles + 1
  /\ \E s \in PowerUp : Reset(s)
  /\ mega' = "bootloader" /\ pressed' = FALSE
  /\ owed' = <<>>
  /\ UNCHANGED firmware

Main == Start \/ Pulse \/ ReadyReceived \/ GiveUp

ModesNext ==
  \/ Start \/ Pulse \/ ReadyReceived \/ GiveUp
  \/ Exchange \/ RestartPacket
  \/ \E c \in Commands : Command(c)
  \/ Touch1200 \/ Touch2400 \/ Dtr
  \/ MegaBoot \/ Flash \/ LeaveDfu \/ ResetButton \/ PowerCycle

ModesSpec == ModesInit /\ [][ModesNext]_modesVars

\* The two processors run.  The host, its user and the power supply owe nothing.
ModesFairSpec == ModesSpec /\ WF_modesVars(Main) /\ WF_modesVars(MegaBoot)

-----------------------------------------------------------------------------
(* Properties. *)

\* A controller has a 328p that answers: the 8u2 leaves the loop for READY, or
\* skips it, only when the 328p runs the program, unless its user has pressed the
\* reset button since.
ControllerHasPeer == mode = "controller" => mega = "running" \/ pressed

\* A wish survives exactly the resets it has to: when the 8u2 waits for the 328p or
\* is a controller again the host has got every mode it asked for, in order, and
\* a start that finds nothing owed does not enter the bootloader.
WishesServed ==
  /\ mode \in {"await", "controller"} => owed = <<>>
  /\ mode = "reset" /\ owed = <<>> =>
       bootloaderState \notin {"JUMP_BOOTLOADER", "JUMP_BOOTLOADER_UNO_USB_THEN_SERIAL"}

\* Every start ends in a mode the user can do something with, and a 328p that was
\* never flashed ends where it can be: the wait for READY is not for ever.
Settles ==
  []<>(mode \in {"serial", "dfu"} \/ (mode = "controller" /\ firmware))

=============================================================================
