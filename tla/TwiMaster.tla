----------------------------- MODULE TwiMaster -----------------------------
(***************************************************************************)
(* The two-wire master of the AVR boards: how the main program and the     *)
(* interrupt of the two-wire hardware transfer bytes to and from a Wii     *)
(* extension, a neck or a turntable.                                       *)
(*                                                                         *)
(* twi_readFrom and twi_writeTo set the transfer up, start it, and wait    *)
(* for the interrupt to finish it; every wait counts down from TIMEOUT.    *)
(* What makes it delicate is that a call that gives up leaves its transfer *)
(* running: the interrupt goes on with the shared buffer, and the next     *)
(* call meets it.                                                          *)
(*                                                                         *)
(* Every caller sends a stop condition; the repeated start of the library  *)
(* this code comes from is never used and is left out.  A byte is the      *)
(* position it has in its transfer; 0 stands for what an earlier transfer  *)
(* left in the buffer.                                                     *)
(***************************************************************************)
EXTENDS Naturals, Sequences

CONSTANTS
  TWI_BUFFER_LENGTH,
  Reads,             \* lengths the drivers read
  Writes             \* lengths the drivers write, the pointer included

ASSUME TwiAssumption ==
  /\ TWI_BUFFER_LENGTH \in Nat \ {0}
  /\ Reads \subseteq 1..TWI_BUFFER_LENGTH
  /\ Writes \subseteq 1..TWI_BUFFER_LENGTH

VARIABLES
  pc,                      \* main program: outside, or in one of the two waits
  todo,                    \* the calls it is about to make, the current one first
  returned,                \* what the last call returned
  twi_state, twi_error, twi_slarw,
  twi_masterBuffer, twi_masterBufferIndex, twi_masterBufferLength,
  isr,                     \* the interrupt: not running, or waiting in twi_stop
  bus,                     \* what the hardware is doing; "flag": TWINT is set
  status,                  \* TW_STATUS
  twdr,                    \* the byte in the data register
  twea,                    \* whether the next byte received is acknowledged
  got,                     \* device: bytes acknowledged in this transfer
  sent,                    \* device: number of bytes sent in this transfer
  dead                     \* history: a stop condition has outlasted TIMEOUT

mainVars == <<pc, todo, returned>>
driverVars == <<twi_state, twi_error, twi_slarw,
                twi_masterBuffer, twi_masterBufferIndex, twi_masterBufferLength>>
hardwareVars == <<bus, status, twdr, twea>>
deviceVars == <<got, sent>>
twiVars == <<mainVars, driverVars, isr, hardwareVars, deviceVars, dead>>

-----------------------------------------------------------------------------

Ops == {"read", "write"}
States == {"READY", "MRX", "MTX"}
Errors == {"TW_MT_SLA_NACK", "TW_MT_DATA_NACK", "TW_MT_ARB_LOST", "TW_BUS_ERROR"}
Statuses == Errors \cup {"TW_START", "TW_MT_SLA_ACK", "TW_MT_DATA_ACK", "TW_MR_SLA_ACK",
                         "TW_MR_SLA_NACK", "TW_MR_DATA_ACK", "TW_MR_DATA_NACK"}
Slots == 0..(TWI_BUFFER_LENGTH - 1)
Bytes == 0..TWI_BUFFER_LENGTH
Calls == [op : Ops, length : 1..TWI_BUFFER_LENGTH]

TwiInit ==
  /\ pc = "outside" /\ todo = <<>>
  /\ returned = [op |-> "write", length |-> 1, ok |-> FALSE, data |-> <<>>]
  /\ twi_state = "READY" /\ twi_error = "none" /\ twi_slarw = "write"
  /\ twi_masterBuffer = [i \in Slots |-> 0]
  /\ twi_masterBufferIndex = 0 /\ twi_masterBufferLength = 0
  /\ isr = "none" /\ bus = "idle" /\ status = "TW_START" /\ twdr = 0 /\ twea = TRUE
  /\ got = <<>> /\ sent = 0 /\ dead = FALSE

-----------------------------------------------------------------------------
(* The main program. *)

MainRuns == isr = "none"

\* twi_readFromPointer and twi_readFromPointerSlow: write the pointer, then read.
ReadFromPointer(n) ==
  /\ MainRuns /\ pc = "outside"
  /\ pc' = "ready?"
  /\ todo' = <<[op |-> "write", length |-> 1], [op |-> "read", length |-> n]>>
  /\ UNCHANGED <<returned, driverVars, isr, hardwareVars, deviceVars, dead>>

\* twi_writeToPointer.
WriteToPointer(n) ==
  /\ MainRuns /\ pc = "outside"
  /\ pc' = "ready?"
  /\ todo' = <<[op |-> "write", length |-> n]>>
  /\ UNCHANGED <<returned, driverVars, isr, hardwareVars, deviceVars, dead>>

\* A call returns.  The read after a failed write is not made.
Return(ok, data) ==
  /\ returned' = [op |-> Head(todo).op, length |-> Head(todo).length, ok |-> ok, data |-> data]
  /\ todo' = IF ok THEN Tail(todo) ELSE <<>>
  /\ pc' = IF todo' = <<>> THEN "outside" ELSE "ready?"
  /\ UNCHANGED <<driverVars, isr, hardwareVars, deviceVars, dead>>

\* The transfer is set up and started.
SetUp ==
  LET op == Head(todo).op
      length == Head(todo).length
  IN
  /\ pc' = "done?"
  /\ twi_state' = IF op = "read" THEN "MRX" ELSE "MTX"
  /\ twi_error' = "none"
  /\ twi_slarw' = op
  /\ twi_masterBuffer' = [i \in Slots |-> IF op = "write" /\ i < length THEN i + 1 ELSE 0]
  /\ twi_masterBufferIndex' = 0
  /\ twi_masterBufferLength' = IF op = "read" THEN length - 1 ELSE length
  /\ bus' = "start"
  /\ got' = <<>> /\ sent' = 0
  /\ UNCHANGED <<todo, returned, isr, status, twdr, twea, dead>>

Start == MainRuns /\ pc = "ready?" /\ twi_state = "READY" /\ SetUp

\* The interrupt has finished the transfer.  Both functions return a bool: a read
\* succeeds if a byte has come.
Finish ==
  LET length == Head(todo).length
      arrived == IF twi_masterBufferIndex < length THEN twi_masterBufferIndex ELSE length
  IN
  /\ MainRuns /\ pc = "done?" /\ twi_state = "READY"
  /\ IF Head(todo).op = "read"
     THEN Return(arrived > 0, [i \in 1..arrived |-> twi_masterBuffer[i - 1]])
     ELSE Return(twi_error = "none", <<>>)

\* timeoutCounter has come to 0.  The state was read before: the transfer may be
\* finished by now.  (In the first wait that is the same as giving up just before it
\* finished, the interrupt never reads what GiveUp changes.)
GiveUp ==
  /\ MainRuns
  /\ \/ pc = "ready?" /\ twi_state # "READY"
     \/ pc = "done?"
  /\ Return(FALSE, <<>>)

-----------------------------------------------------------------------------
(* The interrupt, TWI_vect. *)

Interrupted(statuses) == bus = "flag" /\ isr = "none" /\ status \in statuses

\* twi_stop: the stop condition is sent, and the interrupt waits for it.
Stop == bus' = "stop" /\ isr' = "stopping"

IsrStart ==
  /\ Interrupted({"TW_START"})
  /\ twdr' = 0           \* twi_slarw: no byte of the transfer
  /\ bus' = "address" /\ twea' = TRUE
  /\ UNCHANGED <<mainVars, driverVars, isr, status, deviceVars, dead>>

IsrTransmit ==
  /\ Interrupted({"TW_MT_SLA_ACK", "TW_MT_DATA_ACK"})
  /\ \/ /\ twi_masterBufferIndex < twi_masterBufferLength
        /\ twdr' = twi_masterBuffer[twi_masterBufferIndex]
        /\ twi_masterBufferIndex' = twi_masterBufferIndex + 1
        /\ bus' = "transmit" /\ twea' = TRUE /\ UNCHANGED isr
     \/ /\ twi_masterBufferIndex >= twi_masterBufferLength
        /\ Stop
        /\ UNCHANGED <<twdr, twi_masterBufferIndex, twea>>
  /\ UNCHANGED <<mainVars, twi_state, twi_error, twi_slarw, twi_masterBuffer,
                 twi_masterBufferLength, status, deviceVars, dead>>

\* Broken variant of IsrRefused: a refused byte is not recorded.
IsrRefusedSilently ==
  /\ Interrupted(Errors \ {"TW_MT_ARB_LOST"})
  /\ UNCHANGED twi_error
  /\ Stop
  /\ UNCHANGED <<mainVars, twi_state, twi_slarw, twi_masterBuffer, twi_masterBufferIndex,
                 twi_masterBufferLength, status, twdr, twea, deviceVars, dead>>

\* The device refuses its address or a byte, or the bus is disturbed.
IsrRefused ==
  /\ Interrupted(Errors \ {"TW_MT_ARB_LOST"})
  /\ twi_error' = status
  /\ Stop
  /\ UNCHANGED <<mainVars, twi_state, twi_slarw, twi_masterBuffer, twi_masterBufferIndex,
                 twi_masterBufferLength, status, twdr, twea, deviceVars, dead>>

\* Broken variant of IsrArbLost: the state is left as it is.
IsrArbLostBusy ==
  /\ Interrupted({"TW_MT_ARB_LOST"})
  /\ twi_error' = status
  /\ bus' = "idle"
  /\ UNCHANGED <<mainVars, twi_state, twi_slarw, twi_masterBuffer, twi_masterBufferIndex,
                 twi_masterBufferLength, isr, status, twdr, twea, deviceVars, dead>>

\* twi_releaseBus.
IsrArbLost ==
  /\ Interrupted({"TW_MT_ARB_LOST"})
  /\ twi_error' = status
  /\ bus' = "idle" /\ twea' = TRUE
  /\ twi_state' = "READY"
  /\ UNCHANGED <<mainVars, twi_slarw, twi_masterBuffer, twi_masterBufferIndex,
                 twi_masterBufferLength, isr, status, twdr, deviceVars, dead>>

\* The byte in the data register goes into the buffer.
Store ==
  /\ twi_masterBuffer' = [twi_masterBuffer EXCEPT ![twi_masterBufferIndex] = twdr]
  /\ twi_masterBufferIndex' = twi_masterBufferIndex + 1

\* Broken variant of IsrReceive: the acknowledgement stops one byte late.
IsrReceiveOneMore ==
  /\ Interrupted({"TW_MR_SLA_ACK", "TW_MR_DATA_ACK"})
  /\ IF status = "TW_MR_DATA_ACK"
     THEN Store
     ELSE UNCHANGED <<twi_masterBuffer, twi_masterBufferIndex>>
  /\ twea' = (twi_masterBufferIndex' <= twi_masterBufferLength)
  /\ bus' = "receive"
  /\ UNCHANGED <<mainVars, twi_state, twi_error, twi_slarw, twi_masterBufferLength, isr,
                 status, twdr, deviceVars, dead>>

\* A byte or the address is through: the last byte but one is the last acknowledged.
IsrReceive ==
  /\ Interrupted({"TW_MR_SLA_ACK", "TW_MR_DATA_ACK"})
  /\ IF status = "TW_MR_DATA_ACK"
     THEN Store
     ELSE UNCHANGED <<twi_masterBuffer, twi_masterBufferIndex>>
  /\ twea' = (twi_masterBufferIndex' < twi_masterBufferLength)
  /\ bus' = "receive"
  /\ UNCHANGED <<mainVars, twi_state, twi_error, twi_slarw, twi_masterBufferLength, isr,
                 status, twdr, deviceVars, dead>>

IsrReceiveLast ==
  /\ Interrupted({"TW_MR_DATA_NACK", "TW_MR_SLA_NACK"})
  /\ IF status = "TW_MR_DATA_NACK"
     THEN Store
     ELSE UNCHANGED <<twi_masterBuffer, twi_masterBufferIndex>>
  /\ Stop
  /\ UNCHANGED <<mainVars, twi_state, twi_error, twi_slarw, twi_masterBufferLength,
                 status, twdr, twea, deviceVars, dead>>

\* twi_stop sees that the condition is sent.
Stopped ==
  /\ isr = "stopping" /\ bus = "idle"
  /\ isr' = "none"
  /\ twi_state' = "READY"
  /\ UNCHANGED <<mainVars, twi_error, twi_slarw, twi_masterBuffer, twi_masterBufferIndex,
                 twi_masterBufferLength, hardwareVars, deviceVars, dead>>

\* Broken variant of StopTimeout: the wait for the stop condition has no end, as with
\* a TIMEOUT of 0.
StopTimeoutNever == isr = "stopping" /\ UNCHANGED twiVars

\* twi_stop gives up: it returns false, which nobody looks at, and leaves the state
\* as it is.  No interrupt follows a stop condition.
StopTimeout ==
  /\ isr = "stopping"
  /\ isr' = "none"
  /\ dead' = TRUE
  /\ UNCHANGED <<mainVars, driverVars, hardwareVars, deviceVars>>

-----------------------------------------------------------------------------
(* The hardware and the device at the other end of the wires. *)

\* TWINT is set.
Flag(s) == bus' = "flag" /\ status' = s

StartSent ==
  /\ bus = "start"
  /\ Flag("TW_START")
  /\ UNCHANGED <<mainVars, driverVars, isr, twdr, twea, deviceVars, dead>>

AddressSent ==
  /\ bus = "address"
  /\ \/ Flag(IF twi_slarw = "write" THEN "TW_MT_SLA_ACK" ELSE "TW_MR_SLA_ACK")
     \/ Flag(IF twi_slarw = "write" THEN "TW_MT_SLA_NACK" ELSE "TW_MR_SLA_NACK")
  /\ UNCHANGED <<mainVars, driverVars, isr, twdr, twea, deviceVars, dead>>

ByteSent ==
  /\ bus = "transmit"
  /\ \/ Flag("TW_MT_DATA_ACK") /\ got' = Append(got, twdr)
     \/ Flag("TW_MT_DATA_NACK") /\ UNCHANGED got
  /\ UNCHANGED <<mainVars, driverVars, isr, twdr, twea, sent, dead>>

ByteReceived ==
  /\ bus = "receive"
  /\ twdr' = sent + 1 /\ sent' = sent + 1
  /\ Flag(IF twea THEN "TW_MR_DATA_ACK" ELSE "TW_MR_DATA_NACK")
  /\ UNCHANGED <<mainVars, driverVars, isr, twea, got, dead>>

\* The wires are disturbed, by a plug that is pulled for one.
Noise ==
  /\ bus \in {"address", "transmit", "receive"}
  /\ Flag("TW_BUS_ERROR") \/ Flag("TW_MT_ARB_LOST")
  /\ UNCHANGED <<mainVars, driverVars, isr, twdr, twea, deviceVars, dead>>

StopSent ==
  /\ bus = "stop"
  /\ bus' = "idle"
  /\ UNCHANGED <<mainVars, driverVars, isr, status, twdr, twea, deviceVars, dead>>

-----------------------------------------------------------------------------

Main == Start \/ Finish \/ GiveUp

Isr == \/ IsrStart \/ IsrTransmit \/ IsrRefused \/ IsrArbLost
       \/ IsrReceive \/ IsrReceiveLast \/ Stopped \/ StopTimeout

Bus == StartSent \/ AddressSent \/ ByteSent \/ ByteReceived \/ StopSent

TwiNext ==
  \/ \E n \in Reads : ReadFromPointer(n)
  \/ \E n \in Writes : WriteToPointer(n)
  \/ Main \/ Isr \/ Bus \/ Noise

TwiSpec == TwiInit /\ [][TwiNext]_twiVars

\* The processor runs; nothing is assumed of the wires and the device.
TwiFairSpec == TwiSpec /\ WF_twiVars(Main) /\ WF_twiVars(Isr)

-----------------------------------------------------------------------------
(* Properties. *)

MainTypes ==
  /\ pc \in {"outside", "ready?", "done?"}
  /\ todo \in Seq(Calls) /\ (pc # "outside" => todo # <<>>)
  /\ returned.op \in Ops /\ returned.length \in 1..TWI_BUFFER_LENGTH
  /\ returned.ok \in BOOLEAN /\ returned.data \in Seq(Bytes)

DriverTypes ==
  /\ twi_state \in States /\ twi_error \in Errors \cup {"none"} /\ twi_slarw \in Ops
  /\ twi_masterBuffer \in [Slots -> Bytes]
  /\ twi_masterBufferIndex \in 0..TWI_BUFFER_LENGTH
  /\ twi_masterBufferLength \in 0..TWI_BUFFER_LENGTH
  /\ isr \in {"none", "stopping"}

WireTypes ==
  /\ bus \in {"idle", "start", "address", "transmit", "receive", "stop", "flag"}
  /\ status \in Statuses
  /\ twdr \in Bytes /\ twea \in BOOLEAN
  /\ got \in Seq(Bytes) /\ sent \in Bytes
  /\ dead \in BOOLEAN

\* The variables stay in their types; the index stays in the buffer, whatever the
\* device and the wires do.
TwiTypeOK == MainTypes /\ DriverTypes /\ WireTypes

\* What a call says has happened has happened, in this transfer and not in one that
\* an earlier call gave up: after a write that returned true the device has
\* acknowledged exactly its bytes; a read that returned true has the bytes the
\* device sent, from the first on and nothing left over from before, and all of
\* them unless the wires were disturbed.
Faithful ==
  returned.ok /\ pc # "done?" =>
    CASE returned.op = "write" -> got = [i \in 1..returned.length |-> i]
      [] returned.op = "read"  ->
           /\ returned.data = [i \in 1..Len(returned.data) |-> i]
           /\ Len(returned.data) \in 1..returned.length
           /\ Len(returned.data) = sent
           /\ Len(returned.data) < returned.length => twi_error # "none"

\* Whatever the device does to the wires, the main program is not held up: every
\* call returns (twi_readFrom, twi_writeTo and their TIMEOUT).
CallsReturn == []<>(pc = "outside" /\ isr = "none")

\* If the wires move on, the driver is ready for the next transfer again and again,
\* whatever was given up, unless a stop condition outlasted TIMEOUT: from then on,
\* and for ever, it never is.
Recovers ==
  WF_twiVars(Bus) => \/ []<>(twi_state = "READY")
                  \/ <>[](dead /\ twi_state # "READY")

=============================================================================
