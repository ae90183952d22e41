----------------------------- MODULE SerialRing -----------------------------
(***************************************************************************)
(* The 8u2's transmit ring, USBtoUSART, instruction by instruction.        *)
(*                                                                         *)
(* The main program writes a packet behind the write pointer, publishes it *)
(* by storing the pointer, and then enables the data-register-empty        *)
(* interrupt (serial_macros.h).  The interrupt sends the byte at the read  *)
(* pointer, and disables itself when that has caught up with the write     *)
(* pointer (main.c).  Neither takes a lock; the interrupt never looks      *)
(* whether there is a byte to send.                                        *)
(*                                                                         *)
(* Storing the pointer and enabling the interrupt are separate             *)
(* instructions.  The UART holds one byte and shifts another, so after a   *)
(* delay (a long USB interrupt) the data-register-empty interrupt can be   *)
(* served twice in a row, and an AVR serves at most one interrupt between  *)
(* two instructions: while the main program is between the two halves of   *)
(* FINISH_WRITE the interrupt fires at most Window times.                  *)
(***************************************************************************)
EXTENDS Naturals, Sequences

CONSTANTS
  Bytes,               \* what a byte may be
  Size,                \* USB2USART_BUFLEN
  MinWrite, MaxWrite,  \* bytes a single write may have
  Window,              \* instruction boundaries inside FINISH_WRITE
  FlushBusy            \* whether the host changes the line while bytes wait

ASSUME RingAssumption ==
  /\ Size \in Nat /\ MinWrite \in Nat /\ MaxWrite \in Nat /\ Window \in Nat
  /\ 1 <= MinWrite /\ MaxWrite < Size
  /\ FlushBusy \in BOOLEAN

VARIABLES
  mem,                 \* the ring
  WritePtr, ReadPtr,   \* USBtoUSART_WritePtr and USBtoUSART_ReadPtr
  udrie,               \* UDRIE1: the interrupt is enabled
  pc,                  \* what the main program is doing
  tmp,                 \* its private write pointer
  left,                \* bytes it still has to write
  fires                \* interrupts served inside FINISH_WRITE

vars == <<mem, WritePtr, ReadPtr, udrie, pc, tmp, left, fires>>

Slots == 0..Size - 1

\* WRITE_BYTE_TO_BUF masks the pointer with 0x7F, the interrupt clears its bit 7.
Inc(p) == (p + 1) % Size

\* Bytes published and not sent.
Count == (WritePtr + Size - ReadPtr) % Size

\* USBtoUSART_free: one slot stays empty, as equal pointers mean an empty ring.
Free == (Size - 1) - Count

TypeOK ==
  /\ mem \in [Slots -> Bytes]
  /\ WritePtr \in Slots /\ ReadPtr \in Slots /\ tmp \in Slots
  /\ udrie \in BOOLEAN
  /\ pc \in {"idle", "fill", "enable", "flush", "reconfigure"}
  /\ left \in 0..MaxWrite
  /\ fires \in 0..Window

Init ==
  /\ mem \in {[i \in Slots |-> b] : b \in Bytes}
  /\ WritePtr = 0 /\ ReadPtr = 0 /\ tmp = 0
  /\ udrie = FALSE
  /\ pc = "idle" /\ left = 0 /\ fires = 0

-----------------------------------------------------------------------------

\* Broken variant of Begin: the slot that stays empty is counted as free.
BeginOneTooMany(n) ==
  /\ pc = "idle"
  /\ n <= Free + 1
  /\ pc' = "fill" /\ tmp' = WritePtr /\ left' = n
  /\ UNCHANGED <<mem, WritePtr, ReadPtr, udrie, fires>>

\* INIT_TMP_USB_TO_SERIAL.  Usbserial mode leaves the data in the endpoint until
\* it fits.  Controller mode does not look: what was sent before the last answer
\* has left the ring, so at most a USB_READY of 4 bytes is in it, and the packets
\* are assumed to fit behind that.
Begin(n) ==
  /\ pc = "idle"
  /\ n <= Free
  /\ pc' = "fill" /\ tmp' = WritePtr /\ left' = n
  /\ UNCHANGED <<mem, WritePtr, ReadPtr, udrie, fires>>

\* Broken variant of WriteByte: the pointer is not masked.
WriteByteUnmasked(b) ==
  /\ pc = "fill" /\ left > 0
  /\ mem' = [mem EXCEPT ![tmp] = b]
  /\ tmp' = tmp + 1
  /\ left' = left - 1
  /\ UNCHANGED <<WritePtr, ReadPtr, udrie, pc, fires>>

WriteByte(b) ==
  /\ pc = "fill" /\ left > 0
  /\ mem' = [mem EXCEPT ![tmp] = b]
  /\ tmp' = Inc(tmp)
  /\ left' = left - 1
  /\ UNCHANGED <<WritePtr, ReadPtr, udrie, pc, fires>>

\* The first half of FINISH_WRITE.
Publish ==
  /\ pc = "fill" /\ left = 0
  /\ WritePtr' = tmp
  /\ pc' = "enable" /\ fires' = 0
  /\ UNCHANGED <<mem, ReadPtr, udrie, tmp, left>>

\* The second half.
Enable ==
  /\ pc = "enable"
  /\ udrie' = TRUE
  /\ pc' = "idle" /\ fires' = 0
  /\ UNCHANGED <<mem, WritePtr, ReadPtr, tmp, left>>

\* Broken variant of SendByte: the pointers are compared before the increment.
SendByteCheckedEarly ==
  /\ udrie
  /\ IF pc = "enable" THEN fires < Window /\ fires' = fires + 1 ELSE UNCHANGED fires
  /\ ReadPtr' = Inc(ReadPtr)
  /\ udrie' = (ReadPtr # WritePtr)
  /\ UNCHANGED <<mem, WritePtr, pc, tmp, left>>

\* Broken variant of SendByte: the interrupt stops one byte early.
SendByteStopsEarly ==
  /\ udrie
  /\ IF pc = "enable" THEN fires < Window /\ fires' = fires + 1 ELSE UNCHANGED fires
  /\ ReadPtr' = Inc(ReadPtr)
  /\ udrie' = (Inc(Inc(ReadPtr)) # WritePtr)
  /\ UNCHANGED <<mem, WritePtr, pc, tmp, left>>

\* ISR(USART1_UDRE_vect).
SendByte ==
  /\ udrie
  /\ IF pc = "enable" THEN fires < Window /\ fires' = fires + 1 ELSE UNCHANGED fires
  /\ ReadPtr' = Inc(ReadPtr)
  /\ udrie' = (Inc(ReadPtr) # WritePtr)
  /\ UNCHANGED <<mem, WritePtr, pc, tmp, left>>

\* SetLineEncoding in usbserial mode: the pointers are cleared one after the
\* other, and only when the USART is reconfigured is the interrupt disabled.
FlushRead ==
  /\ pc = "idle"
  /\ FlushBusy \/ Count = 0
  /\ ReadPtr' = 0
  /\ pc' = "flush"
  /\ UNCHANGED <<mem, WritePtr, udrie, tmp, left, fires>>

FlushWrite ==
  /\ pc = "flush"
  /\ WritePtr' = 0
  /\ pc' = "reconfigure"
  /\ UNCHANGED <<mem, ReadPtr, udrie, tmp, left, fires>>

Reconfigure ==
  /\ pc = "reconfigure"
  /\ udrie' = FALSE
  /\ pc' = "idle"
  /\ UNCHANGED <<mem, WritePtr, ReadPtr, tmp, left, fires>>

Next ==
  \/ \E n \in MinWrite..MaxWrite : Begin(n)
  \/ \E b \in Bytes : WriteByte(b)
  \/ Publish
  \/ Enable
  \/ SendByte
  \/ FlushRead \/ FlushWrite \/ Reconfigure

Spec == Init /\ [][Next]_vars

Write == \E b \in Bytes : WriteByte(b)

\* The main program gets to the end of what it does and the UART keeps sending.
FairSpec ==
  /\ Spec
  /\ WF_vars(Write) /\ WF_vars(Publish) /\ WF_vars(Enable)
  /\ WF_vars(FlushWrite) /\ WF_vars(Reconfigure)
  /\ WF_vars(SendByte)

-----------------------------------------------------------------------------
(* Properties. *)

\* The interrupt is enabled only when there is a byte to send: it "turns off ...,
\* all bytes sent" (ISR(USART1_UDRE_vect)), and FINISH_WRITE, which does not look,
\* never turns it on again behind the interrupt's back.  An interrupt on an empty
\* ring would go on to send every stale byte of it.
NothingStaleSent == udrie => (ReadPtr # WritePtr \/ pc = "flush")

\* Bytes that wait have the interrupt enabled, or the main program is about to
\* enable it: none is stuck until the next write.
NoneStuck == (pc \in {"idle", "fill"} /\ ReadPtr # WritePtr) => udrie

\* The bytes published and not sent, oldest first.
Unsent == [i \in 1..Count |-> mem[(ReadPtr + i - 1) % Size]]

\* The queue that the ring stands for: nothing waits while the line is changed.
Waiting == IF pc \in {"flush", "reconfigure"} THEN <<>> ELSE Unsent

Fifo == INSTANCE ByteFifo WITH
          queue <- Waiting,
          MinPut <- MinWrite, MaxPut <- MaxWrite, Capacity <- Size - 1

\* The ring is a queue of whole packets, however the interrupt falls between the
\* instructions of a write, and a change of the line may drop what waits.
FifoSpec == Fifo!Spec
=============================================================================
