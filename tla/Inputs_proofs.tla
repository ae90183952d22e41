---------------------------- MODULE Inputs_proofs ----------------------------
(***************************************************************************)
(* From the inputs to the console: the transfers of the two-wire bus that  *)
(* read an extension (TwiMaster), and the reports the console is given of  *)
(* the buttons (Reports).  They are two specifications, proved apart; the  *)
(* names of the first carry the prefix Twi.                                *)
(*                                                                         *)
(* TwiMaster: for every buffer length and every length of transfer,        *)
(* whatever was given up before, what twi_readFrom and twi_writeTo say has *)
(* happened has happened.                                                  *)
(*                                                                         *)
(* Reports: for every set of devices, debounce times, wrap of the numbers  *)
(* and number of resets, what is remembered as sent was sent or is about   *)
(* to be (Known), and each series of numbers goes on where the packet that *)
(* waits, or the last one read, left it (Follows).  Both rest on the shape *)
(* of the packet that waits (Typed).  From the first it follows that a     *)
(* device that finds nothing to send has told the console exactly what is  *)
(* held (NothingIsUntold).                                                 *)
(***************************************************************************)
EXTENDS TwiMaster, Reports, SequenceTheorems, TLAPS

-----------------------------------------------------------------------------
(* The inductive invariant. *)

\* The main program can start a transfer only when the one before is over, on the
\* wires and in the interrupt.
AtRest ==
  /\ twi_state = "READY" => bus = "idle" /\ isr = "none"
  /\ pc # "done?" /\ returned.ok => twi_state = "READY"
  /\ isr = "stopping" => bus \in {"idle", "stop"}

\* A call that waits for the end of a transfer waits for its own.
Current ==
  /\ pc = "done?" =>
       /\ twi_slarw = Head(todo).op
       /\ twi_slarw = "write" => twi_masterBufferLength = Head(todo).length
       /\ twi_slarw = "read" => twi_masterBufferLength = Head(todo).length - 1
  /\ twi_slarw = "read" => twi_masterBufferLength < TWI_BUFFER_LENGTH

\* How far the bytes of a write are, at each stage of the wires.
WriteProgress ==
  twi_slarw = "write" =>
    /\ \A i \in Slots : i < twi_masterBufferLength => twi_masterBuffer[i] = i + 1
    /\ Len(got) <= twi_masterBufferLength /\ got = [i \in 1..Len(got) |-> i]
    /\ twi_masterBufferIndex <= twi_masterBufferLength
    /\ bus # "receive"
    /\ bus \in {"start", "address"} => twi_masterBufferIndex = 0 /\ Len(got) = 0
    /\ bus = "transmit" => twi_masterBufferIndex = Len(got) + 1 /\ twdr = Len(got) + 1
    /\ bus = "flag" =>
         /\ status \in Errors \cup {"TW_START", "TW_MT_SLA_ACK", "TW_MT_DATA_ACK"}
         /\ status \in {"TW_START", "TW_MT_SLA_ACK"} =>
              twi_masterBufferIndex = 0 /\ Len(got) = 0
         /\ status = "TW_MT_DATA_ACK" => twi_masterBufferIndex = Len(got)
    /\ bus \in {"stop", "idle"} /\ twi_error = "none" => Len(got) = twi_masterBufferLength

\* How far the bytes of a read are: one of them may be in the data register.
ReadProgress ==
  twi_slarw = "read" =>
    /\ \A i \in Slots : i < twi_masterBufferIndex => twi_masterBuffer[i] = i + 1
    /\ bus # "transmit"
    /\ bus \in {"start", "address"} => twi_masterBufferIndex = 0 /\ sent = 0
    /\ bus = "receive" =>
         /\ twi_masterBufferIndex = sent /\ sent <= twi_masterBufferLength
         /\ twea = (sent < twi_masterBufferLength)
    /\ bus = "flag" =>
         /\ status \notin {"TW_MT_SLA_ACK", "TW_MT_DATA_ACK"}
         /\ status \in {"TW_START", "TW_MR_SLA_ACK", "TW_MR_SLA_NACK"} =>
              twi_masterBufferIndex = 0 /\ sent = 0
         /\ status = "TW_MR_DATA_ACK" => sent <= twi_masterBufferLength
         /\ status = "TW_MR_DATA_NACK" => sent = twi_masterBufferLength + 1
         /\ status \in {"TW_MR_DATA_ACK", "TW_MR_DATA_NACK"} =>
              twi_masterBufferIndex + 1 = sent /\ twdr = sent
         /\ status \in Errors =>
              twi_masterBufferIndex = sent /\ sent <= twi_masterBufferLength
    /\ bus \in {"stop", "idle"} =>
         /\ twi_masterBufferIndex = sent
         /\ sent <= twi_masterBufferLength + 1
         /\ twi_error = "none" /\ sent > 0 => sent = twi_masterBufferLength + 1

TransferInv == TwiTypeOK /\ AtRest /\ Current /\ WriteProgress /\ ReadProgress /\ Faithful

-----------------------------------------------------------------------------
(* Sequences. *)

\* The call the main program is making.
LEMMA HeadCall ==
  ASSUME MainTypes, pc # "outside"
  PROVE  /\ Head(todo) \in Calls /\ Tail(todo) \in Seq(Calls)
         /\ Head(todo).op \in Ops /\ Head(todo).length \in 1..TWI_BUFFER_LENGTH
<1>1. todo \in Seq(Calls) /\ todo # <<>>
  BY DEF MainTypes
<1>2. Head(todo) \in Calls /\ Tail(todo) \in Seq(Calls)
  BY <1>1, HeadTailProperties
<1> QED
  BY <1>2 DEF Calls

\* Whatever a call returns, the main program's variables keep their types.
LEMMA ReturnTypes ==
  ASSUME MainTypes, pc # "outside",
         NEW ok \in BOOLEAN, NEW data \in Seq(Bytes), Return(ok, data)
  PROVE  MainTypes'
<1>1. Tail(todo) \in Seq(Calls) /\ <<>> \in Seq(Calls)
  BY HeadCall, EmptySeq
<1>2. todo' \in Seq(Calls) /\ (pc' # "outside" => todo' # <<>>) /\ pc' \in {"outside", "ready?"}
  BY <1>1 DEF Return
<1>3. /\ returned'.op \in Ops /\ returned'.length \in 1..TWI_BUFFER_LENGTH
      /\ returned'.ok \in BOOLEAN /\ returned'.data \in Seq(Bytes)
  BY HeadCall DEF Return
<1> QED
  BY <1>2, <1>3 DEF MainTypes

\* Sending the next byte of a count lengthens the count.
LEMMA CountOn ==
  ASSUME got \in Seq(Bytes), got = [i \in 1..Len(got) |-> i], Len(got) + 1 \in Bytes
  PROVE  /\ Append(got, Len(got) + 1) \in Seq(Bytes)
         /\ Len(Append(got, Len(got) + 1)) = Len(got) + 1
         /\ Append(got, Len(got) + 1) = [i \in 1..(Len(got) + 1) |-> i]
<1> DEFINE longer == Append(got, Len(got) + 1)
<1>1. Len(got) \in Nat
  BY LenProperties
<1>2. /\ longer \in Seq(Bytes) /\ Len(longer) = Len(got) + 1
      /\ \A i \in 1..Len(got) : longer[i] = got[i]
      /\ longer[Len(got) + 1] = Len(got) + 1
  BY AppendProperties
<1> HIDE DEF longer
<1>3. longer \in [1..(Len(got) + 1) -> Bytes]
  BY <1>2, LenProperties
<1>4. \A i \in 1..(Len(got) + 1) : longer[i] = i
  <2> SUFFICES ASSUME NEW i \in 1..(Len(got) + 1) PROVE longer[i] = i
    OBVIOUS
  <2>1. CASE i \in 1..Len(got)
    <3>1. got[i] = i
      BY <2>1
    <3>2. longer[i] = got[i]
      BY <2>1, <1>2
    <3> QED
      BY <3>1, <3>2
  <2>2. CASE i = Len(got) + 1
    BY <2>2, <1>2
  <2> QED
    BY <2>1, <2>2, <1>1
<1>5. longer = [i \in 1..(Len(got) + 1) |-> i]
  BY <1>3, <1>4
<1> QED
  BY <1>2, <1>5 DEF longer

\* No byte at all.
LEMMA NoBytes == <<>> \in Seq(Bytes) /\ Len(<<>>) = 0 /\ <<>> = [i \in 1..0 |-> i]
<1>1. <<>> \in Seq(Bytes) /\ Len(<<>>) = 0
  BY EmptySeq
<1>2. <<>> = [i \in 1..0 |-> i]
  OBVIOUS
<1> QED
  BY <1>1, <1>2

\* The buffer has a prefix that is a sequence of bytes.
LEMMA PrefixOfBuffer ==
  ASSUME TwiAssumption, DriverTypes, NEW n \in 0..TWI_BUFFER_LENGTH
  PROVE  /\ [i \in 1..n |-> twi_masterBuffer[i - 1]] \in Seq(Bytes)
         /\ Len([i \in 1..n |-> twi_masterBuffer[i - 1]]) = n
<1> DEFINE prefix == [i \in 1..n |-> twi_masterBuffer[i - 1]]
<1>1. prefix \in [1..n -> Bytes]
  BY DEF DriverTypes, Slots, TwiAssumption
<1> HIDE DEF prefix
<1>2. prefix \in Seq(Bytes) /\ Len(prefix) = n
  BY <1>1
<1> QED
  BY <1>2 DEF prefix

-----------------------------------------------------------------------------
(* The initial state. *)

\* A driver that has just been set up is in the invariant.
LEMMA InitTransfer == TwiInit => TransferInv
<1> SUFFICES ASSUME TwiInit PROVE TransferInv
  OBVIOUS
<1>1. MainTypes
  BY EmptySeq, TwiAssumption DEF TwiInit, MainTypes, Ops, TwiAssumption
<1>2. DriverTypes
  BY TwiAssumption DEF TwiInit, DriverTypes, Ops, States, Slots, Bytes, TwiAssumption
<1>3. WireTypes
  <2>1. 0 \in Bytes
    BY TwiAssumption DEF Bytes, TwiAssumption
  <2> QED
    BY <2>1, NoBytes DEF TwiInit, WireTypes, Statuses
<1>4. AtRest /\ Current
  BY DEF TwiInit, AtRest, Current
<1>5. WriteProgress
  BY NoBytes, TwiAssumption DEF TwiInit, WriteProgress, Slots, TwiAssumption
<1>6. ReadProgress /\ Faithful
  BY DEF TwiInit, ReadProgress, Faithful
<1> QED
  BY <1>1, <1>2, <1>3, <1>4, <1>5, <1>6 DEF TransferInv, TwiTypeOK

-----------------------------------------------------------------------------
(* The main program. *)

\* A driver asks for a read: the pointer, then the bytes.
LEMMA ReadFromPointerStep ==
  ASSUME TransferInv, NEW n \in Reads, ReadFromPointer(n)
  PROVE  TransferInv'
<1> USE TwiAssumption DEF TransferInv, TwiTypeOK, TwiAssumption
<1> USE DEF ReadFromPointer, MainRuns, mainVars, driverVars, hardwareVars, deviceVars
<1>1. MainTypes'
  <2>1. /\ [op |-> "write", length |-> 1] \in Calls
        /\ [op |-> "read", length |-> n] \in Calls
    BY DEF Calls, Ops
  <2>2. todo' \in Seq(Calls) /\ todo' # <<>>
    BY <2>1
  <2> QED
    BY <2>2 DEF MainTypes
<1>2. DriverTypes'
  BY DEF DriverTypes, Errors, States, AtRest, Current, WriteProgress, ReadProgress
<1>3. WireTypes'
  BY DEF WireTypes, Errors, Statuses, Bytes
<1>4. AtRest'
  BY DEF AtRest, MainTypes, DriverTypes
<1>5. Current'
  BY DEF Current, AtRest
<1>6. WriteProgress'
  BY DEF WriteProgress, AtRest, DriverTypes, WireTypes, Errors, Bytes, Slots, Current
<1>7. ReadProgress'
  BY DEF ReadProgress, AtRest, DriverTypes, WireTypes, Errors, Bytes, Slots, Current
<1>8. Faithful'
  BY DEF Faithful, AtRest
<1> QED
  BY <1>1, <1>2, <1>3, <1>4, <1>5, <1>6, <1>7, <1>8

\* A driver asks for a write.
LEMMA WriteToPointerStep ==
  ASSUME TransferInv, NEW n \in Writes, WriteToPointer(n)
  PROVE  TransferInv'
<1> USE TwiAssumption DEF TransferInv, TwiTypeOK, TwiAssumption
<1> USE DEF WriteToPointer, MainRuns, mainVars, driverVars, hardwareVars, deviceVars
<1>1. MainTypes'
  <2>1. [op |-> "write", length |-> n] \in Calls
    BY DEF Calls, Ops
  <2>2. todo' \in Seq(Calls) /\ todo' # <<>>
    BY <2>1
  <2> QED
    BY <2>2 DEF MainTypes
<1>2. DriverTypes'
  BY DEF DriverTypes, Errors, States, AtRest, Current, WriteProgress, ReadProgress
<1>3. WireTypes'
  BY DEF WireTypes, Errors, Statuses, Bytes
<1>4. AtRest'
  BY DEF AtRest, MainTypes, DriverTypes
<1>5. Current'
  BY DEF Current, AtRest
<1>6. WriteProgress'
  BY DEF WriteProgress, AtRest, DriverTypes, WireTypes, Errors, Bytes, Slots, Current
<1>7. ReadProgress'
  BY DEF ReadProgress, AtRest, DriverTypes, WireTypes, Errors, Bytes, Slots, Current
<1>8. Faithful'
  BY DEF Faithful, AtRest
<1> QED
  BY <1>1, <1>2, <1>3, <1>4, <1>5, <1>6, <1>7, <1>8

\* A transfer starts: the one before is over, so nothing of it is left to happen.
LEMMA StartStep ==
  ASSUME TransferInv, Start
  PROVE  TransferInv'
<1> USE TwiAssumption DEF TransferInv, TwiTypeOK, TwiAssumption
<1> USE DEF Start, MainRuns, SetUp, mainVars, driverVars, hardwareVars, deviceVars
<1>0. /\ Head(todo).op \in Ops /\ Head(todo).length \in 1..TWI_BUFFER_LENGTH
      /\ bus = "idle" /\ isr = "none"
  BY HeadCall DEF AtRest
<1>1. MainTypes'
  BY DEF MainTypes
<1>2. DriverTypes'
  BY <1>0 DEF DriverTypes, States, Ops, Slots, Bytes
<1>3. WireTypes'
  BY <1>0, NoBytes DEF WireTypes, Bytes
<1>4. AtRest'
  BY <1>0 DEF AtRest
<1>5. Current'
  BY <1>0 DEF Current, Ops
<1>6. WriteProgress'
  BY <1>0, NoBytes DEF WriteProgress, Slots
<1>7. ReadProgress'
  BY <1>0 DEF ReadProgress, Slots
<1>8. Faithful'
  <2>1. pc' = "done?"
    OBVIOUS
  <2> QED
    BY <2>1 DEF Faithful
<1> QED
  BY <1>1, <1>2, <1>3, <1>4, <1>5, <1>6, <1>7, <1>8

\* A call returns what the transfer did.
LEMMA FinishStep ==
  ASSUME TransferInv, Finish
  PROVE  TransferInv'
<1> USE TwiAssumption DEF TransferInv, TwiTypeOK, TwiAssumption
<1> USE DEF Finish, MainRuns, Return, mainVars, driverVars, hardwareVars, deviceVars
<1> DEFINE length == Head(todo).length
           arrived == IF twi_masterBufferIndex < length THEN twi_masterBufferIndex ELSE length
           data == [i \in 1..arrived |-> twi_masterBuffer[i - 1]]
<1>a. /\ Head(todo).op \in Ops /\ length \in 1..TWI_BUFFER_LENGTH
      /\ bus = "idle"
      /\ pc = "done?" /\ twi_state = "READY"
  BY HeadCall DEF AtRest
<1>b. arrived \in 0..TWI_BUFFER_LENGTH
  BY <1>a DEF DriverTypes
<1> HIDE DEF arrived
<1>c. data \in Seq(Bytes) /\ Len(data) = arrived
  BY <1>b, PrefixOfBuffer
<1> HIDE DEF data
<1>d. \/ Head(todo).op = "read" /\ Return(arrived > 0, data)
      \/ Head(todo).op = "write" /\ Return(twi_error = "none", <<>>)
  BY <1>a DEF Ops, data, arrived
<1>e. UNCHANGED <<driverVars, isr, hardwareVars, deviceVars, dead>> /\ pc' # "done?"
  BY <1>d
<1>1. MainTypes'
  <2>1. (arrived > 0) \in BOOLEAN /\ (twi_error = "none") \in BOOLEAN
    OBVIOUS
  <2> QED
    BY <1>a, <1>c, <1>d, <2>1, NoBytes, ReturnTypes
<1>2. DriverTypes'
  BY <1>a, <1>e DEF DriverTypes
<1>3. WireTypes'
  BY <1>a, <1>e DEF WireTypes
<1>4. AtRest'
  BY <1>a, <1>e DEF AtRest
<1>5. Current'
  BY <1>a, <1>e DEF Current
<1>6. WriteProgress'
  BY <1>a, <1>e DEF WriteProgress
<1>7. ReadProgress'
  BY <1>a, <1>e DEF ReadProgress
<1>8. Faithful'
  <2>1. CASE Head(todo).op = "write"
    <3>1. Return(twi_error = "none", <<>>) /\ twi_slarw = "write"
      BY <1>a, <1>d, <2>1 DEF Current
    <3>2. twi_error = "none" => Len(got) = length /\ got = [i \in 1..Len(got) |-> i]
      BY <1>a, <2>1, <3>1 DEF Current, WriteProgress
    <3>3. returned'.op = "write" /\ returned'.length = length /\ returned'.ok = (twi_error = "none")
      BY <2>1, <3>1
    <3>4. returned'.ok => got' = [i \in 1..returned'.length |-> i]
      BY <1>e, <3>2, <3>3
    <3> QED
      BY <3>3, <3>4 DEF Faithful
  <2>2. CASE Head(todo).op = "read"
    <3>1. Return(arrived > 0, data) /\ twi_slarw = "read"
      BY <1>a, <1>d, <2>2 DEF Current
    <3>2. /\ twi_masterBufferLength = length - 1 /\ twi_masterBufferIndex = sent
          /\ sent <= length /\ (twi_error = "none" /\ sent > 0 => sent = length)
          /\ \A i \in Slots : i < twi_masterBufferIndex => twi_masterBuffer[i] = i + 1
      BY <1>a, <3>1, <2>2 DEF Current, ReadProgress
    <3>3. arrived = sent
      BY <3>2, <1>a DEF arrived, DriverTypes
    <3>4. data = [i \in 1..arrived |-> i]
      <4>1. \A i \in 1..arrived : i - 1 \in Slots /\ i - 1 < twi_masterBufferIndex /\ i - 1 + 1 = i
        BY <1>b, <3>2, <3>3 DEF Slots
      <4>2. \A i \in 1..arrived : twi_masterBuffer[i - 1] = i
        BY <4>1, <3>2
      <4> QED
        BY <4>2 DEF data
    <3>5. returned'.op = "read" /\ returned'.length = length /\ (returned'.ok => arrived > 0)
          /\ returned'.data = data
      BY <2>2, <3>1
    <3>6. returned'.ok => /\ returned'.data = [i \in 1..Len(returned'.data) |-> i]
                          /\ Len(returned'.data) \in 1..returned'.length
                          /\ Len(returned'.data) = sent'
                          /\ Len(returned'.data) < returned'.length => twi_error' # "none"
      <4>1. returned'.data = [i \in 1..Len(returned'.data) |-> i] /\ Len(returned'.data) = sent
        BY <1>c, <3>3, <3>4, <3>5
      <4>2. returned'.ok => Len(returned'.data) \in 1..length
        BY <1>a, <1>b, <3>2, <3>3, <3>5, <4>1
      <4>3. returned'.ok /\ Len(returned'.data) < length => twi_error # "none"
        BY <1>a, <1>b, <3>2, <3>3, <3>5, <4>1
      <4>4. sent' = sent /\ twi_error' = twi_error
        BY <1>e
      <4> QED
        BY <3>5, <4>1, <4>2, <4>3, <4>4
    <3> QED
      BY <3>5, <3>6 DEF Faithful
  <2> QED
    BY <1>a, <2>1, <2>2 DEF Ops
<1> QED
  BY <1>1, <1>2, <1>3, <1>4, <1>5, <1>6, <1>7, <1>8

\* A call gives up, and says so.
LEMMA GiveUpStep ==
  ASSUME TransferInv, GiveUp
  PROVE  TransferInv'
<1> USE TwiAssumption DEF TransferInv, TwiTypeOK, TwiAssumption
<1> USE DEF GiveUp, MainRuns, Return, mainVars, driverVars, hardwareVars, deviceVars
<1>1. MainTypes'
  <2>1. pc # "outside" /\ Return(FALSE, <<>>)
    OBVIOUS
  <2> QED
    BY <2>1, NoBytes, ReturnTypes
<1>2. DriverTypes'
  BY DEF DriverTypes, Errors, States, AtRest, Current, WriteProgress, ReadProgress
<1>3. WireTypes'
  BY DEF WireTypes, Errors, Statuses, Bytes
<1>4. AtRest'
  BY DEF AtRest, MainTypes, DriverTypes
<1>5. Current'
  BY DEF Current, AtRest
<1>6. WriteProgress'
  BY DEF WriteProgress, AtRest, DriverTypes, WireTypes, Errors, Bytes, Slots, Current
<1>7. ReadProgress'
  BY DEF ReadProgress, AtRest, DriverTypes, WireTypes, Errors, Bytes, Slots, Current
<1>8. Faithful'
  BY DEF Faithful, AtRest
<1> QED
  BY <1>1, <1>2, <1>3, <1>4, <1>5, <1>6, <1>7, <1>8

-----------------------------------------------------------------------------
(* The interrupt. *)

\* The address goes out.
LEMMA IsrStartStep ==
  ASSUME TransferInv, IsrStart
  PROVE  TransferInv'
<1> USE TwiAssumption DEF TransferInv, TwiTypeOK, TwiAssumption
<1> USE DEF IsrStart, Interrupted, mainVars, driverVars, hardwareVars, deviceVars
<1>1. MainTypes'
  BY DEF MainTypes
<1>2. DriverTypes'
  BY DEF DriverTypes, Errors, States, AtRest, Current, WriteProgress, ReadProgress
<1>3. WireTypes'
  BY DEF WireTypes, Errors, Statuses, Bytes
<1>4. AtRest'
  BY DEF AtRest, MainTypes, DriverTypes
<1>5. Current'
  BY DEF Current, AtRest
<1>6. WriteProgress'
  BY DEF WriteProgress, AtRest, DriverTypes, WireTypes, Errors, Bytes, Slots, Current
<1>7. ReadProgress'
  BY DEF ReadProgress, AtRest, DriverTypes, WireTypes, Errors, Bytes, Slots, Current
<1>8. Faithful'
  BY DEF Faithful, AtRest
<1> QED
  BY <1>1, <1>2, <1>3, <1>4, <1>5, <1>6, <1>7, <1>8

\* The next byte of a write goes out, or the stop condition after the last.
LEMMA IsrTransmitStep ==
  ASSUME TransferInv, IsrTransmit
  PROVE  TransferInv'
<1> USE TwiAssumption DEF TransferInv, TwiTypeOK, TwiAssumption
<1> USE DEF IsrTransmit, Interrupted, Stop, mainVars, driverVars, hardwareVars, deviceVars
<1>a. twi_slarw = "write"
  BY DEF DriverTypes, Ops, ReadProgress
<1>b. twi_masterBufferIndex = Len(got) /\ Len(got) \in Nat
  BY <1>a, LenProperties DEF WriteProgress, WireTypes
<1>c. twi_masterBufferIndex < twi_masterBufferLength =>
        /\ twi_masterBufferIndex \in Slots
        /\ twi_masterBuffer[twi_masterBufferIndex] = twi_masterBufferIndex + 1
  <2>1. twi_masterBufferIndex < twi_masterBufferLength => twi_masterBufferIndex \in Slots
    BY DEF DriverTypes, Slots
  <2> QED
    BY <1>a, <2>1 DEF WriteProgress
<1>d. \/ /\ twi_masterBufferIndex < twi_masterBufferLength
         /\ twdr' = Len(got) + 1 /\ twi_masterBufferIndex' = Len(got) + 1
         /\ bus' = "transmit"
      \/ /\ twi_masterBufferIndex >= twi_masterBufferLength
         /\ bus' = "stop" /\ UNCHANGED twi_masterBufferIndex
  BY <1>b, <1>c
<1>1. MainTypes'
  BY DEF MainTypes
<1>2. DriverTypes'
  BY DEF DriverTypes, Errors, States, AtRest, Current, WriteProgress, ReadProgress
<1>3. WireTypes'
  <2>1. twdr' \in Bytes
    BY <1>c DEF WireTypes, DriverTypes, Bytes, Slots
  <2> QED
    BY <2>1 DEF WireTypes
<1>4. AtRest'
  BY DEF AtRest, MainTypes, DriverTypes
<1>5. Current'
  BY DEF Current, AtRest
<1>6. WriteProgress'
  <2>1. Len(got) \in Nat /\ twi_masterBufferLength \in Nat
    BY <1>b DEF DriverTypes
  <2>2. twi_masterBufferIndex' <= twi_masterBufferLength
    BY <1>a, <1>b, <1>d, <2>1 DEF WriteProgress
  <2>3. bus' = "stop" => Len(got) = twi_masterBufferLength
    <3>1. Len(got) <= twi_masterBufferLength
      BY <1>a DEF WriteProgress
    <3>2. CASE twi_masterBufferIndex >= twi_masterBufferLength
      BY <1>b, <2>1, <3>1, <3>2
    <3> QED
      BY <1>d, <3>2
  <2> QED
    BY <1>a, <1>d, <2>2, <2>3 DEF WriteProgress
<1>7. ReadProgress'
  BY <1>a DEF ReadProgress
<1>8. Faithful'
  BY DEF Faithful, AtRest
<1> QED
  BY <1>1, <1>2, <1>3, <1>4, <1>5, <1>6, <1>7, <1>8

\* What the device refused is on record before the stop condition.
LEMMA IsrRefusedStep ==
  ASSUME TransferInv, IsrRefused
  PROVE  TransferInv'
<1> USE TwiAssumption DEF TransferInv, TwiTypeOK, TwiAssumption
<1> USE DEF IsrRefused, Interrupted, Stop, mainVars, driverVars, hardwareVars, deviceVars
<1>1. MainTypes'
  BY DEF MainTypes
<1>2. DriverTypes'
  BY DEF DriverTypes, Errors, States, AtRest, Current, WriteProgress, ReadProgress
<1>3. WireTypes'
  BY DEF WireTypes, Errors, Statuses, Bytes
<1>4. AtRest'
  BY DEF AtRest, MainTypes, DriverTypes
<1>5. Current'
  BY DEF Current, AtRest
<1>6. WriteProgress'
  BY DEF WriteProgress, AtRest, DriverTypes, WireTypes, Errors, Bytes, Slots, Current
<1>7. ReadProgress'
  BY DEF ReadProgress, AtRest, DriverTypes, WireTypes, Errors, Bytes, Slots, Current
<1>8. Faithful'
  BY DEF Faithful, AtRest
<1> QED
  BY <1>1, <1>2, <1>3, <1>4, <1>5, <1>6, <1>7, <1>8

\* The bus is released with the error on record.
LEMMA IsrArbLostStep ==
  ASSUME TransferInv, IsrArbLost
  PROVE  TransferInv'
<1> USE TwiAssumption DEF TransferInv, TwiTypeOK, TwiAssumption
<1> USE DEF IsrArbLost, Interrupted, mainVars, driverVars, hardwareVars, deviceVars
<1>1. MainTypes'
  BY DEF MainTypes
<1>2. DriverTypes'
  BY DEF DriverTypes, Errors, States, AtRest, Current, WriteProgress, ReadProgress
<1>3. WireTypes'
  BY DEF WireTypes, Errors, Statuses, Bytes
<1>4. AtRest'
  BY DEF AtRest, MainTypes, DriverTypes
<1>5. Current'
  BY DEF Current, AtRest
<1>6. WriteProgress'
  BY DEF WriteProgress, AtRest, DriverTypes, WireTypes, Errors, Bytes, Slots, Current
<1>7. ReadProgress'
  BY DEF ReadProgress, AtRest, DriverTypes, WireTypes, Errors, Bytes, Slots, Current
<1>8. Faithful'
  BY DEF Faithful, AtRest
<1> QED
  BY <1>1, <1>2, <1>3, <1>4, <1>5, <1>6, <1>7, <1>8

\* The byte received goes where it belongs, and the next is acknowledged unless it is the last.
LEMMA IsrReceiveStep ==
  ASSUME TransferInv, IsrReceive
  PROVE  TransferInv'
<1> USE TwiAssumption DEF TransferInv, TwiTypeOK, TwiAssumption
<1> USE DEF IsrReceive, Interrupted, Store, mainVars, driverVars, hardwareVars, deviceVars
<1>a. twi_slarw = "read"
  BY DEF DriverTypes, Ops, WriteProgress, Errors
<1>b. /\ status = "TW_MR_DATA_ACK" =>
           /\ twi_masterBufferIndex + 1 = sent /\ twdr = sent /\ sent <= twi_masterBufferLength
      /\ status = "TW_MR_SLA_ACK" => twi_masterBufferIndex = 0 /\ sent = 0
      /\ twi_masterBufferLength < TWI_BUFFER_LENGTH
      /\ \A i \in Slots : i < twi_masterBufferIndex => twi_masterBuffer[i] = i + 1
  BY <1>a DEF ReadProgress, Current
<1>c. twi_masterBufferIndex' = sent /\ sent <= twi_masterBufferLength
  BY <1>b DEF DriverTypes
<1>d. /\ twi_masterBuffer' \in [Slots -> Bytes]
      /\ \A i \in Slots : i < sent => twi_masterBuffer'[i] = i + 1
  <2>1. CASE status = "TW_MR_DATA_ACK"
    <3>1. sent \in 1..TWI_BUFFER_LENGTH /\ twi_masterBufferIndex = sent - 1 /\ sent - 1 \in Slots
      BY <1>b, <2>1 DEF DriverTypes, WireTypes, Slots, Bytes
    <3>2. twi_masterBuffer' = [twi_masterBuffer EXCEPT ![sent - 1] = sent]
      BY <1>b, <2>1, <3>1
    <3>3. twi_masterBuffer' \in [Slots -> Bytes]
      BY <3>1, <3>2 DEF DriverTypes, Bytes
    <3>4. ASSUME NEW i \in Slots, i < sent PROVE twi_masterBuffer'[i] = i + 1
      <4>1. CASE i = sent - 1
        BY <3>1, <3>2, <4>1 DEF DriverTypes
      <4>2. CASE i # sent - 1
        <5>1. i < twi_masterBufferIndex
          BY <3>1, <3>4, <4>2, <1>b DEF Slots
        <5>2. twi_masterBuffer'[i] = twi_masterBuffer[i]
          BY <3>1, <3>2, <4>2 DEF DriverTypes
        <5> QED
          BY <1>b, <5>1, <5>2
      <4> QED
        BY <4>1, <4>2
    <3> QED
      BY <3>3, <3>4
  <2>2. CASE status # "TW_MR_DATA_ACK"
    BY <1>b, <2>2 DEF DriverTypes
  <2> QED
    BY <2>1, <2>2
<1>1. MainTypes'
  BY DEF MainTypes
<1>2. DriverTypes'
  BY <1>b, <1>c, <1>d DEF DriverTypes, WireTypes, Bytes
<1>3. WireTypes'
  BY DEF WireTypes, Errors, Statuses, Bytes
<1>4. AtRest'
  BY DEF AtRest, MainTypes, DriverTypes
<1>5. Current'
  BY DEF Current, AtRest
<1>6. WriteProgress'
  BY <1>a DEF WriteProgress
<1>7. ReadProgress'
  BY <1>a, <1>c, <1>d DEF ReadProgress
<1>8. Faithful'
  BY DEF Faithful, AtRest
<1> QED
  BY <1>1, <1>2, <1>3, <1>4, <1>5, <1>6, <1>7, <1>8

\* The last byte goes into the buffer's last place in use.
LEMMA IsrReceiveLastStep ==
  ASSUME TransferInv, IsrReceiveLast
  PROVE  TransferInv'
<1> USE TwiAssumption DEF TransferInv, TwiTypeOK, TwiAssumption
<1> USE DEF IsrReceiveLast, Interrupted, Store, Stop, mainVars, driverVars, hardwareVars, deviceVars
<1>a. twi_slarw = "read"
  BY DEF DriverTypes, Ops, WriteProgress, Errors
<1>b. /\ status = "TW_MR_DATA_NACK" =>
           /\ twi_masterBufferIndex + 1 = sent /\ twdr = sent
           /\ sent = twi_masterBufferLength + 1
      /\ status = "TW_MR_SLA_NACK" => twi_masterBufferIndex = 0 /\ sent = 0
      /\ twi_masterBufferLength < TWI_BUFFER_LENGTH
      /\ \A i \in Slots : i < twi_masterBufferIndex => twi_masterBuffer[i] = i + 1
  BY <1>a DEF ReadProgress, Current
<1>c. /\ twi_masterBufferIndex' = sent
      /\ sent = twi_masterBufferLength + 1 \/ sent = 0
  BY <1>b DEF DriverTypes
<1>d. /\ twi_masterBuffer' \in [Slots -> Bytes]
      /\ \A i \in Slots : i < sent => twi_masterBuffer'[i] = i + 1
  <2>1. CASE status = "TW_MR_DATA_NACK"
    <3>1. sent \in 1..TWI_BUFFER_LENGTH /\ twi_masterBufferIndex = sent - 1 /\ sent - 1 \in Slots
      BY <1>b, <2>1 DEF DriverTypes, WireTypes, Slots, Bytes
    <3>2. twi_masterBuffer' = [twi_masterBuffer EXCEPT ![sent - 1] = sent]
      BY <1>b, <2>1, <3>1
    <3>3. twi_masterBuffer' \in [Slots -> Bytes]
      BY <3>1, <3>2 DEF DriverTypes, Bytes
    <3>4. ASSUME NEW i \in Slots, i < sent PROVE twi_masterBuffer'[i] = i + 1
      <4>1. CASE i = sent - 1
        BY <3>1, <3>2, <4>1 DEF DriverTypes
      <4>2. CASE i # sent - 1
        <5>1. i < twi_masterBufferIndex
          BY <3>1, <3>4, <4>2, <1>b DEF Slots
        <5>2. twi_masterBuffer'[i] = twi_masterBuffer[i]
          BY <3>1, <3>2, <4>2 DEF DriverTypes
        <5> QED
          BY <1>b, <5>1, <5>2
      <4> QED
        BY <4>1, <4>2
    <3> QED
      BY <3>3, <3>4
  <2>2. CASE status # "TW_MR_DATA_NACK"
    BY <1>b, <2>2 DEF DriverTypes
  <2> QED
    BY <2>1, <2>2
<1>1. MainTypes'
  BY DEF MainTypes
<1>2. DriverTypes'
  BY <1>b, <1>c, <1>d DEF DriverTypes, WireTypes, Bytes
<1>3. WireTypes'
  BY DEF WireTypes, Errors, Statuses, Bytes
<1>4. AtRest'
  BY DEF AtRest, MainTypes, DriverTypes
<1>5. Current'
  BY DEF Current, AtRest
<1>6. WriteProgress'
  BY <1>a DEF WriteProgress
<1>7. ReadProgress'
  BY <1>a, <1>c, <1>d DEF ReadProgress, DriverTypes
<1>8. Faithful'
  BY DEF Faithful, AtRest
<1> QED
  BY <1>1, <1>2, <1>3, <1>4, <1>5, <1>6, <1>7, <1>8

\* The stop condition is sent: the transfer is over.
LEMMA StoppedStep ==
  ASSUME TransferInv, Stopped
  PROVE  TransferInv'
<1> USE TwiAssumption DEF TransferInv, TwiTypeOK, TwiAssumption
<1> USE DEF Stopped, mainVars, driverVars, hardwareVars, deviceVars
<1>1. MainTypes'
  BY DEF MainTypes
<1>2. DriverTypes'
  BY DEF DriverTypes, Errors, States, AtRest, Current, WriteProgress, ReadProgress
<1>3. WireTypes'
  BY DEF WireTypes, Errors, Statuses, Bytes
<1>4. AtRest'
  BY DEF AtRest, MainTypes, DriverTypes
<1>5. Current'
  BY DEF Current, AtRest
<1>6. WriteProgress'
  BY DEF WriteProgress, AtRest, DriverTypes, WireTypes, Errors, Bytes, Slots, Current
<1>7. ReadProgress'
  BY DEF ReadProgress, AtRest, DriverTypes, WireTypes, Errors, Bytes, Slots, Current
<1>8. Faithful'
  BY DEF Faithful, AtRest
<1> QED
  BY <1>1, <1>2, <1>3, <1>4, <1>5, <1>6, <1>7, <1>8

\* The interrupt leaves the stop condition behind, and the state busy.
LEMMA StopTimeoutStep ==
  ASSUME TransferInv, StopTimeout
  PROVE  TransferInv'
<1> USE TwiAssumption DEF TransferInv, TwiTypeOK, TwiAssumption
<1> USE DEF StopTimeout, mainVars, driverVars, hardwareVars, deviceVars
<1>1. MainTypes'
  BY DEF MainTypes
<1>2. DriverTypes'
  BY DEF DriverTypes, Errors, States, AtRest, Current, WriteProgress, ReadProgress
<1>3. WireTypes'
  BY DEF WireTypes, Errors, Statuses, Bytes
<1>4. AtRest'
  BY DEF AtRest, MainTypes, DriverTypes
<1>5. Current'
  BY DEF Current, AtRest
<1>6. WriteProgress'
  BY DEF WriteProgress, AtRest, DriverTypes, WireTypes, Errors, Bytes, Slots, Current
<1>7. ReadProgress'
  BY DEF ReadProgress, AtRest, DriverTypes, WireTypes, Errors, Bytes, Slots, Current
<1>8. Faithful'
  BY DEF Faithful, AtRest
<1> QED
  BY <1>1, <1>2, <1>3, <1>4, <1>5, <1>6, <1>7, <1>8

-----------------------------------------------------------------------------
(* The wires. *)

\* The start condition is sent.
LEMMA StartSentStep ==
  ASSUME TransferInv, StartSent
  PROVE  TransferInv'
<1> USE TwiAssumption DEF TransferInv, TwiTypeOK, TwiAssumption
<1> USE DEF StartSent, Flag, mainVars, driverVars, hardwareVars, deviceVars
<1>1. MainTypes'
  BY DEF MainTypes
<1>2. DriverTypes'
  BY DEF DriverTypes, Errors, States, AtRest, Current, WriteProgress, ReadProgress
<1>3. WireTypes'
  BY DEF WireTypes, Errors, Statuses, Bytes
<1>4. AtRest'
  BY DEF AtRest, MainTypes, DriverTypes
<1>5. Current'
  BY DEF Current, AtRest
<1>6. WriteProgress'
  BY DEF WriteProgress, AtRest, DriverTypes, WireTypes, Errors, Bytes, Slots, Current
<1>7. ReadProgress'
  BY DEF ReadProgress, AtRest, DriverTypes, WireTypes, Errors, Bytes, Slots, Current
<1>8. Faithful'
  BY DEF Faithful, AtRest
<1> QED
  BY <1>1, <1>2, <1>3, <1>4, <1>5, <1>6, <1>7, <1>8

\* The device answers the address or does not.
LEMMA AddressSentStep ==
  ASSUME TransferInv, AddressSent
  PROVE  TransferInv'
<1> USE TwiAssumption DEF TransferInv, TwiTypeOK, TwiAssumption
<1> USE DEF AddressSent, Flag, mainVars, driverVars, hardwareVars, deviceVars
<1>1. MainTypes'
  BY DEF MainTypes
<1>2. DriverTypes'
  BY DEF DriverTypes, Errors, States, AtRest, Current, WriteProgress, ReadProgress
<1>3. WireTypes'
  BY DEF WireTypes, Errors, Statuses, Bytes
<1>4. AtRest'
  BY DEF AtRest, MainTypes, DriverTypes
<1>5. Current'
  BY DEF Current, AtRest
<1>6. WriteProgress'
  BY DEF WriteProgress, AtRest, DriverTypes, WireTypes, Errors, Bytes, Slots, Current
<1>7. ReadProgress'
  BY DEF ReadProgress, AtRest, DriverTypes, WireTypes, Errors, Bytes, Slots, Current
<1>8. Faithful'
  BY DEF Faithful, AtRest
<1> QED
  BY <1>1, <1>2, <1>3, <1>4, <1>5, <1>6, <1>7, <1>8

\* A byte is acknowledged, and counts, or is refused, and does not.
LEMMA ByteSentStep ==
  ASSUME TransferInv, ByteSent
  PROVE  TransferInv'
<1> USE TwiAssumption DEF TransferInv, TwiTypeOK, TwiAssumption
<1> USE DEF ByteSent, Flag, mainVars, driverVars, hardwareVars, deviceVars
<1>a. twi_slarw = "write"
  BY DEF DriverTypes, Ops, ReadProgress
<1>b. /\ Len(got) \in Nat /\ twdr = Len(got) + 1
      /\ twi_masterBufferIndex = Len(got) + 1
      /\ twi_masterBufferIndex <= twi_masterBufferLength
      /\ got = [i \in 1..Len(got) |-> i]
  BY <1>a, LenProperties DEF WriteProgress, WireTypes
<1>c. /\ Append(got, twdr) \in Seq(Bytes) /\ Len(Append(got, twdr)) = Len(got) + 1
      /\ Append(got, twdr) = [i \in 1..Len(Append(got, twdr)) |-> i]
  <2>1. got \in Seq(Bytes) /\ Len(got) + 1 \in Bytes
    BY <1>b DEF WireTypes
  <2> QED
    BY <1>b, <2>1, CountOn
<1>d. /\ bus' = "flag"
      /\ \/ status' = "TW_MT_DATA_ACK" /\ got' = Append(got, twdr)
         \/ status' = "TW_MT_DATA_NACK" /\ got' = got
  OBVIOUS
<1>e. /\ got' \in Seq(Bytes) /\ Len(got') <= twi_masterBufferLength
      /\ got' = [i \in 1..Len(got') |-> i]
      /\ status' = "TW_MT_DATA_ACK" => twi_masterBufferIndex = Len(got')
  <2>1. CASE status' = "TW_MT_DATA_ACK"
    BY <1>b, <1>c, <1>d, <2>1
  <2>2. CASE status' = "TW_MT_DATA_NACK"
    <3>1. got' = got /\ Len(got) <= twi_masterBufferLength
      BY <1>a, <1>d, <2>2 DEF WriteProgress
    <3> QED
      BY <1>b, <2>2, <3>1 DEF WireTypes
  <2> QED
    BY <1>d, <2>1, <2>2
<1>1. MainTypes'
  BY DEF MainTypes
<1>2. DriverTypes'
  BY DEF DriverTypes, Errors, States, AtRest, Current, WriteProgress, ReadProgress
<1>3. WireTypes'
  BY <1>d, <1>e DEF WireTypes, Statuses, Errors
<1>4. AtRest'
  BY DEF AtRest, MainTypes, DriverTypes
<1>5. Current'
  BY DEF Current, AtRest
<1>6. WriteProgress'
  BY <1>a, <1>b, <1>d, <1>e DEF WriteProgress, Errors
<1>7. ReadProgress'
  BY <1>a DEF ReadProgress
<1>8. Faithful'
  BY DEF Faithful, AtRest
<1> QED
  BY <1>1, <1>2, <1>3, <1>4, <1>5, <1>6, <1>7, <1>8

\* The device sends the next byte.
LEMMA ByteReceivedStep ==
  ASSUME TransferInv, ByteReceived
  PROVE  TransferInv'
<1> USE TwiAssumption DEF TransferInv, TwiTypeOK, TwiAssumption
<1> USE DEF ByteReceived, Flag, mainVars, driverVars, hardwareVars, deviceVars
<1>a. twi_slarw = "read"
  BY DEF DriverTypes, Ops, WriteProgress
<1>b. /\ twi_masterBufferIndex = sent /\ sent <= twi_masterBufferLength
      /\ (twea => sent < twi_masterBufferLength)
      /\ (~twea => ~(sent < twi_masterBufferLength))
      /\ twi_masterBufferLength < TWI_BUFFER_LENGTH
  BY <1>a DEF ReadProgress, Current
<1>1. MainTypes'
  BY DEF MainTypes
<1>2. DriverTypes'
  BY DEF DriverTypes, Errors, States, AtRest, Current, WriteProgress, ReadProgress
<1>3. WireTypes'
  BY <1>b DEF WireTypes, DriverTypes, Statuses, Bytes
<1>4. AtRest'
  BY DEF AtRest, MainTypes, DriverTypes
<1>5. Current'
  BY DEF Current, AtRest
<1>6. WriteProgress'
  BY <1>a DEF WriteProgress
<1>7. ReadProgress'
  <2>1. /\ bus' = "flag" /\ sent' = sent + 1 /\ twdr' = sent + 1
        /\ status' = IF twea THEN "TW_MR_DATA_ACK" ELSE "TW_MR_DATA_NACK"
        /\ UNCHANGED driverVars
    OBVIOUS
  <2>2. sent \in Nat /\ twi_masterBufferLength \in Nat
    BY DEF WireTypes, DriverTypes, Bytes
  <2>3. CASE twea
    BY <1>a, <1>b, <2>1, <2>2, <2>3 DEF ReadProgress, Errors
  <2>4. CASE ~twea
    BY <1>a, <1>b, <2>1, <2>2, <2>4 DEF ReadProgress, Errors
  <2> QED
    BY <2>3, <2>4
<1>8. Faithful'
  BY DEF Faithful, AtRest
<1> QED
  BY <1>1, <1>2, <1>3, <1>4, <1>5, <1>6, <1>7, <1>8

\* A disturbance ends the transfer with what has been transferred.
LEMMA NoiseStep ==
  ASSUME TransferInv, Noise
  PROVE  TransferInv'
<1> USE TwiAssumption DEF TransferInv, TwiTypeOK, TwiAssumption
<1> USE DEF Noise, Flag, mainVars, driverVars, hardwareVars, deviceVars
<1>1. MainTypes'
  BY DEF MainTypes
<1>2. DriverTypes'
  BY DEF DriverTypes, Errors, States, AtRest, Current, WriteProgress, ReadProgress
<1>3. WireTypes'
  BY DEF WireTypes, Errors, Statuses, Bytes
<1>4. AtRest'
  BY DEF AtRest, MainTypes, DriverTypes
<1>5. Current'
  BY DEF Current, AtRest
<1>6. WriteProgress'
  BY DEF WriteProgress, AtRest, DriverTypes, WireTypes, Errors, Bytes, Slots, Current
<1>7. ReadProgress'
  BY DEF ReadProgress, AtRest, DriverTypes, WireTypes, Errors, Bytes, Slots, Current
<1>8. Faithful'
  BY DEF Faithful, AtRest
<1> QED
  BY <1>1, <1>2, <1>3, <1>4, <1>5, <1>6, <1>7, <1>8

\* The stop condition is through.
LEMMA StopSentStep ==
  ASSUME TransferInv, StopSent
  PROVE  TransferInv'
<1> USE TwiAssumption DEF TransferInv, TwiTypeOK, TwiAssumption
<1> USE DEF StopSent, mainVars, driverVars, hardwareVars, deviceVars
<1>1. MainTypes'
  BY DEF MainTypes
<1>2. DriverTypes'
  BY DEF DriverTypes, Errors, States, AtRest, Current, WriteProgress, ReadProgress
<1>3. WireTypes'
  BY DEF WireTypes, Errors, Statuses, Bytes
<1>4. AtRest'
  BY DEF AtRest, MainTypes, DriverTypes
<1>5. Current'
  BY DEF Current, AtRest
<1>6. WriteProgress'
  BY DEF WriteProgress, AtRest, DriverTypes, WireTypes, Errors, Bytes, Slots, Current
<1>7. ReadProgress'
  BY DEF ReadProgress, AtRest, DriverTypes, WireTypes, Errors, Bytes, Slots, Current
<1>8. Faithful'
  BY DEF Faithful, AtRest
<1> QED
  BY <1>1, <1>2, <1>3, <1>4, <1>5, <1>6, <1>7, <1>8

-----------------------------------------------------------------------------
(* The specification. *)

\* Every step keeps the invariant.
LEMMA TransferStep == TransferInv /\ [TwiNext]_twiVars => TransferInv'
<1> SUFFICES ASSUME TransferInv, [TwiNext]_twiVars PROVE TransferInv'
  OBVIOUS
<1>1. CASE UNCHANGED twiVars
  <2> USE <1>1 DEF twiVars, mainVars, driverVars, hardwareVars, deviceVars, TransferInv, TwiTypeOK
  <2>1. MainTypes' /\ DriverTypes' /\ WireTypes'
    BY DEF MainTypes, DriverTypes, WireTypes
  <2>2. AtRest' /\ Current'
    BY DEF AtRest, Current
  <2>3. WriteProgress'
    BY DEF WriteProgress
  <2>4. ReadProgress' /\ Faithful'
    BY DEF ReadProgress, Faithful
  <2> QED
    BY <2>1, <2>2, <2>3, <2>4
<1>2. CASE \/ \E n \in Reads : ReadFromPointer(n)
           \/ \E n \in Writes : WriteToPointer(n)
           \/ Main
  BY <1>2, ReadFromPointerStep, WriteToPointerStep, StartStep, FinishStep, GiveUpStep DEF Main
<1>3. CASE Isr
  BY <1>3, IsrStartStep, IsrTransmitStep, IsrRefusedStep, IsrArbLostStep, IsrReceiveStep,
     IsrReceiveLastStep, StoppedStep, StopTimeoutStep DEF Isr
<1>4. CASE Bus \/ Noise
  BY <1>4, StartSentStep, AddressSentStep, ByteSentStep, ByteReceivedStep, NoiseStep,
     StopSentStep DEF Bus
<1> QED
  BY <1>1, <1>2, <1>3, <1>4 DEF TwiNext

\* The invariant holds throughout.
LEMMA TransferInvariant == TwiSpec => []TransferInv
  BY InitTransfer, TransferStep, PTL DEF TwiSpec

\* The variables stay in their types: above all twi_masterBufferIndex in the buffer, which
\* the interrupt moves on for each byte the device sends, whatever was given up meanwhile.
THEOREM TwiTypeCorrect == TwiSpec => []TwiTypeOK
<1>1. TransferInv => TwiTypeOK
  BY DEF TransferInv
<1> QED
  BY <1>1, TransferInvariant, PTL

\* For every buffer, every length of transfer and every sequence of calls given up, what a
\* call says has happened has happened (twi_readFrom, twi_writeTo, TWI_vect).
THEOREM FaithfulCalls == TwiSpec => []Faithful
<1>1. TransferInv => Faithful
  BY DEF TransferInv
<1> QED
  BY <1>1, TransferInvariant, PTL

-----------------------------------------------------------------------------
(* The reports: what the variables hold.                                   *)

\* The timers, the reports remembered and what the console knows.
Timers == [Buttons -> 0..Debounce]
Layouts == {"none", "nav", "hid"}
Remembered == [AllIds -> [layout : Layouts, buttons : SUBSET Buttons]]
Sight == SUBSET (Buttons \cup Unknown)
Consoles == [view : [AllIds -> Sight], guide : Sight, nav : 0..Numbers - 1,
             hid : 0..Numbers - 1, key : 0..Numbers - 1 \cup {Anything}]

\* The packet that waits: none, an empty one, a keystroke, or a report of the device.
Waiting ==
  \/ endpoint = <<>>
  \/ endpoint = <<[tag |-> "empty"]>>
  \/ \E n \in 0..Numbers - 1, down \in BOOLEAN :
       endpoint = <<[tag |-> "key", number |-> n, pressed |-> down]>>
  \/ \E layout \in {"nav", "hid"}, i \in DOMAIN Ids, n \in 0..Numbers - 1,
        s \in SUBSET Buttons :
       endpoint = <<[tag |-> layout, id |-> Ids[i], number |-> n, buttons |-> s]>>

Typed ==
  /\ kind \in Kinds /\ held \subseteq Buttons
  /\ debounce \in Timers /\ last \in Remembered /\ console \in Consoles
  /\ lastGuide \in BOOLEAN /\ seenPs4 \in BOOLEAN /\ poked \in BOOLEAN
  /\ seq \in 1..Numbers - 1 /\ hidSeq \in 1..Numbers - 1
  /\ keySeq \in 0..Numbers - 1
  /\ resets \in 0..MaxResets
  /\ Waiting

Waits(tag) == endpoint # <<>> /\ endpoint[1].tag = tag

\* In each series the number given next follows the last one given: the one in the
\* packet that waits, else the one the console has read last.
Follows ==
  kind \in {"xboxone", "ghl"} =>
    /\ IF Waits("nav")
         THEN endpoint[1].number = Successor(console.nav) /\ seq = Successor(endpoint[1].number)
         ELSE seq = Successor(console.nav)
    /\ IF Waits("hid")
         THEN endpoint[1].number = Successor(console.hid) /\ hidSeq = Successor(endpoint[1].number)
         ELSE hidSeq = Successor(console.hid)
    /\ IF Waits("key")
         THEN /\ console.key = Anything \/ endpoint[1].number = Wrapping(console.key)
              /\ keySeq = Wrapping(endpoint[1].number)
         ELSE console.key = Anything \/ keySeq = Wrapping(console.key)

-----------------------------------------------------------------------------
(* The numbers.                                                            *)

LEMMA FollowingMeans ==
  /\ Successor(0) = 1
  /\ \A n \in 1..Numbers - 1 : Following(n) = Successor(n) /\ Following(n) \in 1..Numbers - 1
<1>1. Numbers \in Nat /\ Numbers > 2
  BY BoundsAssumption
<1> DEFINE m == Numbers - 1
<1>2. m \in Nat /\ m > 1
  BY <1>1
<1>3. 0 % m = 0 /\ m % m = 0 /\ \A n \in 1..m - 1 : n % m = n
  <2> HIDE DEF m
  <2> QED
    BY <1>2
<1>4. Successor(0) = 1
  BY <1>3 DEF Successor
<1>5. ASSUME NEW n \in 1..m
      PROVE  Following(n) = Successor(n) /\ Following(n) >= 1 /\ Following(n) <= m
  <2>1. Following(n) = IF n = m THEN 1 ELSE n + 1
    BY DEF Following
  <2>2. Successor(n) = (n % m) + 1
    BY DEF Successor
  <2> HIDE DEF m
  <2>3. CASE n = m
    BY <1>2, <1>3, <2>1, <2>2, <2>3
  <2>4. CASE n # m
    BY <1>2, <1>3, <2>1, <2>2, <2>4
  <2> QED
    BY <2>3, <2>4
<1>6. \A n \in 1..m : Following(n) \in Int
  BY <1>1 DEF Following
<1> QED
  BY <1>2, <1>4, <1>5, <1>6

LEMMA WrappingMeans ==
  /\ Wrapping(0) = 1
  /\ \A n \in 0..Numbers - 1 : Wrapping(n) \in 0..Numbers - 1
<1>1. Numbers \in Nat /\ Numbers > 2
  BY BoundsAssumption
<1>2. \A n \in 0..Numbers - 1 : (n + 1) % Numbers \in 0..Numbers - 1
  BY <1>1
<1>3. (0 + 1) % Numbers = 1
  BY <1>1
<1> QED
  BY <1>2, <1>3 DEF Wrapping

-----------------------------------------------------------------------------
(* One report.                                                             *)

LEMMA IdsMeans ==
  ASSUME kind \in Kinds
  PROVE  /\ DOMAIN Ids = IF kind = "keyboard" THEN 1..3 ELSE 1..1
         /\ \A i \in DOMAIN Ids : Ids[i] \in AllIds
<1>1. CASE kind = "keyboard"
  <2>1. Ids = <<"nkro", "consumer", "mouse">>
    BY <1>1 DEF Ids
  <2> QED
    BY <1>1, <2>1 DEF AllIds
<1>2. CASE kind # "keyboard"
  <2>1. Ids = <<"controller">>
    BY <1>2 DEF Ids
  <2> QED
    BY <1>2, <2>1 DEF AllIds
<1> QED
  BY <1>1, <1>2

LEMMA DebounceNat == kind \in Kinds => Debounce \in Nat /\ Debounce > 0
BY BoundsAssumption DEF Debounce

LEMMA ElapsedTypes ==
  ASSUME kind \in Kinds, NEW d \in Timers, NEW n \in Nat
  PROVE  Elapsed(d, n) \in Timers
<1>1. Debounce \in Nat
  BY DebounceNat
<1>2. ASSUME NEW x \in Buttons
      PROVE  (IF d[x] > n THEN d[x] - n ELSE 0) \in 0..Debounce
  <2> DEFINE e == d[x]
  <2>1. e \in 0..Debounce
    BY DEF Timers
  <2> HIDE DEF e
  <2>2. (IF e > n THEN e - n ELSE 0) \in 0..Debounce
    <3>1. CASE e > n
      BY <1>1, <2>1, <3>1
    <3>2. CASE ~(e > n)
      BY <1>1, <2>1, <3>2
    <3> QED
      BY <3>1, <3>2
  <2> QED
    BY <2>2 DEF e
<1> QED
  BY <1>2 DEF Elapsed, Timers

LEMMA ArmedTypes ==
  ASSUME kind \in Kinds, NEW d \in Timers
  PROVE  [x \in Buttons |-> IF x \in held THEN Debounce ELSE d[x]] \in Timers
<1>1. Debounce \in 0..Debounce
  BY DebounceNat
<1> QED
  BY <1>1 DEF Timers

LEMMA ReportTypes ==
  ASSUME NEW id \in AllIds, NEW d
  PROVE  /\ Report(id, d).layout = Layout /\ Layout \in {"nav", "hid"}
         /\ Report(id, d).buttons \in SUBSET Buttons
         /\ Report(id, d) = [layout |-> Layout, buttons |-> Report(id, d).buttons]
<1> DEFINE down == {x \in Carried(id) : d[x] > 0}
           shown == CASE Nav -> down \ {"guide"}
                      [] kind = "ps4" /\ ~seenPs4 -> down \cup {"guide"}
                      [] OTHER -> down
<1>1. Report(id, d) = [layout |-> Layout, buttons |-> Placed(shown)]
  BY DEF Report
<1>2. Carried(id) \subseteq Buttons
  BY DEF Carried, Buttons
<1>3. shown \subseteq Buttons
  <2>1. down \subseteq Buttons /\ "guide" \in Buttons
    BY <1>2 DEF Buttons
  <2> HIDE DEF down
  <2> QED
    BY <2>1
<1> HIDE DEF shown
<1>4. Placed(shown) \subseteq Buttons
  BY <1>3 DEF Placed, Buttons
<1>5. Layout \in {"nav", "hid"}
  BY DEF Layout
<1> QED
  BY <1>1, <1>4, <1>5

\* The first of the reports that changed.
LEMMA FirstChanged ==
  ASSUME kind \in Kinds, NEW d, Changed(d) # {}
  PROVE  (CHOOSE j \in Changed(d) : \A k \in Changed(d) : j <= k) \in DOMAIN Ids
<1>1. Changed(d) \subseteq 1..3 /\ Changed(d) \subseteq DOMAIN Ids
  BY IdsMeans DEF Changed
<1> DEFINE S == Changed(d)
<1>2. S \subseteq 1..3 /\ S \subseteq DOMAIN Ids /\ S # {}
  BY <1>1
<1> HIDE DEF S
<1>3. \E j \in S : \A k \in S : j <= k
  <2>1. CASE 1 \in S
    BY <1>2, <2>1
  <2>2. CASE 1 \notin S /\ 2 \in S
    BY <1>2, <2>2
  <2>3. CASE 1 \notin S /\ 2 \notin S
    <3>1. \A k \in S : k = 3
      BY <1>2, <2>3
    <3>2. 3 \in S
      BY <1>2, <3>1
    <3> QED
      BY <3>1, <3>2
  <2> QED
    BY <2>1, <2>2, <2>3
<1>4. (CHOOSE j \in S : \A k \in S : j <= k) \in S
  BY <1>3
<1> QED
  BY <1>2, <1>4 DEF S

-----------------------------------------------------------------------------
(* What one tick does.                                                     *)

\* The guide's own packet.
SendsKey ==
  /\ debounce' \in Timers /\ lastGuide' \in BOOLEAN
  /\ endpoint' = <<[tag |-> "key", number |-> keySeq, pressed |-> lastGuide']>>
  /\ keySeq' = Wrapping(keySeq)
  /\ UNCHANGED <<last, seq, hidSeq>>

\* One of the reports.
SendsReport ==
  /\ debounce' \in Timers
  /\ Layout \in {"nav", "hid"}
  /\ \E i \in DOMAIN Ids, s \in SUBSET Buttons :
       /\ last' = [last EXCEPT ![Ids[i]] = [layout |-> Layout, buttons |-> s]]
       /\ endpoint' = <<[tag |-> Layout, id |-> Ids[i], number |-> NumberOf, buttons |-> s]>>
  /\ CountAfterCompare
  /\ UNCHANGED lastGuide

\* Nothing but an empty packet.
SendsNothing ==
  /\ debounce' \in Timers
  /\ endpoint' = <<[tag |-> "empty"]>>
  /\ UNCHANGED <<last, lastGuide, numbers>>

LEMMA InputsMeans ==
  ASSUME kind \in Kinds, debounce \in Timers, Inputs(Armed)
  PROVE  SendsKey \/ SendsReport
<1> DEFINE d == Armed
<1>1. d \in Timers
  BY ArmedTypes DEF Armed
<1>2. CASE GuideChanged(d)
  <2>1. /\ Keystroke(d)
        /\ endpoint' = <<[tag |-> "key", number |-> keySeq, pressed |-> d["guide"] > 0]>>
    BY <1>2 DEF Inputs
  <2>2. lastGuide' = (d["guide"] > 0) /\ lastGuide' \in BOOLEAN
    BY <2>1 DEF Keystroke
  <2>3. endpoint' = <<[tag |-> "key", number |-> keySeq, pressed |-> lastGuide']>>
    BY <2>1, <2>2, Zenon
  <2> QED
    BY <1>1, <2>1, <2>2, <2>3 DEF Keystroke, SendsKey
<1>3. CASE ~ GuideChanged(d)
  <2> DEFINE i == CHOOSE j \in Changed(d) : \A k \in Changed(d) : j <= k
             r == Report(Ids[i], Elapsed(d, i - 1))
  <2>1. /\ Changed(d) # {}
        /\ debounce' = Elapsed(d, i)
        /\ last' = [last EXCEPT ![Ids[i]] = r]
        /\ endpoint' = <<[tag |-> Layout, id |-> Ids[i], number |-> NumberOf,
                          buttons |-> r.buttons]>>
        /\ CountAfterCompare
        /\ UNCHANGED lastGuide
    BY <1>3 DEF Inputs
  <2>2. i \in DOMAIN Ids
    BY <2>1, FirstChanged
  <2>3. i \in Nat /\ Ids[i] \in AllIds
    BY <2>2, IdsMeans
  <2>4. /\ r = [layout |-> Layout, buttons |-> r.buttons]
        /\ r.buttons \in SUBSET Buttons /\ Layout \in {"nav", "hid"}
    BY <2>3, ReportTypes
  <2>5. Elapsed(d, i) \in Timers
    BY <1>1, <2>3, ElapsedTypes
  <2> DEFINE s == r.buttons
  <2>6. /\ last' = [last EXCEPT ![Ids[i]] = [layout |-> Layout, buttons |-> s]]
        /\ endpoint' = <<[tag |-> Layout, id |-> Ids[i], number |-> NumberOf, buttons |-> s]>>
    BY <2>1, <2>4, Zenon
  <2>7. s \in SUBSET Buttons
    BY <2>4
  <2> HIDE DEF i, s, r
  <2> QED
    BY <2>1, <2>2, <2>4, <2>5, <2>6, <2>7 DEF SendsReport
<1> QED
  BY <1>2, <1>3

LEMMA QuietMeans ==
  ASSUME kind \in Kinds, debounce \in Timers, NEW late \in BOOLEAN, Quiet(Armed, late)
  PROVE  SendsNothing
<1> DEFINE d == Armed
           e == Elapsed(d, Len(Ids))
           rearmed == [x \in Buttons |-> IF x \in held THEN Debounce ELSE e[x]]
<1>1. d \in Timers
  BY ArmedTypes DEF Armed
<1>2. Len(Ids) \in Nat
  BY DEF Ids
<1>3. e \in Timers
  BY <1>1, <1>2, ElapsedTypes
<1>4. rearmed \in Timers
  <2> HIDE DEF e
  <2> QED
    BY <1>3, ArmedTypes
<1>5. Elapsed(rearmed, 1) \in Timers
  <2> HIDE DEF rearmed
  <2> QED
    BY <1>4, ElapsedTypes
<1>6. debounce' = IF late THEN Elapsed(rearmed, 1) ELSE e
  BY DEF Quiet
<1>7. debounce' \in Timers
  BY <1>3, <1>5, <1>6
<1> QED
  BY <1>7 DEF Quiet, SendsNothing

\* A tick changes what is sent, or only the timers.
LEMMA TickMeans ==
  ASSUME Typed, NEW late \in BOOLEAN, Tick(late)
  PROVE  /\ UNCHANGED <<kind, held, poked, console, resets>>
         /\ \/ /\ endpoint = <<>> /\ seenPs4' = TRUE
               /\ SendsKey \/ SendsReport \/ SendsNothing
            \/ /\ debounce' \in Timers
               /\ UNCHANGED <<last, lastGuide, numbers, seenPs4, endpoint>>
<1>1. kind \in Kinds /\ debounce \in Timers
  BY DEF Typed
<1>2. CASE endpoint = <<>>
  BY <1>1, <1>2, InputsMeans, QuietMeans DEF Tick
<1>3. CASE endpoint # <<>>
  <2>1. debounce' = Elapsed(Armed, 1)
    BY <1>3 DEF Tick
  <2>2. Armed \in Timers
    BY <1>1, ArmedTypes DEF Armed
  <2>3. debounce' \in Timers
    BY <1>1, <2>1, <2>2, ElapsedTypes
  <2> QED
    BY <1>3, <2>3 DEF Tick
<1> QED
  BY <1>2, <1>3

\* What GET_REPORT does: the timers and, but for the Xbox One, no number.
LEMMA GetReportMeans ==
  ASSUME Typed, GetReport
  PROVE  /\ debounce' \in Timers
         /\ UNCHANGED <<kind, held, last, lastGuide, numbers, seenPs4, poked, endpoint,
                        console, resets>>
<1>1. kind \in Kinds /\ debounce \in Timers
  BY DEF Typed
<1>2. Armed \in Timers
  BY <1>1, ArmedTypes DEF Armed
<1>3. PICK n \in DOMAIN Ids : debounce' = Elapsed(Armed, n)
  BY DEF GetReport
<1>4. n \in Nat
  BY <1>1, IdsMeans
<1>5. debounce' \in Timers
  BY <1>1, <1>2, <1>3, <1>4, ElapsedTypes
<1>6. UNCHANGED numbers
  BY DEF GetReport, CountAfterCompare, Nav, numbers
<1> QED
  BY <1>5, <1>6 DEF GetReport

-----------------------------------------------------------------------------
(* The types.                                                              *)

LEMMA TypedInit == Init => Typed
<1> SUFFICES ASSUME Init PROVE Typed
  OBVIOUS
<1>1. Numbers \in Nat /\ Numbers > 2 /\ MaxResets \in Nat
  BY BoundsAssumption
<1>2. kind \in Kinds
  BY DEF Init
<1>3. debounce \in Timers
  BY <1>2, DebounceNat DEF Init, Timers
<1>4. last \in Remembered
  BY DEF Init, Remembered, Layouts, NoReport
<1>5. console \in Consoles
  BY <1>1 DEF Init, Consoles, Sight
<1>6. /\ seq \in 1..Numbers - 1 /\ hidSeq \in 1..Numbers - 1 /\ keySeq \in 0..Numbers - 1
      /\ resets \in 0..MaxResets
  BY <1>1 DEF Init
<1>7. /\ held \subseteq Buttons /\ lastGuide \in BOOLEAN /\ seenPs4 \in BOOLEAN
      /\ poked \in BOOLEAN /\ Waiting
  BY DEF Init, Waiting
<1> QED
  BY <1>2, <1>3, <1>4, <1>5, <1>6, <1>7 DEF Typed

LEMMA TypedTick ==
  ASSUME Typed, NEW late \in BOOLEAN, Tick(late)
  PROVE  Typed'
<1>1. /\ UNCHANGED <<kind, held, poked, console, resets>>
      /\ \/ /\ endpoint = <<>> /\ seenPs4' = TRUE
            /\ SendsKey \/ SendsReport \/ SendsNothing
         \/ /\ debounce' \in Timers
            /\ UNCHANGED <<last, lastGuide, numbers, seenPs4, endpoint>>
  BY TickMeans
<1>2. Timers' = Timers /\ Ids' = Ids
  BY <1>1 DEF Timers, Debounce, Ids
<1>3. CASE debounce' \in Timers /\ UNCHANGED <<last, lastGuide, numbers, seenPs4, endpoint>>
  BY <1>1, <1>2, <1>3 DEF Typed, Waiting, numbers
<1>4. CASE seenPs4' = TRUE /\ SendsKey
  <2>1. keySeq' \in 0..Numbers - 1
    BY <1>4, WrappingMeans DEF Typed, SendsKey
  <2>2. Waiting'
    BY <1>4 DEF Typed, SendsKey, Waiting
  <2> QED
    BY <1>1, <1>2, <1>4, <2>1, <2>2 DEF Typed, SendsKey
<1>5. CASE seenPs4' = TRUE /\ SendsReport
  <2>1. PICK i \in DOMAIN Ids, s \in SUBSET Buttons :
          /\ last' = [last EXCEPT ![Ids[i]] = [layout |-> Layout, buttons |-> s]]
          /\ endpoint' = <<[tag |-> Layout, id |-> Ids[i], number |-> NumberOf,
                            buttons |-> s]>>
    BY <1>5 DEF SendsReport
  <2>2. Layout \in {"nav", "hid"}
    BY <1>5 DEF SendsReport
  <2>3. [layout |-> Layout, buttons |-> s] \in [layout : Layouts, buttons : SUBSET Buttons]
    BY <2>2 DEF Layouts
  <2>4. last' \in Remembered
    BY <2>1, <2>3 DEF Typed, Remembered
  <2>5. NumberOf \in 0..Numbers - 1
    BY BoundsAssumption DEF NumberOf, Typed
  <2>6. Waiting'
    BY <1>2, <2>1, <2>2, <2>5 DEF Waiting
  <2>7. seq' \in 1..Numbers - 1 /\ hidSeq' \in 1..Numbers - 1 /\ keySeq' = keySeq
    BY <1>5, FollowingMeans DEF SendsReport, CountAfterCompare, Typed
  <2> QED
    BY <1>1, <1>2, <1>5, <2>4, <2>6, <2>7 DEF Typed, SendsReport
<1>6. CASE seenPs4' = TRUE /\ SendsNothing
  BY <1>1, <1>2, <1>6 DEF Typed, SendsNothing, Waiting, numbers
<1> QED
  BY <1>1, <1>3, <1>4, <1>5, <1>6

\* What the console reads.
LEMMA PolledMeans ==
  ASSUME Typed, Polled
  PROVE  /\ endpoint' = <<>>
         /\ UNCHANGED <<kind, held, debounce, last, lastGuide, numbers, seenPs4, poked, resets>>
         /\ \/ endpoint = <<[tag |-> "empty"]>> /\ console' = console
            \/ \E n \in 0..Numbers - 1, down \in BOOLEAN :
                 /\ endpoint = <<[tag |-> "key", number |-> n, pressed |-> down]>>
                 /\ console' = [console EXCEPT !.guide = Guide(down), !.key = n]
            \/ \E layout \in {"nav", "hid"}, i \in DOMAIN Ids, n \in 0..Numbers - 1,
                  s \in SUBSET Buttons :
                 /\ endpoint = <<[tag |-> layout, id |-> Ids[i], number |-> n, buttons |-> s]>>
                 /\ console' = [console EXCEPT
                      !.view[Ids[i]] = s,
                      !.hid = IF layout = "hid" THEN n ELSE @,
                      !.nav = IF layout = "nav" /\ kind \in {"xboxone", "ghl"} THEN n ELSE @]
<1>1. /\ endpoint # <<>> /\ endpoint' = <<>>
      /\ UNCHANGED <<kind, held, debounce, last, lastGuide, numbers, seenPs4, poked, resets>>
  BY DEF Polled
<1>2. CASE endpoint = <<[tag |-> "empty"]>>
  <2>1. endpoint[1].tag = "empty"
    BY <1>2
  <2> QED
    BY <1>1, <1>2, <2>1 DEF Polled
<1>3. ASSUME NEW n \in 0..Numbers - 1, NEW down \in BOOLEAN,
             endpoint = <<[tag |-> "key", number |-> n, pressed |-> down]>>
      PROVE  console' = [console EXCEPT !.guide = Guide(down), !.key = n]
  <2>1. endpoint[1].tag = "key" /\ endpoint[1].number = n /\ endpoint[1].pressed = down
    BY <1>3
  <2> QED
    BY <2>1 DEF Polled
<1>4. \/ endpoint = <<[tag |-> "empty"]>>
      \/ \E n \in 0..Numbers - 1, down \in BOOLEAN :
           endpoint = <<[tag |-> "key", number |-> n, pressed |-> down]>>
      \/ \E layout \in {"nav", "hid"}, i \in DOMAIN Ids, n \in 0..Numbers - 1,
            s \in SUBSET Buttons :
           endpoint = <<[tag |-> layout, id |-> Ids[i], number |-> n, buttons |-> s]>>
  BY <1>1, Zenon DEF Typed, Waiting
<1>5. CASE endpoint = <<[tag |-> "empty"]>>
  BY <1>1, <1>2, <1>5, Zenon
<1>6. CASE \E n \in 0..Numbers - 1, down \in BOOLEAN :
             endpoint = <<[tag |-> "key", number |-> n, pressed |-> down]>>
  BY <1>1, <1>3, <1>6, Zenon
<1>7. CASE \E layout \in {"nav", "hid"}, i \in DOMAIN Ids, n \in 0..Numbers - 1,
              s \in SUBSET Buttons :
             endpoint = <<[tag |-> layout, id |-> Ids[i], number |-> n, buttons |-> s]>>
  <2>1. PICK layout \in {"nav", "hid"}, i \in DOMAIN Ids, n \in 0..Numbers - 1,
             s \in SUBSET Buttons :
             endpoint = <<[tag |-> layout, id |-> Ids[i], number |-> n, buttons |-> s]>>
    BY <1>7
  <2>2. console' = [console EXCEPT
                !.view[Ids[i]] = s,
                !.hid = IF layout = "hid" THEN n ELSE @,
                !.nav = IF layout = "nav" /\ kind \in {"xboxone", "ghl"} THEN n ELSE @]
    <3>1. /\ endpoint[1].tag = layout /\ endpoint[1].id = Ids[i]
          /\ endpoint[1].number = n /\ endpoint[1].buttons = s
      BY <2>1
    <3> QED
      BY <3>1 DEF Polled
  <2> QED
    BY <1>1, <2>1, <2>2, Zenon
<1> QED
  BY <1>4, <1>5, <1>6, <1>7, Zenon

LEMMA TypedPolled ==
  ASSUME Typed, Polled
  PROVE  Typed'
<1>1. endpoint' = <<>>
  BY PolledMeans
<1>2. UNCHANGED <<kind, held, debounce, last, lastGuide, numbers, seenPs4, poked, resets>>
  BY PolledMeans
<1>3. Timers' = Timers
  BY <1>2 DEF Timers, Debounce
<1>4. console \in Consoles
  BY DEF Typed
<1>5. console' \in Consoles
  <2>1. CASE console' = console
    BY <1>4, <2>1
  <2>2. ASSUME NEW n \in 0..Numbers - 1, NEW down \in BOOLEAN,
               console' = [console EXCEPT !.guide = Guide(down), !.key = n]
        PROVE  console' \in Consoles
    <3>1. Guide(down) \in Sight
      BY DEF Guide, Sight, Buttons
    <3> QED
      BY <1>4, <2>2, <3>1 DEF Consoles
  <2>3. ASSUME NEW layout \in {"nav", "hid"}, NEW i \in DOMAIN Ids, NEW n \in 0..Numbers - 1,
               NEW s \in SUBSET Buttons,
               console' = [console EXCEPT
                  !.view[Ids[i]] = s,
                  !.hid = IF layout = "hid" THEN n ELSE @,
                  !.nav = IF layout = "nav" /\ kind \in {"xboxone", "ghl"} THEN n ELSE @]
        PROVE  console' \in Consoles
    <3>1. s \in Sight
      BY DEF Sight
    <3> QED
      BY <1>4, <2>3, <3>1 DEF Consoles
  <2> QED
    BY <2>1, <2>2, <2>3, PolledMeans
<1>6. Waiting'
  BY <1>1 DEF Waiting
<1> QED
  BY <1>2, <1>3, <1>5, <1>6 DEF Typed, numbers

LEMMA TypedBusReset ==
  ASSUME Typed, BusReset
  PROVE  Typed'
<1>1. /\ resets < MaxResets /\ resets' = resets + 1 /\ seq' = 1 /\ hidSeq' = 1
      /\ poked' \in BOOLEAN /\ endpoint' = <<>>
      /\ console' = [view |-> [id \in AllIds |-> Unknown], guide |-> Unknown,
                     nav |-> 0, hid |-> 0, key |-> Anything]
      /\ UNCHANGED <<kind, held, debounce, last, lastGuide, keySeq, seenPs4>>
  BY DEF BusReset
<1>2. Timers' = Timers
  BY <1>1 DEF Timers, Debounce
<1>3. Numbers \in Nat /\ Numbers > 2 /\ MaxResets \in Nat
  BY BoundsAssumption
<1>4. console' \in Consoles
  BY <1>1, <1>3 DEF Consoles, Sight
<1>5. /\ seq' \in 1..Numbers - 1 /\ hidSeq' \in 1..Numbers - 1
      /\ resets' \in 0..MaxResets /\ Waiting'
  BY <1>1, <1>3 DEF Typed, Waiting
<1> QED
  BY <1>1, <1>2, <1>4, <1>5 DEF Typed

LEMMA TypedStep == Typed /\ [Next]_vars => Typed'
<1> SUFFICES ASSUME Typed, [Next]_vars PROVE Typed'
  OBVIOUS
<1>1. CASE Change
  <2>1. UNCHANGED <<kind, debounce, last, lastGuide, numbers, seenPs4, poked, endpoint,
                    console, resets>>
    BY <1>1 DEF Change
  <2>2. held' \subseteq Buttons
    BY <1>1 DEF Change, Typed
  <2>3. Timers' = Timers /\ Ids' = Ids
    BY <2>1 DEF Timers, Debounce, Ids
  <2> QED
    BY <2>1, <2>2, <2>3 DEF Typed, Waiting, numbers
<1>2. ASSUME NEW late \in BOOLEAN, Tick(late) PROVE Typed'
  BY <1>2, TypedTick
<1>3. CASE GetReport
  <2>1. Timers' = Timers /\ Ids' = Ids
    BY <1>3 DEF GetReport, Timers, Debounce, Ids
  <2> QED
    BY <1>3, <2>1, GetReportMeans DEF Typed, Waiting, numbers
<1>4. CASE Poke
  <2>1. Timers' = Timers /\ Ids' = Ids
    BY <1>4 DEF Poke, Timers, Debounce, Ids
  <2>2. poked' \in BOOLEAN
    BY <1>4 DEF Poke, Typed
  <2> QED
    BY <1>4, <2>1, <2>2 DEF Poke, Typed, Waiting, numbers
<1>5. CASE Polled
  BY <1>5, TypedPolled
<1>6. CASE BusReset
  BY <1>6, TypedBusReset
<1>7. CASE UNCHANGED vars
  <2>1. Timers' = Timers /\ Ids' = Ids
    BY <1>7 DEF vars, Timers, Debounce, Ids
  <2> QED
    BY <1>7, <2>1 DEF vars, Typed, Waiting, numbers
<1> QED
  BY <1>1, <1>2, <1>3, <1>4, <1>5, <1>6, <1>7 DEF Next

-----------------------------------------------------------------------------
(* What is remembered as sent.                                             *)

\* RecordTrue, for the report with one id and for the guide.
ReportTrue(id) ==
  IF endpoint # <<>> /\ endpoint[1].tag \in {"nav", "hid"} /\ endpoint[1].id = id
    THEN endpoint[1].buttons = last[id].buttons
    ELSE console.view[id] \in {last[id].buttons, Unknown}

GuideTrue ==
  IF endpoint # <<>> /\ endpoint[1].tag = "key"
    THEN endpoint[1].pressed = lastGuide
    ELSE console.guide \in {Guide(lastGuide), Unknown}

Known == GuideTrue /\ \A id \in AllIds : ReportTrue(id)

LEMMA KnownInit == Init => Known
BY DEF Init, Known, GuideTrue, ReportTrue, NoReport, Guide

LEMMA KnownTick ==
  ASSUME Typed, Known, NEW late \in BOOLEAN, Tick(late)
  PROVE  Known'
<1>1. /\ UNCHANGED <<kind, held, poked, console, resets>>
      /\ \/ /\ endpoint = <<>> /\ seenPs4' = TRUE
            /\ SendsKey \/ SendsReport \/ SendsNothing
         \/ /\ debounce' \in Timers
            /\ UNCHANGED <<last, lastGuide, numbers, seenPs4, endpoint>>
  BY TickMeans
<1>2. CASE UNCHANGED <<last, lastGuide, numbers, seenPs4, endpoint>>
  BY <1>1, <1>2 DEF Known, GuideTrue, ReportTrue
<1>3. CASE endpoint = <<>> /\ SendsKey
  <2>1. endpoint'[1] = [tag |-> "key", number |-> keySeq, pressed |-> lastGuide']
    BY <1>3 DEF SendsKey
  <2>2. endpoint'[1].tag = "key" /\ endpoint'[1].pressed = lastGuide' /\ endpoint' # <<>>
    BY <1>3, <2>1 DEF SendsKey
  <2> QED
    BY <1>1, <1>3, <2>2 DEF SendsKey, Known, GuideTrue, ReportTrue
<1>4. CASE endpoint = <<>> /\ SendsReport
  <2>1. PICK i \in DOMAIN Ids, s \in SUBSET Buttons :
          /\ last' = [last EXCEPT ![Ids[i]] = [layout |-> Layout, buttons |-> s]]
          /\ endpoint' = <<[tag |-> Layout, id |-> Ids[i], number |-> NumberOf,
                            buttons |-> s]>>
    BY <1>4 DEF SendsReport
  <2>2. Ids[i] \in AllIds
    BY IdsMeans DEF Typed
  <2>3. last \in Remembered /\ Layout \in {"nav", "hid"}
    BY <1>4 DEF Typed, SendsReport
  <2>4. last'[Ids[i]].buttons = s /\ \A id \in AllIds \ {Ids[i]} : last'[id] = last[id]
    BY <2>1, <2>2, <2>3 DEF Remembered
  <2>5. /\ endpoint' # <<>> /\ endpoint'[1].tag = Layout /\ endpoint'[1].id = Ids[i]
        /\ endpoint'[1].buttons = s
    BY <2>1
  <2>6. lastGuide' = lastGuide /\ console' = console
    BY <1>1, <1>4 DEF SendsReport
  <2>7. GuideTrue'
    BY <1>4, <2>3, <2>5, <2>6 DEF Known, GuideTrue
  <2>8. ASSUME NEW id \in AllIds PROVE ReportTrue(id)'
    <3>1. CASE id = Ids[i]
      BY <2>3, <2>4, <2>5, <3>1 DEF ReportTrue
    <3>2. CASE id # Ids[i]
      BY <1>4, <2>4, <2>5, <2>6, <3>2 DEF Known, ReportTrue
    <3> QED
      BY <3>1, <3>2
  <2> QED
    BY <2>7, <2>8 DEF Known
<1>5. CASE endpoint = <<>> /\ SendsNothing
  <2>1. endpoint'[1].tag = "empty"
    BY <1>5 DEF SendsNothing
  <2> QED
    BY <1>1, <1>5, <2>1 DEF SendsNothing, Known, GuideTrue, ReportTrue
<1> QED
  BY <1>1, <1>2, <1>3, <1>4, <1>5

LEMMA KnownPolled ==
  ASSUME Typed, Known, Polled
  PROVE  Known'
<1>1. endpoint' = <<>> /\ UNCHANGED <<last, lastGuide>>
  BY PolledMeans
<1>2. console \in Consoles
  BY DEF Typed
<1>3. CASE endpoint = <<[tag |-> "empty"]>> /\ console' = console
  <2>1. endpoint[1].tag = "empty"
    BY <1>3
  <2> QED
    BY <1>1, <1>3, <2>1 DEF Known, GuideTrue, ReportTrue
<1>4. ASSUME NEW n \in 0..Numbers - 1, NEW down \in BOOLEAN,
             endpoint = <<[tag |-> "key", number |-> n, pressed |-> down]>>,
             console' = [console EXCEPT !.guide = Guide(down), !.key = n]
      PROVE  Known'
  <2>1. endpoint # <<>> /\ endpoint[1].tag = "key" /\ endpoint[1].pressed = down
    BY <1>4
  <2>2. console'.guide = Guide(down) /\ console'.view = console.view
    BY <1>2, <1>4 DEF Consoles
  <2>3. down = lastGuide
    BY <2>1 DEF Known, GuideTrue
  <2> QED
    BY <1>1, <2>1, <2>2, <2>3 DEF Known, GuideTrue, ReportTrue
<1>5. ASSUME NEW layout \in {"nav", "hid"}, NEW i \in DOMAIN Ids, NEW n \in 0..Numbers - 1,
             NEW s \in SUBSET Buttons,
             endpoint = <<[tag |-> layout, id |-> Ids[i], number |-> n, buttons |-> s]>>,
             console' = [console EXCEPT
                !.view[Ids[i]] = s,
                !.hid = IF layout = "hid" THEN n ELSE @,
                !.nav = IF layout = "nav" /\ kind \in {"xboxone", "ghl"} THEN n ELSE @]
      PROVE  Known'
  <2>1. /\ endpoint # <<>> /\ endpoint[1].tag = layout /\ endpoint[1].id = Ids[i]
        /\ endpoint[1].buttons = s
    BY <1>5
  <2>2. Ids[i] \in AllIds
    BY IdsMeans DEF Typed
  <2>3. console'.view = [console.view EXCEPT ![Ids[i]] = s] /\ console'.guide = console.guide
    BY <1>2, <1>5 DEF Consoles
  <2>4. console'.view[Ids[i]] = s
    BY <1>2, <2>2, <2>3 DEF Consoles
  <2>5. \A id \in AllIds \ {Ids[i]} : console'.view[id] = console.view[id]
    BY <1>2, <2>2, <2>3 DEF Consoles
  <2>6. s = last[Ids[i]].buttons
    BY <2>1, <2>2 DEF Known, ReportTrue
  <2>7. GuideTrue'
    BY <1>1, <2>1, <2>3 DEF Known, GuideTrue
  <2>8. ASSUME NEW id \in AllIds PROVE ReportTrue(id)'
    <3>1. CASE id = Ids[i]
      BY <1>1, <2>4, <2>6, <3>1 DEF ReportTrue
    <3>2. CASE id # Ids[i]
      BY <1>1, <2>1, <2>5, <3>2 DEF Known, ReportTrue
    <3> QED
      BY <3>1, <3>2
  <2> QED
    BY <2>7, <2>8 DEF Known
<1> QED
  BY <1>3, <1>4, <1>5, PolledMeans

LEMMA KnownStep == Typed /\ Known /\ [Next]_vars => Known'
<1> SUFFICES ASSUME Typed, Known, [Next]_vars PROVE Known'
  OBVIOUS
<1>1. CASE Change \/ Poke \/ UNCHANGED vars
  BY <1>1 DEF Change, Poke, vars, Known, GuideTrue, ReportTrue
<1>2. ASSUME NEW late \in BOOLEAN, Tick(late) PROVE Known'
  BY <1>2, KnownTick
<1>3. CASE GetReport
  BY <1>3, GetReportMeans DEF Known, GuideTrue, ReportTrue
<1>4. CASE Polled
  BY <1>4, KnownPolled
<1>5. CASE BusReset
  <2>1. /\ endpoint' = <<>>
        /\ console' = [view |-> [id \in AllIds |-> Unknown], guide |-> Unknown,
                       nav |-> 0, hid |-> 0, key |-> Anything]
    BY <1>5 DEF BusReset
  <2> QED
    BY <2>1 DEF Known, GuideTrue, ReportTrue
<1> QED
  BY <1>1, <1>2, <1>3, <1>4, <1>5 DEF Next

-----------------------------------------------------------------------------
(* The numbers the console is given.                                       *)

\* Of the devices, only the two that number their reports count.
LEMMA NavMeans ==
  /\ Nav => Layout = "nav" /\ NumberOf = seq
  /\ kind \in {"xboxone", "ghl"} /\ ~ Nav => kind = "ghl" /\ ~ poked /\ Layout = "hid"
                                             /\ NumberOf = hidSeq
  /\ Nav => ~(kind = "ghl" /\ ~poked)
BY DEF Nav, Layout, NumberOf

LEMMA FollowsInit == Init => Follows
BY FollowingMeans, WrappingMeans DEF Init, Follows, Waits

LEMMA FollowsTick ==
  ASSUME Typed, Follows, NEW late \in BOOLEAN, Tick(late)
  PROVE  Follows'
<1> SUFFICES ASSUME kind \in {"xboxone", "ghl"} PROVE Follows'
  BY TickMeans DEF Follows
<1>1. /\ UNCHANGED <<kind, held, poked, console, resets>>
      /\ \/ /\ endpoint = <<>> /\ seenPs4' = TRUE
            /\ SendsKey \/ SendsReport \/ SendsNothing
         \/ /\ debounce' \in Timers
            /\ UNCHANGED <<last, lastGuide, numbers, seenPs4, endpoint>>
  BY TickMeans
<1>2. CASE UNCHANGED <<last, lastGuide, numbers, seenPs4, endpoint>>
  BY <1>1, <1>2 DEF Follows, Waits, numbers
<1>n. endpoint = <<>> => /\ seq = Successor(console.nav) /\ hidSeq = Successor(console.hid)
                         /\ console.key = Anything \/ keySeq = Wrapping(console.key)
  BY DEF Follows, Waits
<1>s. /\ seq \in 1..Numbers - 1 /\ hidSeq \in 1..Numbers - 1
      /\ Following(seq) = Successor(seq) /\ Following(hidSeq) = Successor(hidSeq)
  BY FollowingMeans DEF Typed
<1>3. CASE endpoint = <<>> /\ SendsKey
  <2>1. /\ endpoint' # <<>> /\ endpoint'[1].tag = "key" /\ endpoint'[1].number = keySeq
    BY <1>3 DEF SendsKey
  <2>2. keySeq' = Wrapping(keySeq) /\ UNCHANGED <<seq, hidSeq>>
    BY <1>3 DEF SendsKey
  <2> QED
    BY <1>1, <1>n, <1>3, <2>1, <2>2 DEF Follows, Waits, Wrapping
<1>4. CASE endpoint = <<>> /\ SendsReport
  <2>1. PICK i \in DOMAIN Ids, s \in SUBSET Buttons :
          endpoint' = <<[tag |-> Layout, id |-> Ids[i], number |-> NumberOf, buttons |-> s]>>
    BY <1>4 DEF SendsReport
  <2>2. endpoint' # <<>> /\ endpoint'[1].tag = Layout /\ endpoint'[1].number = NumberOf
    BY <2>1
  <2>3. /\ seq' = IF Nav THEN Following(seq) ELSE seq
        /\ hidSeq' = IF kind = "ghl" /\ ~poked THEN Following(hidSeq) ELSE hidSeq
        /\ keySeq' = keySeq
    BY <1>4 DEF SendsReport, CountAfterCompare
  <2>4. CASE Nav
    <3>1. /\ endpoint'[1].tag = "nav" /\ endpoint'[1].number = seq
          /\ seq' = Successor(seq) /\ hidSeq' = hidSeq
      BY <1>s, <2>2, <2>3, <2>4, NavMeans
    <3> QED
      BY <1>1, <1>n, <1>4, <2>2, <2>3, <3>1 DEF Follows, Waits, Successor, Wrapping
  <2>5. CASE ~ Nav
    <3>1. /\ endpoint'[1].tag = "hid" /\ endpoint'[1].number = hidSeq
          /\ seq' = seq /\ hidSeq' = Successor(hidSeq)
      BY <1>s, <2>2, <2>3, <2>5, NavMeans
    <3> QED
      BY <1>1, <1>n, <1>4, <2>2, <2>3, <3>1 DEF Follows, Waits, Successor, Wrapping
  <2> QED
    BY <2>4, <2>5
<1>5. CASE endpoint = <<>> /\ SendsNothing
  <2>1. endpoint'[1].tag = "empty" /\ UNCHANGED <<seq, hidSeq, keySeq>>
    BY <1>5 DEF SendsNothing, numbers
  <2> QED
    BY <1>1, <1>n, <1>5, <2>1 DEF Follows, Waits
<1> QED
  BY <1>1, <1>2, <1>3, <1>4, <1>5

LEMMA FollowsPolled ==
  ASSUME Typed, Follows, Polled
  PROVE  Follows'
<1>1. endpoint' = <<>> /\ UNCHANGED <<kind, seq, hidSeq, keySeq>>
  BY PolledMeans DEF numbers
<1> SUFFICES ASSUME kind \in {"xboxone", "ghl"} PROVE Follows'
  BY <1>1 DEF Follows
<1>2. console \in Consoles
  BY DEF Typed
<1>3. CASE endpoint = <<[tag |-> "empty"]>> /\ console' = console
  <2>1. endpoint[1].tag = "empty"
    BY <1>3
  <2> QED
    BY <1>1, <1>3, <2>1 DEF Follows, Waits
<1>4. ASSUME NEW n \in 0..Numbers - 1, NEW down \in BOOLEAN,
             endpoint = <<[tag |-> "key", number |-> n, pressed |-> down]>>,
             console' = [console EXCEPT !.guide = Guide(down), !.key = n]
      PROVE  Follows'
  <2>1. endpoint # <<>> /\ endpoint[1].tag = "key" /\ endpoint[1].number = n
    BY <1>4
  <2>2. console'.key = n /\ console'.nav = console.nav /\ console'.hid = console.hid
    BY <1>2, <1>4 DEF Consoles
  <2> QED
    BY <1>1, <2>1, <2>2 DEF Follows, Waits, Wrapping
<1>5. ASSUME NEW layout \in {"nav", "hid"}, NEW i \in DOMAIN Ids, NEW n \in 0..Numbers - 1,
             NEW s \in SUBSET Buttons,
             endpoint = <<[tag |-> layout, id |-> Ids[i], number |-> n, buttons |-> s]>>,
             console' = [console EXCEPT
                !.view[Ids[i]] = s,
                !.hid = IF layout = "hid" THEN n ELSE @,
                !.nav = IF layout = "nav" /\ kind \in {"xboxone", "ghl"} THEN n ELSE @]
      PROVE  Follows'
  <2>1. endpoint # <<>> /\ endpoint[1].tag = layout /\ endpoint[1].number = n
    BY <1>5
  <2>2. /\ console'.key = console.key
        /\ console'.nav = IF layout = "nav" THEN n ELSE console.nav
        /\ console'.hid = IF layout = "hid" THEN n ELSE console.hid
    BY <1>2, <1>5 DEF Consoles
  <2>3. CASE layout = "nav"
    BY <1>1, <2>1, <2>2, <2>3 DEF Follows, Waits, Successor, Wrapping
  <2>4. CASE layout = "hid"
    BY <1>1, <2>1, <2>2, <2>4 DEF Follows, Waits, Successor, Wrapping
  <2> QED
    BY <2>3, <2>4
<1> QED
  BY <1>3, <1>4, <1>5, PolledMeans

LEMMA FollowsStep == Typed /\ Follows /\ [Next]_vars => Follows'
<1> SUFFICES ASSUME Typed, Follows, [Next]_vars PROVE Follows'
  OBVIOUS
<1>1. CASE Change \/ Poke \/ UNCHANGED vars
  BY <1>1 DEF Change, Poke, vars, Follows, Waits, numbers
<1>2. ASSUME NEW late \in BOOLEAN, Tick(late) PROVE Follows'
  BY <1>2, FollowsTick
<1>3. CASE GetReport
  BY <1>3, GetReportMeans DEF Follows, Waits, numbers
<1>4. CASE Polled
  BY <1>4, FollowsPolled
<1>5. CASE BusReset
  <2>1. /\ endpoint' = <<>> /\ seq' = 1 /\ hidSeq' = 1
        /\ console' = [view |-> [id \in AllIds |-> Unknown], guide |-> Unknown,
                       nav |-> 0, hid |-> 0, key |-> Anything]
    BY <1>5 DEF BusReset
  <2>2. /\ console'.nav = 0 /\ console'.hid = 0 /\ console'.key = Anything
        /\ endpoint' = <<>> /\ seq' = Successor(0) /\ hidSeq' = Successor(0)
    BY <2>1, FollowingMeans
  <2> QED
    BY <2>2 DEF Follows, Waits, Successor
<1> QED
  BY <1>1, <1>2, <1>3, <1>4, <1>5 DEF Next

-----------------------------------------------------------------------------
LEMMA InductiveReports == Spec => [](Typed /\ Known /\ Follows)
<1>1. Init => Typed /\ Known /\ Follows
  BY TypedInit, KnownInit, FollowsInit
<1>2. (Typed /\ Known /\ Follows) /\ [Next]_vars => (Typed /\ Known /\ Follows)'
  BY TypedStep, KnownStep, FollowsStep
<1> QED
  BY <1>1, <1>2, PTL DEF Spec

\* No timer underflows, and the numbers of the two series of reports, not of the
\* keystrokes, leave 0 out, for every debounce time of every device and wherever they
\* wrap.
THEOREM TimersAreSound == Spec => []TypeOK
<1>1. Typed => TypeOK
  <2> SUFFICES ASSUME Typed PROVE TypeOK
    OBVIOUS
  <2>1. Len(endpoint) <= 1
    <3>1. endpoint = <<>> \/ \E p : endpoint = <<p>>
      BY Zenon DEF Typed, Waiting
    <3>2. CASE endpoint = <<>>
      BY <3>2
    <3>3. ASSUME NEW p, endpoint = <<p>> PROVE Len(endpoint) <= 1
      BY <3>3
    <3> QED
      BY <3>1, <3>2, <3>3
  <2>2. DOMAIN last = AllIds /\ \A id \in AllIds : last[id].buttons \subseteq Buttons
    BY DEF Typed, Remembered
  <2> QED
    BY <2>1, <2>2 DEF Typed, TypeOK, Timers
<1> QED
  BY <1>1, InductiveReports, PTL

\* What the device remembers as sent is what the console was told or is about to be,
\* for every report of every device.
THEOREM RecordIsTrue == Spec => []RecordTrue
<1>1. Typed /\ Known => RecordTrue
  <2> SUFFICES ASSUME Typed, Known PROVE RecordTrue
    OBVIOUS
  <2>1. \A i \in DOMAIN Ids : Ids[i] \in AllIds /\ ReportTrue(Ids[i])
    BY IdsMeans DEF Typed, Known
  <2> QED
    BY <2>1 DEF Known, RecordTrue, ReportTrue, GuideTrue
<1> QED
  BY <1>1, InductiveReports, PTL

\* No number is repeated or left out in any of the three series, across the wrap and
\* over every reset of the bus.
THEOREM NumberedWell == Spec => []WellNumbered
<1>1. Follows => WellNumbered
  BY DEF Follows, Waits, WellNumbered, Wrapping
<1> QED
  BY <1>1, InductiveReports, PTL

-----------------------------------------------------------------------------
(* What the console knows when the device is at ease.                      *)

\* Nothing is left to send: no report and no keystroke differs from the last one, the
\* timers of released buttons have run out and what was sent has been read.
AtEase ==
  /\ endpoint = <<>> \/ endpoint[1].tag = "empty"
  /\ ~ GuideChanged(Armed) /\ Changed(Armed) = {}
  /\ \A x \in Buttons \ held : debounce[x] = 0
  /\ kind = "ps4" => seenPs4

\* The timers the i-th report is built from still run for the buttons held, and for no
\* other.
LEMMA TimersMeanHeld ==
  ASSUME Typed, AtEase, NEW i \in DOMAIN Ids, NEW x \in Buttons
  PROVE  Elapsed(Armed, i - 1)[x] > 0 <=> x \in held
<1>1. /\ Debounce \in Nat /\ i \in Nat /\ i >= 1
      /\ Debounce > i - 1
  <2>1. kind \in Kinds /\ DebounceOf[kind] \in Nat \ {0}
    BY BoundsAssumption DEF Typed
  <2>2. CASE kind = "keyboard"
    <3>1. i \in 1..3 /\ DebounceOf["keyboard"] >= 3
      BY <2>1, <2>2, IdsMeans, BoundsAssumption
    <3> QED
      BY <2>1, <2>2, <3>1 DEF Debounce
  <2>3. CASE kind # "keyboard"
    <3>1. i = 1
      BY <2>1, <2>3, IdsMeans
    <3> QED
      BY <2>1, <3>1 DEF Debounce
  <2> QED
    BY <2>2, <2>3
<1>2. Armed[x] = IF x \in held THEN Debounce ELSE 0
  BY DEF Armed, AtEase
<1>3. Elapsed(Armed, i - 1)[x] = IF Armed[x] > i - 1 THEN Armed[x] - (i - 1) ELSE 0
  BY DEF Elapsed
<1> QED
  BY <1>1, <1>2, <1>3

\* A device that finds nothing to send is not keeping anything from the console:
\* unless a reset of the bus made it forget, the console believes exactly the buttons
\* that are held, whatever debouncing, GET_REPORT, a full endpoint and the guide's own
\* packets did before.
THEOREM NothingIsUntold == Spec => [](AtEase => Shown)
<1>1. Typed /\ RecordTrue => (AtEase => Shown)
  <2> SUFFICES ASSUME Typed, RecordTrue, AtEase PROVE Shown
    OBVIOUS
  <2>1. ~ (endpoint # <<>> /\ endpoint[1].tag \in {"nav", "hid", "key"})
    BY DEF AtEase
  <2>2. ASSUME NEW i \in DOMAIN Ids
        PROVE  console.view[Ids[i]] \in {Expected(Ids[i]), Unknown}
    <3> DEFINE id == Ids[i]
               d == Elapsed(Armed, i - 1)
               down == {x \in Carried(id) : d[x] > 0}
               shown == CASE Nav -> down \ {"guide"}
                          [] kind = "ps4" /\ ~seenPs4 -> down \cup {"guide"}
                          [] OTHER -> down
    <3>1. console.view[id] \in {last[id].buttons, Unknown}
      BY <2>1 DEF RecordTrue
    <3>2. Report(id, d) = last[id]
      BY DEF AtEase, Changed
    <3>3. Report(id, d).buttons = Placed(shown)
      BY DEF Report
    <3>4. down = held \cap Carried(id)
      <4>1. Carried(id) \subseteq Buttons
        BY DEF Carried, Buttons
      <4> QED
        BY <4>1, TimersMeanHeld
    <3>5. shown = (held \cap Carried(id)) \ (IF Nav THEN {"guide"} ELSE {})
      <4> HIDE DEF down
      <4>1. CASE Nav
        <5>1. kind # "ps4"
          BY <4>1 DEF Nav
        <5>2. shown = down \ {"guide"}
          BY <4>1, <5>1
        <5> QED
          BY <3>4, <4>1, <5>2
      <4>2. CASE ~ Nav
        <5>1. ~ (kind = "ps4" /\ ~ seenPs4)
          BY DEF AtEase
        <5>2. shown = down
          BY <4>2, <5>1
        <5> QED
          BY <3>4, <4>2, <5>2
      <4> QED
        BY <4>1, <4>2
    <3> HIDE DEF shown, d
    <3>6. last[id].buttons = Expected(id)
      BY <3>2, <3>3, <3>5 DEF Expected
    <3> QED
      BY <3>1, <3>6
  <2>3. ASSUME Nav PROVE console.guide \in {held \cap {"guide"}, Unknown}
    <3>1. console.guide \in {Guide(lastGuide), Unknown}
      BY <2>1 DEF RecordTrue
    <3>2. Armed["guide"] > 0 <=> "guide" \in held
      <4>1. Debounce \in Nat /\ Debounce > 0
        BY DebounceNat DEF Typed
      <4>2. Armed["guide"] = IF "guide" \in held THEN Debounce ELSE 0
        BY DEF Armed, AtEase, Buttons
      <4> QED
        BY <4>1, <4>2
    <3>3. lastGuide \in BOOLEAN /\ (Armed["guide"] > 0) = lastGuide
      BY <2>3, Zenon DEF AtEase, GuideChanged, Typed
    <3>4. lastGuide <=> "guide" \in held
      <4> DEFINE running == Armed["guide"] > 0
      <4>1. running = lastGuide /\ (running <=> "guide" \in held)
        BY <3>2, <3>3
      <4> HIDE DEF running
      <4> QED
        BY <4>1
    <3>5. Guide(lastGuide) = held \cap {"guide"}
      BY <3>4 DEF Guide
    <3> QED
      BY <3>1, <3>5
  <2> QED
    BY <2>2, <2>3 DEF Shown
<1> QED
  BY <1>1, RecordIsTrue, InductiveReports, PTL
=============================================================================
