------------------------------- MODULE RfLink -------------------------------
(***************************************************************************)
(* The radio link: transmitters that send what their player holds          *)
(* (tick_rf_tx), the nRF24 with its three-packet FIFO and acknowledged     *)
(* writes (external), and the receiver that keeps the last report of each  *)
(* transmitter, merges them and reports to the console (tick_inputs under  *)
(* RF_RX, called from tick_usb, from tick with no buffer, and for a HID    *)
(* GET_REPORT).                                                            *)
(*                                                                         *)
(* What a player holds is a version: 1, 2, ...; 0 is a report never        *)
(* written, all zero.  How reports are converted and merged is in          *)
(* ReportMerge: here a console either sees every transmitter ("ored"; and  *)
(* "xboxone", which gets the guide button as a keystroke of its own) or    *)
(* the one copied last ("copied").  The handshake of an Xbox One is over.  *)
(***************************************************************************)
EXTENDS Integers, Sequences

CONSTANTS
    Count,        \* RF_COUNT transmitters, 1..Count, in the receiver's order
    TypeOf,       \* the console type each transmitter announces when it starts
    FirstType,    \* the receiver's console type at power up
    GuideVersions,  \* versions that hold the guide button, and differ from the
                    \* others in more than that
    FifoSize,     \* packets (and ack payloads) the radio holds: 3
    MaxVersion,   \* bound on what players do
    MaxRestarts,  \* bound on restarts of the transmitters and the receiver
    MaxLeds       \* bound on the player LEDs the console sets

Transmitters == 1..Count
Types == {"ored", "copied", "xboxone"}
ASSUME RfAssumption ==
    /\ Count \in Nat \ {0} /\ FifoSize \in Nat \ {0} /\ MaxVersion \in Nat \ {0}
    /\ MaxRestarts \in Nat /\ MaxLeds \in Nat
    /\ TypeOf \in [Transmitters -> Types] /\ FirstType \in Types
    /\ GuideVersions \subseteq Nat

VARIABLES
    held,         \* what each player holds
    lastRf,       \* last_report_rf of each transmitter
    led,          \* the player LED each transmitter shows
    fifo,         \* packets the receiver's radio holds
    acks,         \* ack payloads the receiver has queued
    inputs,       \* last_rf_inputs
    console,      \* the receiver's consoleType
    last,         \* last_report_usb
    guide,        \* lastXboxOneGuide
    buffer,       \* combined_report
    endpoint,     \* the report the USB endpoint holds, or None
    view,         \* what the console shows
    restarts, leds,
    lost,         \* ghost: the newest report of a transmitter did not arrive,
                  \* or a restart has forgotten it
    behind        \* ghost: the table has changed and no report was built: a
                  \* keystroke was, or nothing

tx == <<held, lastRf, led>>
rx == <<inputs, console, last, guide, buffer, endpoint, view, behind>>
vars == <<held, lastRf, led, fifo, acks, inputs, console, last, guide, buffer,
          endpoint, view, restarts, leds, lost, behind>>

Versions == 0..MaxVersion
None == [d \in Transmitters |-> -1]     \* no report
Message == [d \in Transmitters |-> -2]  \* a keystroke, or what the handshake sent
Zeros == [d \in Transmitters |-> 0]
\* What the buffer holds before the first report.
Fresh(type) == IF type = "xboxone" THEN Message ELSE Zeros
Report(table, type) ==
    [d \in Transmitters |-> IF type = "copied" /\ d # Count THEN 0 ELSE table[d]]

Input(d) == [id |-> "Input", from |-> d, value |-> held[d]]
Heartbeat == [id |-> "Heartbeat", from |-> 0, value |-> 0]
TypePacket(d) == [id |-> "ConsoleType", from |-> d, value |-> 0]

Init ==
    /\ held = [d \in Transmitters |-> 1]
    /\ lastRf = [d \in Transmitters |-> 0]
    /\ led = [d \in Transmitters |-> 0]
    /\ fifo = <<>> /\ acks = <<>>
    /\ inputs = [d \in Transmitters |-> 0]
    /\ console = FirstType
    /\ last = None /\ guide = FALSE /\ buffer = Fresh(FirstType)
    /\ endpoint = None /\ view = None
    /\ restarts = 0 /\ leds = 0
    /\ lost = [d \in Transmitters |-> TRUE]
    /\ behind = TRUE

-----------------------------------------------------------------------------
(* The transmitters.                                                        *)

Change(d) ==
    /\ held[d] < MaxVersion
    /\ held' = [held EXCEPT ![d] = @ + 1]
    /\ UNCHANGED <<lastRf, led, fifo, acks, rx, restarts, leds, lost>>

\* radio.write returns once the packet is acknowledged or the retries are
\* used up; a receiver with a full FIFO does not acknowledge.
Delivered(packet) == Len(fifo) < FifoSize /\ fifo' = Append(fifo, packet)

\* tick_rf_tx: tick_inputs has already stored the report in last_report_rf when
\* radio.write fails.  An acknowledgement carries the oldest ack payload.
TxTick(d) ==
    LET changed == held[d] # lastRf[d]
        packet == IF changed THEN Input(d) ELSE Heartbeat
    IN  /\ lastRf' = [lastRf EXCEPT ![d] = held[d]]
        /\ \/ /\ Delivered(packet)
              /\ lost' = [lost EXCEPT ![d] = @ /\ ~ changed]
              /\ \/ /\ acks # <<>>
                    /\ led' = [led EXCEPT ![d] = Head(acks)]
                    /\ acks' = Tail(acks)
                 \/ /\ acks = <<>>
                    /\ UNCHANGED <<led, acks>>
                 \/ UNCHANGED <<led, acks>>     \* the acknowledgement is lost
           \/ /\ lost' = [lost EXCEPT ![d] = @ \/ changed]
              /\ UNCHANGED <<fifo, led, acks>>
        /\ UNCHANGED <<held, rx, restarts, leds>>

\* init_main: the transmitter tells the receiver what console it was built for.
TxRestart(d) ==
    /\ restarts < MaxRestarts
    /\ restarts' = restarts + 1
    /\ lastRf' = [lastRf EXCEPT ![d] = 0]
    /\ led' = [led EXCEPT ![d] = 0]
    /\ lost' = [lost EXCEPT ![d] = TRUE]
    /\ Delivered(TypePacket(d)) \/ UNCHANGED fifo
    /\ UNCHANGED <<held, acks, rx, leds>>

-----------------------------------------------------------------------------
(* The receiver.                                                            *)

\* reset_usb restarts the program with the console type it has just stored;
\* radio.begin flushes both FIFOs.
Restarted(type) ==
    /\ fifo' = <<>> /\ acks' = <<>>
    /\ inputs' = [d \in Transmitters |-> 0]
    /\ console' = type
    /\ last' = None /\ guide' = FALSE /\ buffer' = Fresh(type)
    /\ endpoint' = None /\ view' = None
    /\ lost' = [d \in Transmitters |-> TRUE]
    /\ behind' = TRUE

\* A variant for the runs to reject: a transmitter that starts again, of the same
\* type, has the table cleared without a restart.
SetConsoleTypeClearing(type) ==
    IF type = console
    THEN /\ fifo' = Tail(fifo)
         /\ inputs' = [d \in Transmitters |-> 0]
         /\ behind' = TRUE
         /\ UNCHANGED <<console, last, guide, buffer, endpoint, view, acks, lost>>
    ELSE Restarted(type)

SetConsoleType(type) ==
    IF type = console
    THEN fifo' = Tail(fifo) /\ UNCHANGED <<rx, acks, lost>>
    ELSE Restarted(type)

\* The head of tick_inputs, for a packet without a report.
Announcement(packet) ==
    \/ packet.id = "ConsoleType" /\ SetConsoleType(TypeOf[packet.from])
    \/ /\ packet.id = "Heartbeat"
       /\ fifo' = Tail(fifo)
       /\ UNCHANGED <<rx, acks, lost>>

\* The packet goes to the table.
Take(packet) ==
    /\ packet.id = "Input"
    /\ fifo' = Tail(fifo)
    /\ inputs' = [inputs EXCEPT ![packet.from] = packet.value]
    /\ UNCHANGED <<console, view, acks, lost>>

\* The report of an Xbox One controller has the guide button of somebody.
Guide(table) == \E d \in Transmitters : table[d] \in GuideVersions
GuideMoves(table) == console = "xboxone" /\ Guide(table) # guide

\* The end of tick_inputs: what differs from the last report is sent.
Compare(report) ==
    /\ last' = report /\ buffer' = report /\ behind' = FALSE
    /\ endpoint' = IF report = last THEN None ELSE report

\* Variants for the runs to reject: heartbeats are looked at, not taken; the report
\* is remembered before the keystroke replaces it.
ProcessPeeking ==
    LET packet == Head(fifo)
    IN  \/ packet.id = "Heartbeat" /\ UNCHANGED <<fifo, rx, acks, lost>>
        \/ packet.id # "Heartbeat" /\ Announcement(packet)
        \/ Take(packet) /\ Compare(Report(inputs', console)) /\ UNCHANGED guide
ProcessRemembering ==
    LET packet == Head(fifo)
    IN  \/ Announcement(packet)
        \/ /\ Take(packet)
           /\ IF GuideMoves(inputs')
              THEN /\ guide' = ~ guide
                   /\ buffer' = Message /\ endpoint' = Message
                   /\ last' = Report(inputs', console) /\ behind' = TRUE
              ELSE Compare(Report(inputs', console)) /\ UNCHANGED guide

\* tick_inputs(&combined_report, &last_report_usb, consoleType): a guide button that
\* moved is told by a keystroke instead of the report.
Process ==
    LET packet == Head(fifo)
    IN  \/ Announcement(packet)
        \/ /\ Take(packet)
           /\ IF GuideMoves(inputs')
              THEN /\ guide' = ~ guide
                   /\ buffer' = Message /\ endpoint' = Message
                   /\ behind' = TRUE /\ UNCHANGED last
              ELSE Compare(Report(inputs', console)) /\ UNCHANGED guide

\* A variant for the runs to reject: the call returns before the table is written.
AnswerBlind ==
    LET packet == Head(fifo)
    IN  \/ Announcement(packet)
        \/ packet.id = "Input" /\ fifo' = Tail(fifo) /\ UNCHANGED <<rx, acks, lost>>

\* tick_inputs for a GET_REPORT: the answer is built in a buffer of its own, a keystroke
\* included, and nothing is compared.
Answer ==
    LET packet == Head(fifo)
    IN  \/ Announcement(packet)
        \/ /\ Take(packet)
           /\ guide' = IF GuideMoves(inputs') THEN ~ guide ELSE guide
           /\ behind' = TRUE
           /\ UNCHANGED <<last, buffer, endpoint>>

\* tick_inputs(NULL, NULL, consoleType) writes the table and goes on to build a report
\* at address 0, so that the guide button it reads back there is anything.  (That these
\* writes hit nothing else is assumed.)
Swallow ==
    LET packet == Head(fifo)
    IN  \/ Announcement(packet)
        \/ /\ Take(packet)
           /\ guide' \in IF console = "xboxone" THEN BOOLEAN ELSE {guide}
           /\ behind' = TRUE
           /\ UNCHANGED <<last, buffer, endpoint>>

\* tick: tick_usb sends when the endpoint is free.
RxTick ==
    /\ endpoint = None /\ fifo # <<>>
    /\ Process
    /\ UNCHANGED <<tx, restarts, leds>>

\* With the radio empty `size` is never set: what it holds decides whether the
\* buffer is sent again.
RxTickEmpty ==
    /\ endpoint = None /\ fifo = <<>>
    /\ endpoint' = buffer
    /\ UNCHANGED <<tx, fifo, acks, inputs, console, last, guide, buffer, view,
                   restarts, leds, lost, behind>>

\* tick, when nothing was sent for 5 ms.
RxTickNull ==
    /\ fifo # <<>>
    /\ Swallow
    /\ UNCHANGED <<tx, restarts, leds>>

\* controlRequest, HID GET_REPORT.
GetReport ==
    /\ fifo # <<>>
    /\ Answer
    /\ UNCHANGED <<tx, restarts, leds>>

Polled ==
    /\ endpoint # None
    /\ view' = IF endpoint = Message THEN view ELSE endpoint
    /\ endpoint' = None
    /\ UNCHANGED <<tx, fifo, acks, inputs, console, last, guide, buffer, restarts,
                   leds, lost, behind>>

RxRestart ==
    /\ restarts < MaxRestarts
    /\ restarts' = restarts + 1
    /\ Restarted(console)
    /\ UNCHANGED <<tx, leds>>

\* handle_player_leds of a receiver: writeAckPayload drops what does not fit.
SetLed ==
    /\ leds < MaxLeds
    /\ leds' = leds + 1
    /\ acks' = IF Len(acks) < FifoSize THEN Append(acks, leds + 1) ELSE acks
    /\ UNCHANGED <<tx, fifo, rx, restarts, lost>>

-----------------------------------------------------------------------------
Next ==
    \/ \E d \in Transmitters : Change(d) \/ TxTick(d) \/ TxRestart(d)
    \/ RxTick \/ RxTickEmpty \/ RxTickNull \/ GetReport \/ Polled
    \/ RxRestart \/ SetLed

\* The main loops of the transmitters and of the receiver keep ticking, and
\* the console keeps polling the interrupt endpoint.
Fairness ==
    /\ \A d \in Transmitters : WF_vars(TxTick(d))
    /\ WF_vars(RxTick) /\ WF_vars(Polled)

Spec == Init /\ [][Next]_vars /\ Fairness

-----------------------------------------------------------------------------
(* Properties.                                                              *)

\* The newest report of a transmitter whose write did not fail is on its way
\* or in the receiver's table, never overtaken and never dropped, whatever
\* takes the packets out of the radio: a report, a tick without a buffer, a
\* GET_REPORT (tick_rf_tx and the head of tick_inputs under RF_RX).
Waiting(d) == {i \in 1..Len(fifo) : fifo[i].id = "Input" /\ fifo[i].from = d}
NewestArrives ==
    \A d \in Transmitters :
        ~ lost[d] =>
            \/ Waiting(d) = {} /\ inputs[d] = lastRf[d]
            \/ \E i \in Waiting(d) : /\ \A j \in Waiting(d) : j <= i
                                     /\ fifo[i].value = lastRf[d]

\* What the console has, or is about to be given, is the last report built, through
\* every resend of a stale buffer and every keystroke in between; and that report is
\* the merge of the table unless a packet has been taken since without one: by a
\* keystroke, by a GET_REPORT or by a tick without a buffer (tick_inputs under RF_RX).
Shown == IF endpoint \in {None, Message} THEN view ELSE endpoint
HostKnows ==
    /\ last # None => Shown = last
    /\ ~ behind => last = Report(inputs, console)

\* Until the receiver restarts, the console never sees a player go back: not to an
\* older report, when the buffer is sent again or packets were taken by a GET_REPORT in
\* between, nor to none, when a transmitter restarts and announces itself.
NeverGoesBack ==
    [][view' = None \/ \A d \in Transmitters : view[d] <= view'[d]]_vars

\* Once its writes stop failing, what a player goes on holding reaches the
\* receiver's table and stays there.
HeldHeard ==
    \A d \in Transmitters :
        <>[](~ lost[d]) => <>[](inputs[d] = held[d])
=============================================================================
