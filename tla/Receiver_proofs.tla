-------------------------- MODULE Receiver_proofs ---------------------------
(***************************************************************************)
(* The receiver: what arrives over the radio (RfLink), and how the reports *)
(* of several controllers become one (ReportMerge).  They are two          *)
(* specifications, proved apart; names of the second begin with Merge.     *)
(*                                                                         *)
(* RfLink, for every number of transmitters, size of the radio's FIFO and  *)
(* number of restarts: the newest report that was written is never         *)
(* overtaken (NewestArrives), the console has what the receiver remembers  *)
(* (HostKnows), so that when nothing is under way it shows what the        *)
(* players hold, and it never sees one go back (NeverGoesBack).  The       *)
(* variables' types, and that the packets in the FIFO are those the        *)
(* transmitters send, are an inductive invariant of their own (Typed); the *)
(* first two are inductive relative to it, the last needs the order of     *)
(* versions from the console to the player (InQueueOrder, InSightOrder).   *)
(*                                                                         *)
(* ReportMerge, for any number of controllers in any order, with any       *)
(* reports: the buttons held are those of the report (MergedButtons), and  *)
(* each axis is the last controller's that claims it (MergedAxes).         *)
(* The tables say which field goes where (PairsMean, HostPairsMean,        *)
(* AxisCopied, PadMovesOf); from them follows what one controller adds     *)
(* (TransmitterAdded, HostAdded, TransmitterMoves, PadMoves), and from     *)
(* that the loop's invariants (MergedSoFar, AxesSoFar).                    *)
(***************************************************************************)
EXTENDS RfLink, ReportMerge, TLAPS

Packets ==
    [id : {"Input"}, from : Transmitters, value : Nat]
    \cup [id : {"Heartbeat", "ConsoleType"}, from : Nat, value : Nat]

Typed ==
    /\ held \in [Transmitters -> Nat]
    /\ lastRf \in [Transmitters -> Nat]
    /\ inputs \in [Transmitters -> Nat]
    /\ lost \in [Transmitters -> BOOLEAN]
    /\ fifo \in Seq(Packets)

-----------------------------------------------------------------------------
(* Lemmas about the packets.                                                *)

\* A packet that carries a report of d.
From(p, d) == p.id = "Input" /\ p.from = d

\* NewestArrives for one transmitter, of any queue and table.
Arrives(s, table, newest, d) ==
    \/ /\ \A i \in 1..Len(s) : ~ From(s[i], d)
       /\ table[d] = newest
    \/ \E i \in 1..Len(s) : /\ From(s[i], d)
                            /\ s[i].value = newest
                            /\ \A j \in 1..Len(s) : From(s[j], d) => j <= i

LEMMA NewestMeans ==
    NewestArrives <=>
        \A d \in Transmitters : ~ lost[d] => Arrives(fifo, inputs, lastRf[d], d)
<1>1. ASSUME NEW d \in Transmitters
      PROVE  /\ Waiting(d) = {} <=> \A i \in 1..Len(fifo) : ~ From(fifo[i], d)
             /\ \A i : i \in Waiting(d)
                       <=> i \in 1..Len(fifo) /\ From(fifo[i], d)
  BY DEF Waiting, From
<1>2. ASSUME NEW d \in Transmitters
      PROVE  (\E i \in Waiting(d) : /\ \A j \in Waiting(d) : j <= i
                                    /\ fifo[i].value = lastRf[d])
             <=> \E i \in 1..Len(fifo) :
                     /\ From(fifo[i], d)
                     /\ fifo[i].value = lastRf[d]
                     /\ \A j \in 1..Len(fifo) : From(fifo[j], d) => j <= i
  <2> HIDE DEF Waiting, From
  <2> QED
    BY <1>1, Zenon
<1> QED
  BY <1>1, <1>2, Zenon DEF NewestArrives, Arrives

\* A packet of another transmitter changes nothing for d.
LEMMA ArrivesAppend ==
    ASSUME NEW s \in Seq(Packets), NEW p \in Packets, NEW table, NEW newest,
           NEW d, ~ From(p, d), Arrives(s, table, newest, d)
    PROVE  Arrives(Append(s, p), table, newest, d)
<1>1. /\ Len(Append(s, p)) = Len(s) + 1
      /\ Append(s, p)[Len(s) + 1] = p
      /\ \A i \in 1..Len(s) : Append(s, p)[i] = s[i]
  OBVIOUS
<1>2. \A i \in 1..Len(s) + 1 : From(Append(s, p)[i], d) => i \in 1..Len(s)
  BY <1>1 DEF From
<1>3. Len(s) \in Nat
  OBVIOUS
<1> DEFINE t == Append(s, p)
<1> HIDE DEF t
<1>4. /\ Len(t) = Len(s) + 1 /\ \A i \in 1..Len(s) : t[i] = s[i]
      /\ \A i \in 1..Len(s) + 1 : From(t[i], d) => i \in 1..Len(s)
  BY <1>1, <1>2 DEF t
<1>5. Arrives(t, table, newest, d)
  BY <1>3, <1>4 DEF Arrives
<1> QED
  BY <1>5 DEF t

\* A packet of d is the newest.
LEMMA ArrivesNew ==
    ASSUME NEW s \in Seq(Packets), NEW p \in Packets, NEW table, NEW d,
           From(p, d)
    PROVE  Arrives(Append(s, p), table, p.value, d)
<1>1. /\ Len(Append(s, p)) = Len(s) + 1
      /\ Append(s, p)[Len(s) + 1] = p
      /\ Len(s) \in Nat
  OBVIOUS
<1> QED
  BY <1>1 DEF Arrives

\* Taking a packet of another transmitter changes nothing for d.
LEMMA ArrivesTail ==
    ASSUME NEW s \in Seq(Packets), s # <<>>, NEW table, NEW table2,
           NEW newest, NEW d, ~ From(Head(s), d), table2[d] = table[d],
           Arrives(s, table, newest, d)
    PROVE  Arrives(Tail(s), table2, newest, d)
<1>1. /\ Len(s) \in Nat \ {0} /\ Len(Tail(s)) = Len(s) - 1
      /\ s[1] = Head(s)
      /\ \A i \in 1..Len(s) - 1 : Tail(s)[i] = s[i + 1]
  OBVIOUS
<1> DEFINE t == Tail(s)
<1> HIDE DEF t
<1>2. /\ Len(t) = Len(s) - 1 /\ \A i \in 1..Len(s) - 1 : t[i] = s[i + 1]
      /\ ~ From(s[1], d)
  BY <1>1 DEF t
<1>3. CASE /\ \A i \in 1..Len(s) : ~ From(s[i], d)
           /\ table[d] = newest
  <2>1. \A i \in 1..Len(t) : ~ From(t[i], d)
    BY <1>1, <1>2, <1>3
  <2> QED
    BY <2>1, <1>3 DEF Arrives, t
<1>4. ASSUME NEW i \in 1..Len(s), From(s[i], d), s[i].value = newest,
             \A j \in 1..Len(s) : From(s[j], d) => j <= i
      PROVE  Arrives(t, table2, newest, d)
  <2>1. i # 1
    BY <1>2, <1>4
  <2>2. i - 1 \in 1..Len(t) /\ t[i - 1] = s[i]
    BY <1>1, <1>2, <2>1
  <2>3. \A j \in 1..Len(t) : From(t[j], d) => j <= i - 1
    BY <1>1, <1>2, <1>4
  <2> QED
    BY <2>2, <2>3, <1>4 DEF Arrives
<1> QED
  BY <1>3, <1>4 DEF Arrives, t

\* Taking a packet of d brings its report to the table.
LEMMA ArrivesTake ==
    ASSUME NEW s \in Seq(Packets), s # <<>>, NEW table, NEW table2,
           NEW newest, NEW d, From(Head(s), d), table2[d] = Head(s).value,
           Arrives(s, table, newest, d)
    PROVE  Arrives(Tail(s), table2, newest, d)
<1>1. /\ Len(s) \in Nat \ {0} /\ Len(Tail(s)) = Len(s) - 1
      /\ s[1] = Head(s)
      /\ \A i \in 1..Len(s) - 1 : Tail(s)[i] = s[i + 1]
  OBVIOUS
<1> DEFINE t == Tail(s)
<1> HIDE DEF t
<1>2. /\ Len(t) = Len(s) - 1 /\ \A i \in 1..Len(s) - 1 : t[i] = s[i + 1]
      /\ From(s[1], d) /\ table2[d] = s[1].value
  BY <1>1 DEF t
<1>3. PICK i \in 1..Len(s) : /\ From(s[i], d) /\ s[i].value = newest
                             /\ \A j \in 1..Len(s) : From(s[j], d) => j <= i
  BY <1>1, <1>2 DEF Arrives
<1>4. CASE i = 1
  <2>1. \A j \in 1..Len(t) : ~ From(t[j], d)
    BY <1>1, <1>2, <1>3, <1>4
  <2> QED
    BY <2>1, <1>2, <1>3, <1>4 DEF Arrives, t
<1>5. CASE i # 1
  <2>1. i - 1 \in 1..Len(t) /\ t[i - 1] = s[i]
    BY <1>1, <1>2, <1>5
  <2>2. \A j \in 1..Len(t) : From(t[j], d) => j <= i - 1
    BY <1>1, <1>2, <1>3
  <2>3. Arrives(t, table2, newest, d)
    BY <2>1, <2>2, <1>3 DEF Arrives
  <2> QED
    BY <2>3 DEF t
<1> QED
  BY <1>4, <1>5

-----------------------------------------------------------------------------
(* The types.                                                               *)

\* A packet that is taken out of the FIFO is one of Packets.
LEMMA HeadTyped ==
    ASSUME Typed, fifo # <<>>
    PROVE  /\ Head(fifo) \in Packets /\ Tail(fifo) \in Seq(Packets)
           /\ Head(fifo).id = "Input" =>
                Head(fifo).from \in Transmitters /\ Head(fifo).value \in Nat
<1>1. Head(fifo) \in Packets /\ Tail(fifo) \in Seq(Packets)
  BY DEF Typed
<1> QED
  BY <1>1 DEF Packets

LEMMA RestartedTyped ==
    ASSUME Typed, NEW type, Restarted(type),
           UNCHANGED tx
    PROVE  Typed'
BY DEF Restarted, Typed, tx

\* What Process, Answer and Swallow have in common.
LEMMA TakenTyped ==
    ASSUME Typed, fifo # <<>>, UNCHANGED tx, Process \/ Answer \/ Swallow
    PROVE  Typed'
<1> DEFINE packet == Head(fifo)
<1>1. /\ packet \in Packets /\ Tail(fifo) \in Seq(Packets)
      /\ packet.id = "Input" => packet.from \in Transmitters /\ packet.value \in Nat
      /\ packet.id \in {"Input", "Heartbeat", "ConsoleType"}
  BY HeadTyped DEF Packets
<1> HIDE DEF packet
<1>2. CASE packet.id = "ConsoleType"
  <2>1. SetConsoleType(TypeOf[packet.from])
    BY <1>2 DEF Process, Answer, Swallow, Take, Announcement, packet
  <2> QED
    BY <2>1, <1>1, RestartedTyped DEF SetConsoleType, Typed, tx, rx
<1>3. CASE packet.id = "Heartbeat"
  <2>1. fifo' = Tail(fifo) /\ UNCHANGED <<rx, acks, lost>>
    BY <1>3 DEF Process, Answer, Swallow, Take, Announcement, packet
  <2> QED
    BY <2>1, <1>1 DEF Typed, tx, rx
<1>4. CASE packet.id = "Input"
  <2>1. /\ fifo' = Tail(fifo) /\ UNCHANGED lost
        /\ inputs' = [inputs EXCEPT ![packet.from] = packet.value]
    BY <1>4 DEF Process, Answer, Swallow, Take, Announcement, packet
  <2> QED
    BY <2>1, <1>1, <1>4 DEF Typed, tx
<1> QED
  BY <1>1, <1>2, <1>3, <1>4

LEMMA SentTyped ==
    ASSUME NEW d \in Transmitters, Typed
    PROVE  {Input(d), Heartbeat, TypePacket(d)} \subseteq Packets
<1>1. d \in Nat /\ held[d] \in Nat
  BY DEF Typed, Transmitters
<1> QED
  BY <1>1 DEF Input, Heartbeat, TypePacket, Packets

LEMMA DeliveredTyped ==
    ASSUME Typed, NEW p \in Packets, Delivered(p)
    PROVE  fifo' \in Seq(Packets)
BY DEF Delivered, Typed

\* What is in the air and in the tables are packets and versions.
THEOREM TypesCorrect == Spec => []Typed
<1>1. Init => Typed
  BY DEF Init, Typed
<1>2. Typed /\ [Next]_vars => Typed'
  <2> SUFFICES ASSUME Typed, [Next]_vars PROVE Typed'
    OBVIOUS
  <2>1. ASSUME NEW d \in Transmitters, Change(d) PROVE Typed'
    BY <2>1 DEF Change, Typed, rx
  <2>2. ASSUME NEW d \in Transmitters, TxTick(d) PROVE Typed'
    <3>1. fifo' \in Seq(Packets)
      BY <2>2, SentTyped, DeliveredTyped DEF TxTick, Typed
    <3>2. lastRf' \in [Transmitters -> Nat] /\ UNCHANGED <<held, inputs>>
      BY <2>2 DEF TxTick, Typed, rx
    <3>3. lost' \in [Transmitters -> BOOLEAN]
      BY <2>2, Zenon DEF TxTick, Typed
    <3> QED
      BY <3>1, <3>2, <3>3 DEF Typed
  <2>3. ASSUME NEW d \in Transmitters, TxRestart(d) PROVE Typed'
    <3>1. fifo' \in Seq(Packets)
      BY <2>3, SentTyped, DeliveredTyped DEF TxRestart, Typed
    <3> QED
      BY <2>3, <3>1 DEF TxRestart, Typed, rx
  <2>4. CASE RxTick
    BY <2>4, TakenTyped DEF RxTick
  <2>5. CASE RxTickEmpty \/ Polled
    BY <2>5 DEF RxTickEmpty, Polled, Typed, tx
  <2>6. CASE RxTickNull \/ GetReport
    BY <2>6, TakenTyped DEF RxTickNull, GetReport
  <2>7. CASE RxRestart
    BY <2>7, RestartedTyped DEF RxRestart
  <2>8. CASE SetLed
    BY <2>8 DEF SetLed, Typed, tx, rx
  <2>9. CASE UNCHANGED vars
    BY <2>9 DEF vars, Typed
  <2> QED
    BY <2>1, <2>2, <2>3, <2>4, <2>5, <2>6, <2>7, <2>8, <2>9 DEF Next
<1> QED
  BY <1>1, <1>2, PTL DEF Spec

-----------------------------------------------------------------------------
(* What the console has.                                                    *)

\* A report of typed tables is neither the mark of no report nor a message: its last
\* place is always filled, and by a version.
LEMMA ReportIsOne ==
    ASSUME NEW table \in [Transmitters -> Nat], NEW type
    PROVE  Report(table, type) # None /\ Report(table, type) # Message
<1>1. Count \in Transmitters
  BY RfAssumption DEF Transmitters
<1>2. Report(table, type)[Count] = table[Count] /\ table[Count] \in Nat
  BY <1>1 DEF Report
<1>3. None[Count] = -1 /\ Message[Count] = -2
  BY <1>1 DEF None, Message
<1> QED
  BY <1>2, <1>3

LEMMA MarksDiffer == None # Message /\ None # Zeros /\ Message # Zeros
<1>1. Count \in Transmitters
  BY RfAssumption DEF Transmitters
<1>2. None[Count] = -1 /\ Message[Count] = -2 /\ Zeros[Count] = 0
  BY <1>1 DEF None, Message, Zeros
<1> QED
  BY <1>2

\* What the buffer can hold besides a message: the last report built.
Known == IF last = None THEN Zeros ELSE last
Buffered == buffer \in {Message, Known} /\ last # Message

LEMMA RestartedKnows ==
    ASSUME NEW type, Restarted(type)
    PROVE  HostKnows' /\ Buffered'
BY MarksDiffer DEF Restarted, HostKnows, Buffered, Known, Fresh, None, Message, Zeros

\* The endpoint holds, or the console shows, the last report built, and while
\* nothing has been taken without a report that is the merge of the table.
THEOREM ConsoleKnows == Spec => []HostKnows
<1> DEFINE Inv == HostKnows /\ Buffered
<1>1. Init => Inv
  BY MarksDiffer DEF Init, HostKnows, Buffered, Known, Fresh
<1>2. Typed /\ Typed' /\ Inv /\ [Next]_vars => Inv'
  <2> SUFFICES ASSUME Typed, Typed', Inv, [Next]_vars PROVE Inv'
    OBVIOUS
  <2>1. CASE UNCHANGED rx
    BY <2>1 DEF rx, HostKnows, Shown, Report, Buffered, Known, None, Message, Zeros
  <2>2. CASE RxTick
    <3> DEFINE packet == Head(fifo)
    <3>1. packet.id \in {"Input", "Heartbeat", "ConsoleType"} /\ Process /\ endpoint = None
      BY <2>2, HeadTyped DEF RxTick, Packets
    <3> HIDE DEF packet
    <3>2. CASE Announcement(packet)
      BY <3>2, <2>1, RestartedKnows DEF Announcement, SetConsoleType
    <3>3. CASE Take(packet)
      <4> DEFINE report == Report(inputs', console)
      <4>1. /\ UNCHANGED <<console, view>> /\ endpoint = None
            /\ inputs' \in [Transmitters -> Nat]
        BY <3>1, <3>3 DEF Take, Typed
      <4>2. report # None /\ report # Message
        BY <4>1, ReportIsOne
      <4>3. CASE Compare(report)
        <5>1. Report(inputs', console') = report
          BY <4>1
        <5> HIDE DEF report
        <5> QED
          BY <4>1, <4>2, <4>3, <5>1
          DEF Compare, HostKnows, Shown, Buffered, Known, None, Message, Zeros
      <4>4. CASE /\ buffer' = Message /\ endpoint' = Message
                 /\ behind' = TRUE /\ UNCHANGED last
        BY <4>1, <4>4, MarksDiffer
        DEF HostKnows, Shown, Buffered, Known, None, Message, Zeros
      <4> QED
        BY <3>1, <3>3, <4>3, <4>4 DEF Process, Take, Announcement, packet
    <3> QED
      BY <3>1, <3>2, <3>3 DEF Process, packet
  <2>3. CASE RxTickNull \/ GetReport
    <3> DEFINE packet == Head(fifo)
    <3>1. Answer \/ Swallow
      BY <2>3 DEF RxTickNull, GetReport
    <3> HIDE DEF packet
    <3>2. CASE Announcement(packet)
      BY <3>2, <2>1, RestartedKnows DEF Announcement, SetConsoleType
    <3>3. CASE /\ behind' = TRUE
               /\ UNCHANGED <<console, view, last, buffer, endpoint>>
      BY <3>3 DEF HostKnows, Shown, Buffered, Known, None, Message, Zeros
    <3> QED
      BY <3>1, <3>2, <3>3 DEF Answer, Swallow, Take, packet
  <2>4. CASE RxTickEmpty
    BY <2>4, MarksDiffer
    DEF RxTickEmpty, HostKnows, Shown, Buffered, Known, None, Message, Zeros, Report
  <2>5. CASE Polled
    BY <2>5, MarksDiffer
    DEF Polled, HostKnows, Shown, Buffered, Known, None, Message, Zeros, Report
  <2>6. CASE RxRestart
    BY <2>6, RestartedKnows DEF RxRestart
  <2>7. CASE \/ \E d \in Transmitters : Change(d) \/ TxTick(d) \/ TxRestart(d)
             \/ SetLed \/ UNCHANGED vars
    <3>1. UNCHANGED rx
      BY <2>7 DEF Change, TxTick, TxRestart, SetLed, vars, rx
    <3> QED
      BY <3>1, <2>1
  <2> QED
    BY <2>2, <2>3, <2>4, <2>5, <2>6, <2>7 DEF Next
<1> QED
  BY <1>1, <1>2, TypesCorrect, PTL DEF Spec

-----------------------------------------------------------------------------
(* The newest report.                                                       *)

\* NewestArrives after a step, from what it says of each transmitter.
LEMMA NewestMeansAfter ==
    NewestArrives' <=>
        \A d \in Transmitters :
            ~ lost'[d] => Arrives(fifo', inputs', lastRf'[d], d)
<1> DEFINE All == \A d \in Transmitters :
                      ~ lost[d] => Arrives(fifo, inputs, lastRf[d], d)
<1>1. NewestArrives <=> All
  BY NewestMeans
<1>2. All' <=> \A d \in Transmitters :
                  ~ lost'[d] => Arrives(fifo', inputs', lastRf'[d], d)
  BY DEF Arrives, From
<1> HIDE DEF All
<1>3. NewestArrives' <=> All'
  BY <1>1, PTL
<1> QED
  BY <1>2, <1>3

LEMMA RestartedForgets ==
    ASSUME NEW type, Restarted(type)
    PROVE  NewestArrives'
<1>1. \A d \in Transmitters : lost'[d]
  BY DEF Restarted
<1> QED
  BY <1>1, NewestMeansAfter

\* Taking a packet out of the FIFO, whoever takes it.
LEMMA TakenArrives ==
    ASSUME Typed, NewestArrives, fifo # <<>>, UNCHANGED tx,
           Process \/ Answer \/ Swallow
    PROVE  NewestArrives'
<1> DEFINE packet == Head(fifo)
<1>1. /\ packet \in Packets /\ fifo \in Seq(Packets)
      /\ packet.id = "Input" => packet.from \in Transmitters /\ packet.value \in Nat
      /\ packet.id \in {"Input", "Heartbeat", "ConsoleType"}
  BY HeadTyped DEF Packets, Typed
<1>2. \A d \in Transmitters : ~ lost[d] => Arrives(fifo, inputs, lastRf[d], d)
  BY NewestMeans
<1>3. CASE packet.id # "Input" /\ fifo' = Tail(fifo) /\ UNCHANGED <<rx, lost>>
  <2>1. ASSUME NEW d \in Transmitters, ~ lost'[d]
        PROVE  Arrives(fifo', inputs', lastRf'[d], d)
    <3>1. /\ Arrives(fifo, inputs, lastRf[d], d) /\ ~ From(packet, d)
          /\ fifo' = Tail(fifo) /\ inputs' = inputs /\ lastRf' = lastRf
      BY <2>1, <1>2, <1>3 DEF From, rx, tx
    <3>2. Arrives(Tail(fifo), inputs, lastRf[d], d)
      BY <3>1, <1>1, ArrivesTail
    <3> QED
      BY <3>1, <3>2
  <2> QED
    BY <2>1, NewestMeansAfter
<1> HIDE DEF packet
<1>4. CASE packet.id = "ConsoleType"
  <2>1. SetConsoleType(TypeOf[packet.from])
    BY <1>4 DEF Process, Answer, Swallow, Take, Announcement, packet
  <2>2. CASE fifo' = Tail(fifo) /\ UNCHANGED <<rx, acks, lost>>
    BY <1>3, <1>4, <2>2
  <2> QED
    BY <2>1, <2>2, RestartedForgets DEF SetConsoleType
<1>5. CASE packet.id = "Heartbeat"
  BY <1>3, <1>5 DEF Process, Answer, Swallow, Take, Announcement, packet
<1>6. CASE packet.id = "Input"
  <2>1. /\ fifo' = Tail(fifo) /\ lost' = lost /\ lastRf' = lastRf
        /\ inputs' = [inputs EXCEPT ![packet.from] = packet.value]
    BY <1>6 DEF Process, Answer, Swallow, Take, Announcement, packet, tx
  <2>2. inputs \in [Transmitters -> Nat]
    BY DEF Typed
  <2>3. ASSUME NEW d \in Transmitters, ~ lost'[d]
        PROVE  Arrives(fifo', inputs', lastRf'[d], d)
    <3>1. Arrives(fifo, inputs, lastRf[d], d)
      BY <2>1, <2>3, <1>2
    <3>2. CASE From(packet, d)
      <4>1. inputs'[d] = packet.value
        BY <2>1, <2>2, <3>2 DEF From
      <4>2. Arrives(Tail(fifo), inputs', lastRf[d], d)
        BY <3>1, <3>2, <4>1, <1>1, ArrivesTake DEF packet
      <4> QED
        BY <4>2, <2>1
    <3>3. CASE ~ From(packet, d)
      <4>1. inputs'[d] = inputs[d]
        BY <2>1, <2>2, <3>3, <1>6 DEF From
      <4>2. Arrives(Tail(fifo), inputs', lastRf[d], d)
        BY <3>1, <3>3, <4>1, <1>1, ArrivesTail DEF packet
      <4> QED
        BY <4>2, <2>1
    <3> QED
      BY <3>2, <3>3
  <2> QED
    BY <2>3, NewestMeansAfter
<1> QED
  BY <1>1, <1>4, <1>5, <1>6

\* A transmitter writes: a report that changed, or a heartbeat.
LEMMA SentArrives ==
    ASSUME NEW c \in Transmitters, Typed, NewestArrives, TxTick(c)
    PROVE  NewestArrives'
<1> DEFINE changed == held[c] # lastRf[c]
           packet == IF changed THEN Input(c) ELSE Heartbeat
<1>1. /\ packet \in Packets /\ fifo \in Seq(Packets)
      /\ changed => From(packet, c) /\ packet.value = held[c]
      /\ \A d : From(packet, d) => changed /\ d = c
  BY SentTyped DEF Typed, From, Input, Heartbeat
<1>2. /\ lastRf' = [lastRf EXCEPT ![c] = held[c]] /\ inputs' = inputs
      /\ \/ Delivered(packet) /\ lost' = [lost EXCEPT ![c] = @ /\ ~ changed]
         \/ fifo' = fifo /\ lost' = [lost EXCEPT ![c] = @ \/ changed]
  BY Zenon DEF TxTick, rx
<1> HIDE DEF packet
<1>3. \A d \in Transmitters : ~ lost[d] => Arrives(fifo, inputs, lastRf[d], d)
  BY NewestMeans
<1>4. lastRf \in [Transmitters -> Nat] /\ lost \in [Transmitters -> BOOLEAN]
  BY DEF Typed
<1>5. ASSUME NEW d \in Transmitters, ~ lost'[d]
      PROVE  Arrives(fifo', inputs', lastRf'[d], d)
  <2>1. CASE d = c /\ changed
    <3>1. Delivered(packet) \/ lost'[c]
      <4>1. CASE lost' = [lost EXCEPT ![c] = @ \/ changed]
        BY <4>1, <1>4, <2>1, Zenon
      <4> QED
        BY <1>2, <4>1
    <3>2. fifo' = Append(fifo, packet)
      BY <3>1, <1>5, <2>1 DEF Delivered
    <3>3. Arrives(Append(fifo, packet), inputs, packet.value, d)
      BY <1>1, <2>1, ArrivesNew
    <3>4. lastRf'[d] = packet.value
      BY <1>1, <1>2, <1>4, <2>1
    <3> QED
      BY <3>2, <3>3, <3>4, <1>2
  <2>2. CASE ~ (d = c /\ changed)
    <3>1. lastRf'[d] = lastRf[d] /\ ~ From(packet, d)
      BY <1>1, <1>2, <1>4, <2>2
    <3>2. ~ lost[d]
      <4>1. CASE d # c
        <5>1. lost'[d] = lost[d]
          BY <4>1, <1>2, <1>4, Zenon
        <5> QED
          BY <5>1, <1>5
      <4>2. CASE d = c
        <5>1. ~ changed
          BY <4>2, <2>2
        <5>2. ~ lost'[c]
          BY <4>2, <1>5
        <5>3. CASE lost' = [lost EXCEPT ![c] = @ /\ ~ changed]
          BY <5>1, <5>2, <5>3, <1>4, <4>2, Zenon
        <5>4. CASE lost' = [lost EXCEPT ![c] = @ \/ changed]
          BY <5>1, <5>2, <5>4, <1>4, <4>2, Zenon
        <5> QED
          BY <5>3, <5>4, <1>2
      <4> QED
        BY <4>1, <4>2
    <3>3. Arrives(fifo, inputs, lastRf[d], d)
      BY <3>2, <1>3
    <3>4. CASE fifo' = Append(fifo, packet)
      <4>1. Arrives(Append(fifo, packet), inputs, lastRf[d], d)
        BY <3>1, <3>3, <1>1, ArrivesAppend
      <4> QED
        BY <4>1, <3>4, <3>1, <1>2
    <3>5. CASE fifo' = fifo
      BY <3>5, <3>1, <3>3, <1>2
    <3> QED
      BY <3>4, <3>5, <1>2 DEF Delivered
  <2> QED
    BY <2>1, <2>2
<1> QED
  BY <1>5, NewestMeansAfter

\* A transmitter that restarts announces its type: no report of anybody.
LEMMA AnnouncedArrives ==
    ASSUME NEW c \in Transmitters, Typed, NewestArrives, TxRestart(c)
    PROVE  NewestArrives'
<1>1. /\ TypePacket(c) \in Packets /\ fifo \in Seq(Packets)
      /\ \A d : ~ From(TypePacket(c), d)
  BY SentTyped DEF Typed, From, TypePacket
<1>2. /\ lastRf' = [lastRf EXCEPT ![c] = 0] /\ inputs' = inputs
      /\ lost' = [lost EXCEPT ![c] = TRUE]
      /\ fifo' = Append(fifo, TypePacket(c)) \/ fifo' = fifo
  BY DEF TxRestart, Delivered, rx
<1>3. \A d \in Transmitters : ~ lost[d] => Arrives(fifo, inputs, lastRf[d], d)
  BY NewestMeans
<1>4. lastRf \in [Transmitters -> Nat] /\ lost \in [Transmitters -> BOOLEAN]
  BY DEF Typed
<1>5. ASSUME NEW d \in Transmitters, ~ lost'[d]
      PROVE  Arrives(fifo', inputs', lastRf'[d], d)
  <2>1. d # c /\ ~ lost[d]
    BY <1>2, <1>4, <1>5, Zenon
  <2>2. lastRf'[d] = lastRf[d] /\ Arrives(fifo, inputs, lastRf[d], d)
    BY <2>1, <1>2, <1>3, <1>4
  <2>3. Arrives(Append(fifo, TypePacket(c)), inputs, lastRf[d], d)
    BY <2>2, <1>1, ArrivesAppend
  <2> QED
    BY <2>2, <2>3, <1>2
<1> QED
  BY <1>5, NewestMeansAfter

\* The newest report of a transmitter whose write did not fail is on its way
\* or in the table, whatever takes the packets out of the radio.
THEOREM NewestIsNotOvertaken == Spec => []NewestArrives
<1>1. Init => NewestArrives
  BY NewestMeans DEF Init
<1>2. Typed /\ NewestArrives /\ [Next]_vars => NewestArrives'
  <2> SUFFICES ASSUME Typed, NewestArrives, [Next]_vars PROVE NewestArrives'
    OBVIOUS
  <2>1. CASE UNCHANGED <<fifo, inputs, lastRf, lost>>
    BY <2>1 DEF NewestArrives, Waiting
  <2>2. ASSUME NEW d \in Transmitters, TxTick(d) PROVE NewestArrives'
    BY <2>2, SentArrives
  <2>3. ASSUME NEW d \in Transmitters, TxRestart(d) PROVE NewestArrives'
    BY <2>3, AnnouncedArrives
  <2>4. CASE RxTick \/ RxTickNull \/ GetReport
    BY <2>4, TakenArrives DEF RxTick, RxTickNull, GetReport
  <2>5. CASE RxRestart
    BY <2>5, RestartedForgets DEF RxRestart
  <2>6. CASE \/ \E d \in Transmitters : Change(d)
             \/ RxTickEmpty \/ Polled \/ SetLed \/ UNCHANGED vars
    <3>1. UNCHANGED <<fifo, inputs, lastRf, lost>>
      BY <2>6 DEF Change, RxTickEmpty, Polled, SetLed, vars, tx, rx
    <3> QED
      BY <3>1, <2>1
  <2> QED
    BY <2>2, <2>3, <2>4, <2>5, <2>6 DEF Next
<1> QED
  BY <1>1, <1>2, TypesCorrect, PTL DEF Spec

-----------------------------------------------------------------------------
(* The order of the reports.                                                *)

\* What the table has of d, the reports of d in the queue from its head on, and what
\* d's player holds: each at least as new as the one before.
Climbs(s, tabled, newest, d) ==
    /\ tabled <= newest
    /\ \A i \in 1..Len(s) : From(s[i], d) =>
          /\ tabled <= s[i].value /\ s[i].value <= newest
          /\ \A j \in 1..i : From(s[j], d) => s[j].value <= s[i].value

InQueueOrder == \A d \in Transmitters : Climbs(fifo, inputs[d], held[d], d)

\* What the console shows is no newer than what the receiver remembers, that no newer
\* than the report its table would make.
InSightOrder ==
    /\ view \in [Transmitters -> Int] /\ last \in [Transmitters -> Int]
    /\ buffer \in {Message, Known} /\ endpoint \in {None, Message, Known}
    /\ \A d \in Transmitters :
          view[d] <= Known[d] /\ Known[d] <= Report(inputs, console)[d]

LEMMA ValueTyped ==
    ASSUME NEW s \in Seq(Packets)
    PROVE  \A i \in 1..Len(s) : s[i].value \in Nat
BY DEF Packets

\* A player presses on: the newest of all.
LEMMA ClimbsUp ==
    ASSUME NEW s \in Seq(Packets), NEW tabled \in Nat, NEW newest \in Nat, NEW d,
           NEW newer \in Nat, newest <= newer, Climbs(s, tabled, newest, d)
    PROVE  Climbs(s, tabled, newer, d)
<1>1. \A i \in 1..Len(s) : s[i].value \in Nat
  BY ValueTyped
<1> QED
  BY <1>1 DEF Climbs

\* A packet arrives: a report of d is what its player holds.
LEMMA ClimbsAppend ==
    ASSUME NEW s \in Seq(Packets), NEW p \in Packets, NEW tabled \in Nat, NEW newest \in Nat,
           NEW d, From(p, d) => p.value = newest, Climbs(s, tabled, newest, d)
    PROVE  Climbs(Append(s, p), tabled, newest, d)
<1> DEFINE t == Append(s, p)
           n == Len(s)
<1>1. /\ Len(t) = n + 1 /\ n \in Nat /\ t[n + 1] = p
      /\ \A i \in 1..n : t[i] = s[i] /\ s[i].value \in Nat
  BY ValueTyped
<1> HIDE DEF t, n
<1>2. /\ tabled <= newest
      /\ \A i \in 1..n : From(s[i], d) =>
           /\ tabled <= s[i].value /\ s[i].value <= newest
           /\ \A j \in 1..i : From(s[j], d) => s[j].value <= s[i].value
  BY DEF Climbs, n
<1>3. ASSUME NEW i \in 1..n + 1, From(t[i], d)
      PROVE  /\ tabled <= t[i].value /\ t[i].value <= newest
             /\ \A j \in 1..i : From(t[j], d) => t[j].value <= t[i].value
  <2>1. CASE i \in 1..n
    <3>1. \A j \in 1..i : j \in 1..n
      BY <1>1, <2>1
    <3> QED
      BY <1>1, <1>2, <1>3, <2>1, <3>1
  <2>2. CASE i \notin 1..n
    <3>1. i = n + 1 /\ t[i] = p
      BY <1>1, <2>2
    <3>2. t[i].value = newest
      BY <1>3, <3>1
    <3>3. ASSUME NEW j \in 1..i, From(t[j], d) PROVE t[j].value <= newest
      <4>1. CASE j \in 1..n
        BY <1>1, <1>2, <3>3, <4>1
      <4>2. CASE j \notin 1..n
        <5>1. j = i
          BY <1>1, <3>1, <4>2
        <5> QED
          BY <3>2, <5>1
      <4> QED
        BY <4>1, <4>2
    <3> QED
      BY <1>2, <3>2, <3>3
  <2> QED
    BY <2>1, <2>2
<1>4. Climbs(t, tabled, newest, d)
  BY <1>1, <1>2, <1>3 DEF Climbs
<1> QED
  BY <1>4 DEF t

\* The first packet is taken: a report of d goes to the table.
LEMMA ClimbsTail ==
    ASSUME NEW s \in Seq(Packets), s # <<>>, NEW tabled \in Nat, NEW newest \in Nat, NEW d,
           NEW after, after = IF From(Head(s), d) THEN Head(s).value ELSE tabled,
           Climbs(s, tabled, newest, d)
    PROVE  Climbs(Tail(s), after, newest, d) /\ tabled <= after
<1> DEFINE t == Tail(s)
           n == Len(s)
<1>1. /\ n \in Nat \ {0} /\ Len(t) = n - 1 /\ s[1] = Head(s)
      /\ \A i \in 1..n - 1 : t[i] = s[i + 1]
      /\ \A i \in 1..n : s[i].value \in Nat
  BY ValueTyped
<1> HIDE DEF t, n
<1>2. /\ tabled <= newest
      /\ \A i \in 1..n : From(s[i], d) =>
           /\ tabled <= s[i].value /\ s[i].value <= newest
           /\ \A j \in 1..i : From(s[j], d) => s[j].value <= s[i].value
  BY DEF Climbs, n
<1>3. /\ tabled <= after /\ after <= newest
      /\ From(s[1], d) => after = s[1].value
      /\ ~ From(s[1], d) => after = tabled
  BY <1>1, <1>2
<1>4. ASSUME NEW i \in 1..n - 1, From(t[i], d)
      PROVE  /\ after <= t[i].value /\ t[i].value <= newest
             /\ \A j \in 1..i : From(t[j], d) => t[j].value <= t[i].value
  <2>1. i + 1 \in 1..n /\ t[i] = s[i + 1] /\ 1 \in 1..i + 1
    BY <1>1
  <2>2. t[i].value <= newest
    BY <1>2, <1>4, <2>1
  <2>3. after <= t[i].value
    BY <1>2, <1>3, <1>4, <2>1
  <2>4. ASSUME NEW j \in 1..i, From(t[j], d) PROVE t[j].value <= t[i].value
    <3>1. j + 1 \in 1..i + 1 /\ t[j] = s[j + 1]
      BY <1>1, <1>4
    <3> QED
      BY <1>2, <1>4, <2>1, <2>4, <3>1
  <2> QED
    BY <2>2, <2>3, <2>4
<1>5. Climbs(t, after, newest, d)
  BY <1>1, <1>3, <1>4 DEF Climbs
<1> QED
  BY <1>3, <1>5 DEF t

LEMMA RestartedInOrder ==
    ASSUME NEW type, Restarted(type), Typed'
    PROVE  InQueueOrder' /\ InSightOrder'
<1>1. /\ fifo' = <<>> /\ inputs' = [d \in Transmitters |-> 0]
      /\ last' = None /\ endpoint' = None /\ view' = None
      /\ buffer' \in {Message, Zeros}
  BY DEF Restarted, Fresh
<1>2. ASSUME NEW d \in Transmitters PROVE Climbs(fifo', inputs'[d], held'[d], d)
  <2>1. inputs'[d] = 0 /\ held'[d] \in Nat /\ Len(fifo') = 0
    BY <1>1 DEF Typed
  <2> QED
    BY <2>1 DEF Climbs
<1>3. InQueueOrder'
  BY <1>2 DEF InQueueOrder, Climbs, From
<1>4. None \in [Transmitters -> Int] /\ Known' = Zeros
  BY <1>1 DEF None, Known, Zeros
<1>5. ASSUME NEW d \in Transmitters
      PROVE  view'[d] <= Known'[d] /\ Known'[d] <= Report(inputs', console')[d]
  <2>1. Report(inputs', console')[d] = 0
    BY <1>1 DEF Report
  <2>2. view'[d] = -1 /\ Known'[d] = 0
    BY <1>1, <1>4 DEF None, Zeros
  <2> QED
    BY <2>1, <2>2
<1>6. /\ view' \in [Transmitters -> Int] /\ last' \in [Transmitters -> Int]
      /\ buffer' \in {Message, Known'} /\ endpoint' \in {None, Message, Known'}
  BY <1>1, <1>4
<1>7. InSightOrder'
  BY <1>5, <1>6 DEF InSightOrder, Known, None, Message, Zeros, Report
<1> QED
  BY <1>3, <1>7

\* A table with newer reports makes a newer report.
LEMMA ReportClimbs ==
    ASSUME NEW table \in [Transmitters -> Nat], NEW table2 \in [Transmitters -> Nat], NEW type,
           \A d \in Transmitters : table[d] <= table2[d]
    PROVE  /\ Report(table2, type) \in [Transmitters -> Nat]
           /\ \A d \in Transmitters : Report(table, type)[d] <= Report(table2, type)[d]
BY DEF Report

\* Taking a packet out of the FIFO, whoever takes it: the receiver restarts, or its
\* table goes forward.
LEMMA TakenInOrder ==
    ASSUME Typed, Typed', InQueueOrder, fifo # <<>>, UNCHANGED tx, Process \/ Answer \/ Swallow
    PROVE  \/ \E type : Restarted(type)
           \/ /\ InQueueOrder' /\ UNCHANGED <<console, view>>
              /\ \A d \in Transmitters : inputs[d] <= inputs'[d]
<1> DEFINE packet == Head(fifo)
<1>1. /\ packet \in Packets /\ fifo \in Seq(Packets)
      /\ packet.id = "Input" => packet.from \in Transmitters /\ packet.value \in Nat
      /\ packet.id \in {"Input", "Heartbeat", "ConsoleType"}
  BY HeadTyped DEF Packets, Typed
<1>2. \/ \E type : Restarted(type)
      \/ /\ packet.id # "Input" /\ UNCHANGED <<inputs, console, view>>
         /\ fifo' = Tail(fifo)
      \/ /\ packet.id = "Input" /\ UNCHANGED <<console, view>>
         /\ inputs' = [inputs EXCEPT ![packet.from] = packet.value]
         /\ fifo' = Tail(fifo)
  <2>1. CASE packet.id = "ConsoleType"
    <3>1. SetConsoleType(TypeOf[packet.from])
      BY <2>1 DEF Process, Answer, Swallow, Take, Announcement
    <3> QED
      BY <2>1, <3>1 DEF SetConsoleType, rx
  <2>2. CASE packet.id = "Heartbeat"
    BY <2>2 DEF Process, Answer, Swallow, Take, Announcement, rx
  <2>3. CASE packet.id = "Input"
    BY <2>3 DEF Process, Answer, Swallow, Take, Announcement
  <2> QED
    BY <1>1, <2>1, <2>2, <2>3
<1> HIDE DEF packet
<1> SUFFICES ASSUME ~ \E type : Restarted(type)
             PROVE  /\ InQueueOrder' /\ UNCHANGED <<console, view>>
                    /\ \A d \in Transmitters : inputs[d] <= inputs'[d]
  OBVIOUS
<1>3. fifo' = Tail(fifo) /\ UNCHANGED <<console, view, held>>
  BY <1>2 DEF tx
<1>4. inputs \in [Transmitters -> Nat] /\ held \in [Transmitters -> Nat]
  BY DEF Typed
<1>5. ASSUME NEW d \in Transmitters
      PROVE  Climbs(fifo', inputs'[d], held'[d], d) /\ inputs[d] <= inputs'[d]
  <2>1. inputs'[d] = IF From(packet, d) THEN packet.value ELSE inputs[d]
    BY <1>1, <1>2, <1>4 DEF From
  <2>2. Climbs(fifo, inputs[d], held[d], d) /\ inputs[d] \in Nat /\ held[d] \in Nat
    BY <1>4 DEF InQueueOrder
  <2>3. Climbs(Tail(fifo), inputs'[d], held[d], d) /\ inputs[d] <= inputs'[d]
    BY <1>1, <2>1, <2>2, ClimbsTail DEF packet
  <2> QED
    BY <1>3, <2>3
<1>6. InQueueOrder'
  BY <1>5 DEF InQueueOrder, Climbs, From
<1> QED
  BY <1>3, <1>5, <1>6

LEMMA QueueOrderStep ==
    ASSUME Typed, Typed', InQueueOrder, [Next]_vars
    PROVE  InQueueOrder'
<1> USE DEF From
<1>1. /\ inputs \in [Transmitters -> Nat] /\ held \in [Transmitters -> Nat]
      /\ fifo \in Seq(Packets)
  BY DEF Typed
<1>2. CASE UNCHANGED <<fifo, inputs, held>>
  BY <1>2 DEF InQueueOrder, Climbs
<1>3. ASSUME NEW c \in Transmitters, Change(c) PROVE InQueueOrder'
  <2>1. UNCHANGED <<fifo, inputs>> /\ held' = [held EXCEPT ![c] = @ + 1]
    BY <1>3 DEF Change, rx
  <2>2. ASSUME NEW d \in Transmitters PROVE Climbs(fifo', inputs'[d], held'[d], d)
    <3>1. held'[d] \in Nat /\ held[d] <= held'[d]
      BY <1>1, <2>1
    <3>2. Climbs(fifo, inputs[d], held'[d], d)
      BY <1>1, <3>1, ClimbsUp DEF InQueueOrder
    <3> QED
      BY <2>1, <3>2
  <2> QED
    BY <2>2 DEF InQueueOrder, Climbs
<1>4. ASSUME NEW c \in Transmitters, NEW p \in {Input(c), Heartbeat, TypePacket(c)},
             fifo' = Append(fifo, p), UNCHANGED <<inputs, held>>
      PROVE  InQueueOrder'
  <2>1. p \in Packets
    BY SentTyped
  <2>2. ASSUME NEW d \in Transmitters PROVE Climbs(fifo', inputs'[d], held'[d], d)
    <3>1. From(p, d) => p.value = held[d]
      BY <1>4 DEF Input, Heartbeat, TypePacket
    <3>2. Climbs(Append(fifo, p), inputs[d], held[d], d)
      BY <1>1, <2>1, <3>1, ClimbsAppend DEF InQueueOrder
    <3> QED
      BY <1>4, <3>2
  <2> QED
    BY <2>2 DEF InQueueOrder, Climbs
<1>5. ASSUME NEW c \in Transmitters, TxTick(c) \/ TxRestart(c) PROVE InQueueOrder'
  <2>1. /\ UNCHANGED <<inputs, held>>
        /\ \/ fifo' = fifo
           \/ \E p \in {Input(c), Heartbeat, TypePacket(c)} : fifo' = Append(fifo, p)
    BY <1>5 DEF TxTick, TxRestart, Delivered, rx
  <2> QED
    BY <1>2, <1>4, <2>1
<1>6. CASE RxTick \/ RxTickNull \/ GetReport
  BY <1>6, TakenInOrder, RestartedInOrder DEF RxTick, RxTickNull, GetReport
<1>7. CASE RxRestart
  BY <1>7, RestartedInOrder DEF RxRestart
<1>8. CASE RxTickEmpty \/ Polled \/ SetLed \/ UNCHANGED vars
  BY <1>2, <1>8 DEF RxTickEmpty, Polled, SetLed, vars, tx, rx
<1> QED
  BY <1>3, <1>5, <1>6, <1>7, <1>8 DEF Next

\* What is left to show for a step that neither restarts the receiver nor takes the
\* table back.
LEMMA SightOrderMeans ==
    ASSUME NEW known, known = Known',
           last' \in [Transmitters -> Int], view' \in [Transmitters -> Int],
           buffer' \in {Message, known}, endpoint' \in {None, Message, known},
           \A d \in Transmitters :
              view'[d] <= known[d] /\ known[d] <= Report(inputs', console')[d]
    PROVE  InSightOrder'
BY DEF InSightOrder, Known, None, Message, Zeros, Report

LEMMA SightOrderStep ==
    ASSUME Typed, Typed', InQueueOrder, InSightOrder, [Next]_vars
    PROVE  InSightOrder'
<1>1. /\ inputs \in [Transmitters -> Nat] /\ inputs' \in [Transmitters -> Nat]
      /\ view \in [Transmitters -> Int] /\ last \in [Transmitters -> Int]
      /\ Known \in [Transmitters -> Int]
      /\ buffer \in {Message, Known} /\ endpoint \in {None, Message, Known}
      /\ \A d \in Transmitters :
            view[d] <= Known[d] /\ Known[d] <= Report(inputs, console)[d]
  BY DEF Typed, InSightOrder, Known, Zeros
<1>2. ASSUME UNCHANGED last PROVE Known' = Known
  BY <1>2 DEF Known, None, Zeros
<1>3. CASE UNCHANGED rx
  BY <1>3 DEF InSightOrder, rx, Report, Known, None, Message, Zeros
<1>4. CASE RxTick \/ RxTickNull \/ GetReport
  <2>1. CASE \E type : Restarted(type)
    BY <2>1, RestartedInOrder
  <2>2. /\ UNCHANGED <<console, view>>
        /\ \A d \in Transmitters : inputs[d] <= inputs'[d]
        \/ \E type : Restarted(type)
    BY <1>4, TakenInOrder DEF RxTick, RxTickNull, GetReport
  <2>3. \/ \E type : Restarted(type)
        \/ UNCHANGED rx
        \/ UNCHANGED <<last, buffer, endpoint>>
        \/ UNCHANGED last /\ buffer' = Message /\ endpoint' = Message
        \/ Compare(Report(inputs', console))
    <3>1. ASSUME Announcement(Head(fifo))
          PROVE  (\E type : Restarted(type)) \/ UNCHANGED rx
      BY <3>1 DEF Announcement, SetConsoleType
    <3> HIDE DEF rx, Announcement, Compare
    <3> QED
      BY <1>4, <3>1, Zenon DEF RxTick, Process, RxTickNull, GetReport, Answer, Swallow
  <2> SUFFICES ASSUME UNCHANGED <<console, view>>,
                      \A d \in Transmitters : inputs[d] <= inputs'[d]
               PROVE  InSightOrder'
    BY <2>1, <2>2
  <2>4. /\ Report(inputs', console) \in [Transmitters -> Nat]
        /\ \A d \in Transmitters : Report(inputs, console)[d] <= Report(inputs', console)[d]
        /\ Report(inputs, console) \in [Transmitters -> Nat]
    BY <1>1, ReportClimbs
  <2> DEFINE report == Report(inputs', console)
  <2>5. report = Report(inputs', console')
    OBVIOUS
  <2>6. \A d \in Transmitters :
          /\ view[d] <= Known[d] /\ Known[d] <= report[d]
          /\ view[d] <= report[d]
    <3> HIDE DEF Known
    <3> QED
      BY <1>1, <2>4
  <2> HIDE DEF report
  <2>7. ASSUME UNCHANGED last,
               buffer' \in {buffer, Message}, endpoint' \in {endpoint, Message}
        PROVE  InSightOrder'
    <3>1. Known' = Known
      BY <1>2, <2>7
    <3>2. /\ buffer' \in {Message, Known} /\ endpoint' \in {None, Message, Known}
          /\ last' \in [Transmitters -> Int] /\ view' \in [Transmitters -> Int]
      BY <1>1, <2>7
    <3>3. \A d \in Transmitters :
            view'[d] <= Known[d] /\ Known[d] <= Report(inputs', console')[d]
      BY <2>5, <2>6
    <3> HIDE DEF Known
    <3> QED
      BY <3>1, <3>2, <3>3, SightOrderMeans
  <2>8. CASE Compare(report)
    <3>1. /\ last' = report /\ buffer' = report /\ endpoint' \in {None, report}
          /\ report \in [Transmitters -> Nat]
      BY <2>4, <2>8 DEF Compare, report
    <3>2. report # None
      BY <1>1, ReportIsOne DEF report
    <3>3. Known' = report
      BY <3>1, <3>2 DEF Known, None, Zeros
    <3>4. \A d \in Transmitters : view'[d] <= report[d] /\ report[d] <= report[d]
      BY <2>6, <3>1
    <3>5. last' \in [Transmitters -> Int] /\ view' \in [Transmitters -> Int]
      BY <1>1, <3>1
    <3> QED
      BY <2>5, <3>1, <3>3, <3>4, <3>5, SightOrderMeans
  <2> QED
    BY <1>3, <2>1, <2>3, <2>7, <2>8 DEF report
<1>5. CASE RxTickEmpty \/ Polled
  <2>1. /\ UNCHANGED <<inputs, console, last, buffer>>
        /\ endpoint' \in {None, buffer} /\ view' \in {view, Known}
    BY <1>1, <1>5 DEF RxTickEmpty, Polled
  <2>2. Known' = Known
    BY <1>2, <2>1
  <2>3. \A d \in Transmitters : Known[d] <= Known[d]
    BY <1>1
  <2>4. \A d \in Transmitters :
          view'[d] <= Known[d] /\ Known[d] <= Report(inputs', console')[d]
    BY <1>1, <2>1, <2>3
  <2>5. /\ buffer' \in {Message, Known} /\ endpoint' \in {None, Message, Known}
        /\ last' \in [Transmitters -> Int] /\ view' \in [Transmitters -> Int]
    BY <1>1, <2>1
  <2> HIDE DEF Known
  <2> QED
    BY <2>2, <2>4, <2>5, SightOrderMeans
<1>6. CASE RxRestart
  BY <1>6, RestartedInOrder DEF RxRestart
<1>7. CASE \/ \E d \in Transmitters : Change(d) \/ TxTick(d) \/ TxRestart(d)
           \/ SetLed \/ UNCHANGED vars
  <2>1. UNCHANGED rx
    BY <1>7 DEF Change, TxTick, TxRestart, SetLed, vars, rx
  <2> QED
    BY <1>3, <2>1
<1> QED
  BY <1>4, <1>5, <1>6, <1>7 DEF Next

\* What a console sees of a player only goes forward, through every loss, every restart
\* of a transmitter and every reader of the radio, until the receiver itself restarts.
THEOREM ReportsGoForward == Spec => NeverGoesBack
<1> DEFINE Forward == view' = None \/ \A d \in Transmitters : view[d] <= view'[d]
           Order == InQueueOrder /\ InSightOrder
<1>1. Init => Order
  <2> SUFFICES ASSUME Init PROVE Order
    OBVIOUS
  <2>1. ASSUME NEW d \in Transmitters PROVE Climbs(fifo, inputs[d], held[d], d)
    BY DEF Init, Climbs
  <2>2. ASSUME NEW d \in Transmitters
        PROVE  view[d] <= Known[d] /\ Known[d] <= Report(inputs, console)[d]
    <3>1. Known = Zeros /\ view = None /\ inputs[d] = 0
      BY DEF Init, Known
    <3> QED
      BY <3>1 DEF None, Zeros, Report
  <2>3. view = None /\ last = None /\ endpoint = None /\ None \in [Transmitters -> Int]
    BY DEF Init, None
  <2>4. buffer \in {Message, Known}
    BY DEF Init, Fresh, Known
  <2> QED
    BY <2>1, <2>2, <2>3, <2>4 DEF InQueueOrder, InSightOrder
<1>2. Typed /\ Typed' /\ Order /\ [Next]_vars => Order'
  BY QueueOrderStep, SightOrderStep
<1>3. Typed /\ Typed' /\ Order /\ [Next]_vars => [Forward]_vars
  <2> SUFFICES ASSUME Typed, Typed', Order, [Next]_vars PROVE Forward
    OBVIOUS
  <2>1. /\ view \in [Transmitters -> Int]
        /\ \A d \in Transmitters : view[d] <= Known[d]
    BY DEF InSightOrder
  <2>2. \/ view' = view \/ view' = None \/ view' = Known
    <3>1. CASE RxTick \/ RxTickNull \/ GetReport
      BY <3>1, TakenInOrder DEF RxTick, RxTickNull, GetReport, Restarted
    <3>2. CASE Polled
      BY <3>2 DEF Polled, InSightOrder
    <3>3. CASE ~ (RxTick \/ RxTickNull \/ GetReport \/ Polled)
      BY <3>3 DEF Next, Change, TxTick, TxRestart, RxTickEmpty, RxRestart, Restarted, SetLed,
                  vars, tx, rx
    <3> QED
      BY <3>1, <3>2, <3>3
  <2> QED
    BY <2>1, <2>2
<1> QED
  BY <1>1, <1>2, <1>3, TypesCorrect, PTL DEF Spec, NeverGoesBack

-----------------------------------------------------------------------------
(* From the players to the console.                                         *)

\* Every player's report was written and taken out of the radio, and the last packet
\* with one was taken for a report: not by a keystroke of an Xbox One, a GET_REPORT or a
\* tick without a buffer.
AllTaken ==
    /\ \A d \in Transmitters : ~ lost[d] /\ Waiting(d) = {} /\ lastRf[d] = held[d]
    /\ ~ behind

\* When nothing is under way the console shows, or is about to be given, exactly what
\* the players hold: the radio's half (NewestArrives) and the receiver's (HostKnows)
\* leave no gap between them.
THEOREM PlayersAreShown == Spec => [](AllTaken => Shown = Report(held, console))
<1>1. Typed /\ NewestArrives /\ HostKnows =>
        (AllTaken => Shown = Report(held, console))
  <2> SUFFICES ASSUME Typed, NewestArrives, HostKnows, AllTaken
               PROVE  Shown = Report(held, console)
    OBVIOUS
  <2>1. ASSUME NEW d \in Transmitters PROVE inputs[d] = held[d]
    BY DEF AllTaken, NewestArrives
  <2>2. inputs = held
    BY <2>1 DEF Typed
  <2>3. last = Report(inputs, console)
    BY DEF HostKnows, AllTaken
  <2>4. last # None
    BY <2>3, ReportIsOne DEF Typed
  <2> QED
    BY <2>2, <2>3, <2>4 DEF HostKnows
<1> QED
  BY <1>1, TypesCorrect, NewestIsNotOvertaken, ConsoleKnows, PTL

-----------------------------------------------------------------------------
(* The tables of the conversions (ReportMerge).                             *)

\* A button that is copied to its own name.
LEMMA SameMeans ==
  ASSUME NEW S, NEW b, NEW c
  PROVE  /\ <<c, b>> \in Same(S) <=> c = b /\ b \in S
         /\ (\E d : <<d, b>> \in Same(S)) <=> b \in S
         /\ (\E d : <<b, d>> \in Same(S)) <=> b \in S
BY DEF Same

\* What convert_ps3_to_type copies to where, in the build of this call.
Pairs == Ors(build.device, build.console) \cup Assigned(build.device, build.console)

\* What is copied keeps its name or gets that of its twin; what is assigned is what
\* counts for the last transmitter only; and what both reports name is copied, what
\* NotCarried lists excepted.
LEMMA PairsMean ==
  ASSUME build.source = "rf", build.device \in Devices,
         build.console \in Consoles(build.device),
         ~ Universal(build.device, build.console),
         NEW b, NEW c
  PROVE  /\ <<c, b>> \in Pairs => b = c \/ {b, c} \in Twins
         /\ LastOnly(b) <=> \E d : <<d, b>> \in Assigned(build.device, build.console)
         /\ LastOnly(b) => b \notin Hat
         /\ /\ b \in Buttons(build.device, build.console) \ Hat
            /\ b \in Ps3Buttons(build.device) /\ ~ NotCarried(b)
            => <<b, b>> \in Pairs
<1> DEFINE device == build.device
           target == build.console
<1>1. CASE device = "gamepad"
  <2>1. target \in {"xbox360", "xboxone", "ps3", "ps4"}
    BY <1>1 DEF Consoles, Universal
  <2>2. /\ Ors(device, target) = GamepadOrs(target)
        /\ Assigned(device, target) = {}
        /\ ~ LastOnly(b)
    BY <1>1 DEF Ors, Assigned, LastOnly
  <2>3. <<c, b>> \in Pairs => c = b
    BY <2>2, SameMeans DEF Pairs, GamepadOrs
  <2>4. ASSUME b \in Buttons(device, target) \ Hat, b \in Ps3Buttons(device)
        PROVE  <<b, b>> \in Pairs
    <3>1. CASE target = "xbox360"
      BY <1>1, <2>2, <2>4, <3>1, SameMeans
      DEF Pairs, GamepadOrs, Buttons, Xbox360Buttons, Ps3Buttons, Ps3Gamepad, Shoulders, Face, Clicks
    <3>2. CASE target = "ps4"
      BY <1>1, <2>2, <2>4, <3>2, SameMeans
      DEF Pairs, GamepadOrs, Buttons, Ps4Buttons, Ps3Buttons, Ps3Gamepad, Shoulders, Face, Clicks
    <3>3. CASE target = "xboxone"
      BY <1>1, <2>2, <2>4, <3>3, SameMeans
      DEF Pairs, GamepadOrs, Buttons, XboxOneButtons, Ps3Buttons, Ps3Gamepad, Shoulders, Face, Clicks
    <3>4. CASE target = "ps3"
      BY <1>1, <2>2, <2>4, <3>4, SameMeans
      DEF Pairs, GamepadOrs, Buttons, Ps3Buttons, Ps3Gamepad, Shoulders, Face, Clicks
    <3> QED
      BY <2>1, <3>1, <3>2, <3>3, <3>4
  <2> QED
    BY <1>1, <2>2, <2>3, <2>4
<1>2. CASE device \in {"gh_guitar", "gh_drums"}
  <2>1. target = "xbox360"
    BY <1>2 DEF Consoles, Universal
  <2>2. /\ Ors(device, target) = Same(Face)
        /\ Assigned(device, target) = {}
        /\ ~ LastOnly(b)
    BY <1>2, <2>1 DEF Ors, Assigned, LastOnly, GhGuitarOrs, GhDrumsOrs, Universal
  <2>3. <<c, b>> \in Pairs => c = b
    BY <2>2, SameMeans DEF Pairs
  <2>4. ASSUME b \in Buttons(device, target) \ Hat, b \in Ps3Buttons(device), ~ NotCarried(b)
        PROVE  <<b, b>> \in Pairs
    <3>1. b \in Face
      BY <1>2, <2>1, <2>4 
      DEF Buttons, Xbox360Buttons, Ps3Buttons, Ps3GhGuitar, Ps3GhDrums, Shoulders, NotCarried
    <3> QED
      BY <2>2, <3>1, SameMeans DEF Pairs
  <2> QED
    BY <1>2, <2>2, <2>3, <2>4
<1>3. CASE device = "rb_guitar"
  <2>1. target \in {"xbox360", "xboxone"}
    BY <1>3 DEF Consoles, Universal
  <2>2. /\ Ors(device, target) = RbGuitarOrs(target)
        /\ Assigned(device, target) = {}
        /\ ~ LastOnly(b)
    BY <1>3, <2>1 DEF Ors, Assigned, LastOnly, Universal
  <2>3. <<c, b>> \in Pairs => c = b
    BY <2>2, SameMeans DEF Pairs, RbGuitarOrs
  <2>4. ASSUME b \in Buttons(device, target) \ Hat, b \in Ps3Buttons(device), ~ NotCarried(b)
        PROVE  <<b, b>> \in Pairs
    <3>1. b \in Face \/ (b = "leftShoulder" /\ target = "xboxone")
      BY <1>3, <2>1, <2>4 
      DEF Buttons, Xbox360Buttons, XboxOneButtons, Ps3Buttons, Ps3RbGuitar, Face, NotCarried
    <3> QED
      BY <2>2, <3>1, SameMeans DEF Pairs, RbGuitarOrs
  <2> QED
    BY <1>3, <2>2, <2>3, <2>4
<1>4. CASE device = "live"
  <2>1. CASE target = "xbox360"
    <3>1. /\ Ors(device, target) = Same({"back", "start", "guide"}) \cup Same(Frets)
          /\ Assigned(device, target) = {}
          /\ ~ LastOnly(b)
      BY <1>4, <2>1 DEF Ors, Assigned, LastOnly, LiveOrs, Universal
    <3>2. b \in Buttons(device, target) \ Hat /\ ~ NotCarried(b)
          => b \in Frets \cup {"back", "start", "guide"}
      BY <1>4, <2>1 DEF Buttons, Xbox360Buttons, NotCarried
    <3> QED
      BY <3>1, <3>2, SameMeans DEF Pairs
  <2>2. CASE target = "xboxone"
    <3>1. /\ Ors(device, target) = Same({"back", "start", "guide"}) \cup
                {<<"black1", "a">>, <<"black2", "b">>, <<"black3", "y">>, <<"white1", "x">>}
          /\ Assigned(device, target) =
                {<<"white2", "leftShoulder">>, <<"white3", "rightShoulder">>}
          /\ LastOnly(b) <=> b \in Shoulders
      BY <1>4, <2>2 DEF Ors, Assigned, LastOnly, LiveOrs, Universal
    <3>2. <<c, b>> \in Pairs => b = c \/ {b, c} \in Twins
      <4>1. <<c, b>> \in Pairs => b = c \/ <<c, b>> \in
              {<<"black1", "a">>, <<"black2", "b">>, <<"black3", "y">>, <<"white1", "x">>,
               <<"white2", "leftShoulder">>, <<"white3", "rightShoulder">>}
        BY <3>1, SameMeans DEF Pairs
      <4> QED
        BY <4>1 DEF Twins
    <3>3. /\ b \in Buttons(device, target) \ Hat /\ b \in Ps3Buttons(device)
          /\ ~ NotCarried(b)
          => b \in {"back", "start", "guide"}
      BY <1>4, <2>2
      DEF Buttons, XboxOneButtons, Ps3Buttons, Ps3Live, Frets, Face, Shoulders, Clicks, NotCarried
    <3>4. LastOnly(b) <=> \E d : <<d, b>> \in Assigned(device, target)
      BY <3>1 DEF Shoulders
    <3>5. LastOnly(b) => b \notin Hat
      BY <3>1 DEF Shoulders, Hat
    <3> QED
      BY <3>1, <3>2, <3>3, <3>4, <3>5, SameMeans DEF Pairs
  <2>3. CASE target = "ps4"
    <3>1. /\ Ors(device, target) = Same({"back", "start", "guide"}) \cup
                Same({"black1", "black2", "black3", "white1", "leftThumbClick"})
          /\ Assigned(device, target) = Same({"white2", "white3"})
          /\ LastOnly(b) <=> b \in {"white2", "white3"}
      BY <1>4, <2>3 DEF Ors, Assigned, LastOnly, LiveOrs, Universal
    <3>2. b \in Buttons(device, target) \ Hat /\ ~ NotCarried(b)
          => b \in Frets \cup {"back", "start", "guide", "leftThumbClick"}
      BY <1>4, <2>3 DEF Buttons, Ps4Buttons, NotCarried
    <3>3. LastOnly(b) <=> \E d : <<d, b>> \in Assigned(device, target)
      <4>1. (\E d : <<d, b>> \in Same({"white2", "white3"})) <=> b \in {"white2", "white3"}
        BY SameMeans
      <4> QED
        BY <3>1, <4>1
    <3>4. LastOnly(b) => b \notin Hat
      BY <3>1 DEF Hat
    <3>5. <<c, b>> \in Pairs => c = b
      BY <3>1, SameMeans DEF Pairs
    <3>6. b \in Frets \cup {"back", "start", "guide", "leftThumbClick"} => <<b, b>> \in Pairs
      BY <3>1, SameMeans DEF Pairs, Frets
    <3> QED
      BY <3>2, <3>3, <3>4, <3>5, <3>6
  <2> QED
    BY <1>4, <2>1, <2>2, <2>3 DEF Consoles, Universal
<1>5. CASE device = "rb_drums"
  <2>1. CASE target = "xbox360"
    <3>1. /\ Ors(device, target) = Same(Face)
          /\ Assigned(device, target) = Same({"padFlag", "cymbalFlag"})
          /\ LastOnly(b) <=> b \in {"padFlag", "cymbalFlag"}
      BY <1>5, <2>1 DEF Ors, Assigned, LastOnly, RbDrumsOrs, RbGuitarOrs, Universal
    <3>2. /\ b \in Buttons(device, target) \ Hat /\ b \in Ps3Buttons(device)
          /\ ~ NotCarried(b)
          => b \in Face \cup {"padFlag", "cymbalFlag"}
      BY <1>5, <2>1
      DEF Buttons, Xbox360Buttons, Ps3Buttons, Ps3RbDrums, Shoulders, NotCarried
    <3>3. LastOnly(b) <=> \E d : <<d, b>> \in Assigned(device, target)
      <4>1. (\E d : <<d, b>> \in Same({"padFlag", "cymbalFlag"})) <=> b \in {"padFlag", "cymbalFlag"}
        BY SameMeans
      <4> QED
        BY <3>1, <4>1
    <3>4. LastOnly(b) => b \notin Hat
      BY <3>1 DEF Hat
    <3>5. <<c, b>> \in Pairs => c = b
      BY <3>1, SameMeans DEF Pairs
    <3>6. b \in Face \cup {"padFlag", "cymbalFlag"} => <<b, b>> \in Pairs
      BY <3>1, SameMeans DEF Pairs
    <3> QED
      BY <3>2, <3>3, <3>4, <3>5, <3>6
  <2>2. CASE target = "xboxone"
    <3>1. /\ Ors(device, target) = Same(Face \cup {"leftShoulder"})
          /\ Assigned(device, target) = {}
          /\ ~ LastOnly(b)
      BY <1>5, <2>2 DEF Ors, Assigned, LastOnly, RbDrumsOrs, RbGuitarOrs, Universal
    <3>2. b \in Buttons(device, target) \ Hat /\ ~ NotCarried(b)
          => b \in Face \cup {"leftShoulder"}
      BY <1>5, <2>2 DEF Buttons, XboxOneButtons, Shoulders, NotCarried
    <3> QED
      BY <3>1, <3>2, SameMeans DEF Pairs
  <2> QED
    BY <1>5, <2>1, <2>2 DEF Consoles, Universal
<1>6. CASE device = "turntable"
  <2>1. target = "xbox360"
    BY <1>6 DEF Consoles, Universal
  <2>2. /\ Ors(device, target) = TurntableOrs
        /\ Assigned(device, target) = {}
        /\ ~ LastOnly(b)
    BY <1>6, <2>1 DEF Ors, Assigned, LastOnly, Universal
  <2>3. <<c, b>> \in Pairs => c = b
    BY <2>2, SameMeans DEF Pairs, TurntableOrs
  <2>4. ASSUME b \in Buttons(device, target) \ Hat, b \in Ps3Buttons(device), ~ NotCarried(b)
        PROVE  <<b, b>> \in Pairs
    <3>1. b \in (Face \ {"guide"}) \cup LeftTable \cup RightTable
      BY <1>6, <2>1, <2>4
      DEF Buttons, Xbox360Buttons, Face, LeftTable, RightTable, NotCarried
    <3> QED
      BY <2>2, <3>1, SameMeans DEF Pairs, TurntableOrs
  <2> QED
    BY <1>6, <2>2, <2>3, <2>4
<1> QED
  BY <1>1, <1>2, <1>3, <1>4, <1>5, <1>6 DEF Devices

\* What usb_host.h copies to where, for one device in the host port.
HostPairs(i) == HostButtons(build.device, hosts[i], build.console, reports[i])

\* The tables hold pairs.
LEMMA SamePairs ==
  ASSUME NEW S, NEW p \in Same(S)
  PROVE  p = <<p[1], p[2]>>
BY DEF Same

LEMMA HostPairsArePairs ==
  ASSUME NEW device \in Devices \ {"rb_drums"}, NEW host, NEW target, NEW r,
         NEW p \in HostButtons(device, host, target, r)
  PROVE  p = <<p[1], p[2]>>
<1>1. CASE device = "gamepad"
  BY <1>1, SamePairs DEF HostButtons, GamepadButtons
<1>2. CASE device = "gh_drums"
  BY <1>2, SamePairs DEF HostButtons, DrumButtons
<1>3. CASE device = "turntable"
  BY <1>3, SamePairs DEF HostButtons, TurntableButtons
<1>4. CASE device = "live"
  <2>1. p \in LiveButtons(host)
    BY <1>4 DEF HostButtons
  <2> QED
    BY <2>1, SamePairs DEF LiveButtons
<1>5. CASE device \in {"gh_guitar", "rb_guitar"}
  <2>1. p \in GuitarButtons(device, host, target, r)
    BY <1>5 DEF HostButtons
  <2> QED
    BY <2>1, SamePairs DEF GuitarButtons, Crossed, NeckFrets
<1> QED
  BY <1>1, <1>2, <1>3, <1>4, <1>5 DEF Devices

\* The same of usb_host.h; the directions of the hat are copied to themselves and
\* nowhere else.
LEMMA HostPairsMean ==
  ASSUME build \in Builds, build.source = "usb",
         NEW i, hosts[i] \in Hosts(build.device),
         reports[i].held \subseteq Read(build.device, hosts[i], build.console),
         NEW b, NEW c
  PROVE  /\ <<c, b>> \in HostPairs(i) => b = c \/ {b, c} \in Twins
         /\ <<c, b>> \in HostPairs(i) /\ c \in Hat => b = c
         /\ b \in Hat => <<b, b>> \in HostPairs(i)
         /\ b \in Buttons(build.device, build.console) /\ b \in reports[i].held
            => <<b, b>> \in HostPairs(i)
<1> DEFINE device == build.device
           target == build.console
           host == hosts[i]
<1>0. /\ device \in Devices \ {"rb_drums"} /\ target \in Consoles(device)
      /\ target # "universal" /\ (device = "live" => target # "xboxone")
  BY MergeAssumption DEF Builds
<1>r. b \in reports[i].held =>
      \/ \E d : <<b, d>> \in HostButtons(device, host, target, PadReport({}, <<>>))
      \/ \E d : <<b, d>> \in HostButtons(device, host, target, PadReport({"solo"}, <<>>))
  <2>1. SUFFICES ASSUME b \in Read(device, host, target)
                 PROVE  \/ \E d : <<b, d>> \in HostButtons(device, host, target, PadReport({}, <<>>))
                        \/ \E d : <<b, d>> \in HostButtons(device, host, target, PadReport({"solo"}, <<>>))
    OBVIOUS
  <2>2. PICK p \in HostButtons(device, host, target, PadReport({}, <<>>))
                   \cup HostButtons(device, host, target, PadReport({"solo"}, <<>>)) : b = p[1]
    BY <2>1 DEF Read
  <2>3. p = <<p[1], p[2]>>
    BY <1>0, <2>2, HostPairsArePairs
  <2> QED
    BY <2>2, <2>3
<1>1. CASE device = "gamepad"
  <2>1. \A r : HostButtons(device, host, target, r) = GamepadButtons(host, target)
    BY <1>1 DEF HostButtons
  <2>2. <<c, b>> \in HostPairs(i) => c = b
    BY <2>1, SameMeans DEF HostPairs, GamepadButtons
  <2>3. b \in Hat => <<b, b>> \in HostPairs(i)
    BY <2>1, SameMeans DEF HostPairs, GamepadButtons, Plain
  <2>4. b \in reports[i].held => \E d : <<b, d>> \in GamepadButtons(host, target)
    BY <1>r, <2>1
  <2>5. b \in reports[i].held => <<b, b>> \in HostPairs(i)
    <3> DEFINE all == Plain \cup Shoulders \cup Clicks
                      \cup IF {host.console, target} \subseteq {"ps3", "ps4"}
                           THEN {"l2", "r2"} ELSE {}
    <3>1. GamepadButtons(host, target) = Same(all) /\ HostPairs(i) = Same(all)
      BY <2>1 DEF HostPairs, GamepadButtons
    <3> HIDE DEF all
    <3>2. (\E d : <<b, d>> \in Same(all)) <=> b \in all
      BY SameMeans
    <3>3. <<b, b>> \in Same(all) <=> b \in all
      BY SameMeans
    <3> QED
      BY <2>4, <3>1, <3>2, <3>3
  <2> QED
    BY <2>2, <2>3, <2>5
<1>2. CASE device = "gh_drums"
  <2>1. \A r : HostButtons(device, host, target, r) = Same(Plain \cup {"leftShoulder"})
    BY <1>2 DEF HostButtons, DrumButtons
  <2>2. b \in reports[i].held => \E d : <<b, d>> \in Same(Plain \cup {"leftShoulder"})
    BY <1>r, <2>1
  <2>3. b \in reports[i].held => b \in Plain \cup {"leftShoulder"}
    BY <2>2, SameMeans
  <2>4. HostPairs(i) = Same(Plain \cup {"leftShoulder"})
    BY <2>1 DEF HostPairs
  <2> QED
    BY <2>3, <2>4, SameMeans DEF Plain
<1>3. CASE device = "turntable"
  <2>1. \A r : HostButtons(device, host, target, r) = TurntableButtons(host)
    BY <1>3 DEF HostButtons
  <2>2. CASE TurntableButtons(host) = Same(Plain) \cup Same(LeftTable \cup RightTable)
    <3>1. b \in reports[i].held => b \in Plain \cup LeftTable \cup RightTable
      <4>1. b \in reports[i].held =>
              \E d : <<b, d>> \in Same(Plain) \cup Same(LeftTable \cup RightTable)
        BY <1>r, <2>1, <2>2
      <4>2. /\ (\E d : <<b, d>> \in Same(Plain)) => b \in Plain
            /\ (\E d : <<b, d>> \in Same(LeftTable \cup RightTable))
               => b \in LeftTable \cup RightTable
        BY SameMeans
      <4> QED
        BY <4>1, <4>2
    <3>2. <<c, b>> \in HostPairs(i) <=> c = b /\ b \in Plain \cup LeftTable \cup RightTable
      BY <2>1, <2>2, SameMeans DEF HostPairs
    <3>3. <<b, b>> \in HostPairs(i) <=> b \in Plain \cup LeftTable \cup RightTable
      BY <2>1, <2>2, SameMeans DEF HostPairs
    <3> QED
      BY <3>1, <3>2, <3>3 DEF Plain
  <2>3. CASE TurntableButtons(host) = Same(Plain) \cup
               {<<"x", "leftBlue">>, <<"a", "leftGreen">>, <<"b", "leftRed">>,
                <<"x", "rightBlue">>, <<"a", "rightGreen">>, <<"b", "rightRed">>}
    <3>1. b \in reports[i].held => b \in Plain
      <4>1. b \in reports[i].held =>
              \/ \E d : <<b, d>> \in Same(Plain)
              \/ \E d : <<b, d>> \in
                    {<<"x", "leftBlue">>, <<"a", "leftGreen">>, <<"b", "leftRed">>,
                     <<"x", "rightBlue">>, <<"a", "rightGreen">>, <<"b", "rightRed">>}
        BY <1>r, <2>1, <2>3
      <4>2. (\E d : <<b, d>> \in Same(Plain)) => b \in Plain
        BY SameMeans
      <4>3. (\E d : <<b, d>> \in
                    {<<"x", "leftBlue">>, <<"a", "leftGreen">>, <<"b", "leftRed">>,
                     <<"x", "rightBlue">>, <<"a", "rightGreen">>, <<"b", "rightRed">>})
            => b \in Plain
        BY DEF Plain, Face
      <4> QED
        BY <4>1, <4>2, <4>3
    <3>2. <<c, b>> \in HostPairs(i) =>
            \/ c = b
            \/ <<c, b>> \in {<<"x", "leftBlue">>, <<"a", "leftGreen">>, <<"b", "leftRed">>,
                <<"x", "rightBlue">>, <<"a", "rightGreen">>, <<"b", "rightRed">>}
      BY <2>1, <2>3, SameMeans DEF HostPairs
    <3>3. b \in Plain => <<b, b>> \in HostPairs(i)
      BY <2>1, <2>3, SameMeans DEF HostPairs
    <3>4. <<c, b>> \in {<<"x", "leftBlue">>, <<"a", "leftGreen">>, <<"b", "leftRed">>,
                <<"x", "rightBlue">>, <<"a", "rightGreen">>, <<"b", "rightRed">>}
          => {b, c} \in Twins /\ c \notin Hat
      BY DEF Twins, Hat
    <3> QED
      BY <3>1, <3>2, <3>3, <3>4 DEF Plain
  <2> QED
    BY <2>2, <2>3 DEF TurntableButtons
<1>4. CASE device = "live"
  <2> DEFINE shared == Hat \cup {"start", "leftThumbClick", "guide"}
             pad == {<<"x", "white1">>, <<"a", "black1">>, <<"b", "black2">>,
                     <<"y", "black3">>, <<"leftShoulder", "white2">>}
             extra == IF host.console = "ps3" /\ host.kind = "gamepad"
                      THEN {<<"rightShoulder", "back">>}
                      ELSE {<<"rightShoulder", "white3">>, <<"back", "back">>}
  <2>1. \A r : HostButtons(device, host, target, r) = LiveButtons(host)
    BY <1>4 DEF HostButtons
  <2>2. CASE LiveButtons(host) = Same(shared) \cup Same((Frets \ {"white3"}) \cup {"back"})
    <3>1. b \in reports[i].held => b \in shared \cup (Frets \ {"white3"}) \cup {"back"}
      <4>1. b \in reports[i].held =>
              \/ \E d : <<b, d>> \in Same(shared)
              \/ \E d : <<b, d>> \in Same((Frets \ {"white3"}) \cup {"back"})
        BY <1>r, <2>1, <2>2
      <4>2. /\ (\E d : <<b, d>> \in Same(shared)) => b \in shared
            /\ (\E d : <<b, d>> \in Same((Frets \ {"white3"}) \cup {"back"}))
               => b \in (Frets \ {"white3"}) \cup {"back"}
        BY SameMeans
      <4> QED
        BY <4>1, <4>2
    <3>2. <<c, b>> \in HostPairs(i) => c = b
      BY <2>1, <2>2, SameMeans DEF HostPairs
    <3>3. b \in shared \cup (Frets \ {"white3"}) \cup {"back"} => <<b, b>> \in HostPairs(i)
      BY <2>1, <2>2, SameMeans DEF HostPairs
    <3> QED
      BY <3>1, <3>2, <3>3
  <2>3. CASE LiveButtons(host) = Same(shared) \cup (pad \cup extra)
    <3>1. <<c, b>> \in pad \cup extra => b = c \/ {b, c} \in Twins
      BY DEF Twins
    <3>2. <<c, b>> \in pad \cup extra => c \notin Hat
      BY DEF Hat
    <3>3. /\ b \in Buttons(device, target)
          /\ \E d : <<b, d>> \in pad \cup extra
          => b = "back" /\ <<"back", "back">> \in extra
      <4>1. Buttons(device, target) =
              Hat \cup Frets \cup {"back", "start", "leftThumbClick", "guide"}
              \cup IF target = "xbox360" THEN {} ELSE {"capture"}
        BY <1>0, <1>4 DEF Builds, Consoles, Buttons, Ps3Buttons, Ps3Live, Xbox360Buttons, Ps4Buttons
      <4> QED
        BY <4>1 DEF Hat, Frets
    <3>4. b \in reports[i].held => b \in shared \/ \E d : <<b, d>> \in pad \cup extra
      <4> HIDE DEF pad, extra, shared
      <4>1. b \in reports[i].held =>
              \/ \E d : <<b, d>> \in Same(shared)
              \/ \E d : <<b, d>> \in pad \cup extra
        BY <1>r, <2>1, <2>3
      <4>2. (\E d : <<b, d>> \in Same(shared)) => b \in shared
        BY SameMeans
      <4> QED
        BY <4>1, <4>2
    <3>5. /\ <<c, b>> \in HostPairs(i) => c = b \/ <<c, b>> \in pad \cup extra
          /\ b \in shared => <<b, b>> \in HostPairs(i)
          /\ extra \subseteq HostPairs(i)
      BY <2>1, <2>3, SameMeans DEF HostPairs
    <3> HIDE DEF pad, extra
    <3> QED
      BY <3>1, <3>2, <3>3, <3>4, <3>5
  <2> QED
    BY <2>2, <2>3 DEF LiveButtons
<1>5. CASE device \in {"gh_guitar", "rb_guitar"}
  <2> DEFINE base == Plain \cup {"leftShoulder"}
             solo == {"solo"}
             real == /\ host.kind = "same" /\ host.console \in {"ps3", "xbox360"}
                     /\ device = "rb_guitar" /\ ~ Swaps(device, host)
             neck == device = "rb_guitar" /\ target = "xboxone"
             all == neck /\ host.console = "xboxone"
             others(r) == (IF Swaps(device, host) THEN Crossed ELSE {})
                          \cup (IF real /\ neck THEN NeckFrets("solo" \in r.held) ELSE {})
  <2>1. ASSUME NEW r
        PROVE  HostButtons(device, host, target, r) =
                 Same(base) \cup (IF real THEN Same(solo) ELSE {}) \cup others(r)
                 \cup (IF all THEN Same(AllFrets) ELSE {})
    BY <1>5 DEF HostButtons, GuitarButtons
  <2>2. ASSUME NEW r, NEW d, NEW e, <<d, e>> \in others(r)
        PROVE  {e, d} \in Twins /\ d \in base /\ d \notin Hat
    <3>1. <<d, e>> \in Crossed \cup NeckFrets(TRUE) \cup NeckFrets(FALSE)
      BY <2>2 DEF NeckFrets
    <3>2. <<d, e>> \in Crossed => {e, d} \in Twins
      BY DEF Crossed, Twins
    <3>3. <<d, e>> \in NeckFrets(TRUE) \cup NeckFrets(FALSE) => {e, d} \in Twins
      <4>1. {<<d, e>>[1], <<d, e>>[2]} = {e, d}
        OBVIOUS
      <4>2. <<d, e>> \in NeckFrets(TRUE) \cup NeckFrets(FALSE) =>
              {e, d} \in {{p[1], p[2]} : p \in NeckFrets(TRUE) \cup NeckFrets(FALSE)}
        BY <4>1, Zenon
      <4> QED
        BY <4>2 DEF Twins
    <3>4. d \in base /\ d \notin Hat
      BY <3>1 DEF Crossed, NeckFrets, Plain, Face, Hat
    <3> QED
      BY <3>1, <3>2, <3>3, <3>4
  <2> HIDE DEF base, solo, real, all, others
  <2>3. ASSUME NEW r, NEW d, NEW e, <<d, e>> \in HostButtons(device, host, target, r)
        PROVE  \/ d = e /\ (d \in base \/ (real /\ d \in solo) \/ (all /\ d \in AllFrets))
               \/ <<d, e>> \in others(r)
    BY <2>1, <2>3, SameMeans
  <2>4. b \in base \/ (real /\ b \in solo) \/ (all /\ b \in AllFrets) => <<b, b>> \in HostPairs(i)
    BY <2>1, SameMeans DEF HostPairs
  <2>5. b \in reports[i].held => b \in base \/ (real /\ b \in solo) \/ (all /\ b \in AllFrets)
    BY <1>r, <2>2, <2>3
  <2>6. <<c, b>> \in HostPairs(i) => c = b \/ ({b, c} \in Twins /\ c \notin Hat)
    BY <2>2, <2>3 DEF HostPairs
  <2>7. Hat \subseteq base
    BY DEF base, Plain
  <2> QED
    BY <2>4, <2>5, <2>6, <2>7
<1> QED
  BY <1>0, <1>1, <1>2, <1>3, <1>4, <1>5 DEF Devices

-----------------------------------------------------------------------------
(* One controller.                                                          *)

\* The fields that pairs lead to.
LEMMA Seconds ==
  ASSUME NEW S, \A p \in S : p = <<p[1], p[2]>>, NEW b
  PROVE  b \in {p[2] : p \in S} <=> \E d : <<d, b>> \in S
OBVIOUS

LEMMA PairsArePairs ==
  ASSUME NEW device \in Devices, NEW target \in Consoles(device), ~ Universal(device, target)
  PROVE  /\ \A p \in Ors(device, target) : p = <<p[1], p[2]>>
         /\ \A p \in Assigned(device, target) : p = <<p[1], p[2]>>
<1>1. \A S : \A p \in Same(S) : p = <<p[1], p[2]>>
  BY SamePairs
<1>2. \A p \in Assigned(device, target) : p = <<p[1], p[2]>>
  BY <1>1 DEF Assigned
<1>3. CASE device = "gamepad"
  BY <1>1, <1>2, <1>3 DEF Ors, GamepadOrs
<1>4. CASE device \in {"gh_guitar", "gh_drums", "rb_guitar", "rb_drums"}
  BY <1>1, <1>2, <1>4 DEF Ors, GhGuitarOrs, GhDrumsOrs, RbGuitarOrs, RbDrumsOrs
<1>5. CASE device = "turntable"
  BY <1>1, <1>2, <1>5 DEF Ors, TurntableOrs
<1>6. CASE device = "live"
  <2>1. target \in {"xbox360", "xboxone", "ps4"}
    BY <1>6 DEF Consoles, Universal
  <2>2. \A p \in LiveOrs(target) : p = <<p[1], p[2]>>
    BY <1>1, <2>1 DEF LiveOrs
  <2> QED
    BY <1>2, <1>6, <2>2 DEF Ors
<1> QED
  BY <1>3, <1>4, <1>5, <1>6 DEF Devices

\* The hat's code, read as directions; 8 gives what lies past the table.
LEMMA HatMeans ==
  ASSUME NEW h \in 0..8, NEW beyond
  PROVE  HatButtons(h, beyond) = Directions(h) \cup IF h = 8 THEN beyond ELSE {}
<1>1. CASE h = 8
  BY <1>1 DEF HatButtons, Directions
<1>2. CASE h # 8
  <2>1. h \in {0, 1, 2, 3, 4, 5, 6, 7}
    BY <1>2
  <2>2. /\ h = 0 => HatButtons(h, beyond) = {"dpadUp"}
        /\ h = 1 => HatButtons(h, beyond) = {"dpadUp", "dpadRight"}
        /\ h = 2 => HatButtons(h, beyond) = {"dpadRight"}
        /\ h = 3 => HatButtons(h, beyond) = {"dpadDown", "dpadRight"}
        /\ h = 4 => HatButtons(h, beyond) = {"dpadDown"}
        /\ h = 5 => HatButtons(h, beyond) = {"dpadDown", "dpadLeft"}
        /\ h = 6 => HatButtons(h, beyond) = {"dpadLeft"}
        /\ h = 7 => HatButtons(h, beyond) = {"dpadUp", "dpadLeft"}
    BY DEF HatButtons
  <2>3. /\ h = 0 => Directions(h) = {"dpadUp"}
        /\ h = 1 => Directions(h) = {"dpadUp", "dpadRight"}
        /\ h = 2 => Directions(h) = {"dpadRight"}
        /\ h = 3 => Directions(h) = {"dpadDown", "dpadRight"}
        /\ h = 4 => Directions(h) = {"dpadDown"}
        /\ h = 5 => Directions(h) = {"dpadDown", "dpadLeft"}
        /\ h = 6 => Directions(h) = {"dpadLeft"}
        /\ h = 7 => Directions(h) = {"dpadUp", "dpadLeft"}
    BY DEF Directions
  <2> QED
    BY <1>2, <2>1, <2>2, <2>3
<1> QED
  BY <1>1, <1>2

\* What controller i holds accounts for b in the report.
Carries(b, i) ==
  \/ \E c \in Held(i) : b = c \/ {b, c} \in Twins
  \/ Misread(i) /\ b \in stray

\* A controller's report is any its kind can send, whatever buttons are held.
Plausible(i) ==
  IF build.source = "rf"
  THEN reports[i].held \subseteq Ps3Buttons(build.device) /\ reports[i].hat \in 0..8
  ELSE /\ hosts[i] \in Hosts(build.device)
       /\ reports[i].held \subseteq Read(build.device, hosts[i], build.console)

\* A receiver's second block makes its build a universal one.
Rebuilt ==
  /\ build.source = "rf" /\ build.device \in Devices /\ build.console = "universal"

\* One turn of the receiver's loop, for one button.
LEMMA TransmitterAdded ==
  ASSUME build \in Builds \/ Rebuilt, build.source = "rf", Plausible(next),
         NEW after,
         after = ConvertPs3(out, reports[next], build.device, build.console, stray),
         NEW b \in Buttons(build.device, build.console)
  PROVE  /\ b \in Held(next) /\ ~ NotCarried(b) => b \in after.held
         /\ b \in after.held => (b \in out.held /\ ~ LastOnly(b)) \/ Carries(b, next)
         /\ b \in out.held /\ ~ LastOnly(b) => b \in after.held
<1> DEFINE r == reports[next]
           hat == HatButtons(r.hat, stray)
<1>1. /\ Held(next) = r.held \cup Directions(r.hat)
      /\ Misread(next) <=> r.hat = 8 /\ ~ Universal(build.device, build.console)
      /\ r.hat \in 0..8 /\ r.held \subseteq Ps3Buttons(build.device)
  BY DEF Held, Misread, Plausible
<1>2. CASE Universal(build.device, build.console)
  <2>1. LastOnly(b)
    BY <1>2 DEF LastOnly
  <2>2. after.held = r.held \cup Directions(r.hat)
    BY <1>1, <1>2, HatMeans DEF ConvertPs3
  <2> QED
    BY <1>1, <2>1, <2>2 DEF Carries
<1>3. CASE ~ Universal(build.device, build.console)
  <2>1. /\ build.device \in Devices /\ build.console \in Consoles(build.device)
    BY <1>3, MergeAssumption DEF Builds, Rebuilt, Universal
  <2> DEFINE gone == {p[2] : p \in Assigned(build.device, build.console)}
             new == Pressed(r, Pairs)
  <2>2. after.held = (out.held \ gone) \cup new \cup hat
    BY <1>3 DEF ConvertPs3, Pairs
  <2>3. b \in gone <=> LastOnly(b)
    <3>1. b \in gone <=> \E d : <<d, b>> \in Assigned(build.device, build.console)
      BY <1>3, <2>1, PairsArePairs, Seconds
    <3> QED
      BY <1>3, <2>1, <3>1, PairsMean
  <2>4. b \in new <=> \E c \in r.held : <<c, b>> \in Pairs
    <3> DEFINE pressed == {q \in Pairs : q[1] \in r.held}
    <3>1. \A p \in Pairs : p = <<p[1], p[2]>>
      BY <1>3, <2>1, PairsArePairs DEF Pairs
    <3>2. b \in {p[2] : p \in pressed} <=> \E d : <<d, b>> \in pressed
      BY <3>1, Seconds
    <3>3. \A d : <<d, b>> \in pressed <=> <<d, b>> \in Pairs /\ d \in r.held
      OBVIOUS
    <3> QED
      BY <3>2, <3>3 DEF Pressed
  <2>5. \A c : <<c, b>> \in Pairs => b = c \/ {b, c} \in Twins
    BY <1>3, <2>1, PairsMean
  <2>6. b \in hat <=> b \in Directions(r.hat) \/ (r.hat = 8 /\ b \in stray)
    BY <1>1, HatMeans
  <2>7. b \in r.held /\ ~ NotCarried(b) /\ b \notin Hat => <<b, b>> \in Pairs
    BY <1>1, <1>3, <2>1, PairsMean
  <2>8. b \notin r.held \/ b \notin Hat
    <3>1. \A d \in Devices : Ps3Buttons(d) \cap Hat = {}
      BY DEF Ps3Buttons, Devices, Hat, Ps3Gamepad, Ps3GhGuitar, Ps3RbGuitar, Ps3Live,
             Ps3GhDrums, Ps3RbDrums, Ps3Turntable, Face, Shoulders, Clicks, Frets,
             LeftTable, RightTable
    <3> QED
      BY <1>1, <2>1, <3>1
  <2> HIDE DEF gone, new, hat
  <2> QED
    BY <1>1, <1>3, <2>2, <2>3, <2>4, <2>5, <2>6, <2>7, <2>8 DEF Carries
<1> QED
  BY <1>2, <1>3

\* One turn of the host port's loop, for one button.
LEMMA HostAdded ==
  ASSUME build \in Builds, build.source = "usb", Plausible(next), stray \subseteq Hat,
         NEW after,
         after = ConvertHost(out, reports[next], build.device, hosts[next], build.console, stray),
         NEW b \in Buttons(build.device, build.console)
  PROVE  /\ b \in Held(next) => b \in after.held
         /\ b \in after.held => b \in out.held \/ Carries(b, next)
         /\ b \in out.held => b \in after.held
<1> DEFINE r == reports[next]
           host == hosts[next]
           from == HostHeld(host, r, stray)
<1>1. /\ build.device \in Devices \ {"rb_drums"}
      /\ host \in Hosts(build.device)
      /\ r.held \subseteq Read(build.device, host, build.console)
  BY MergeAssumption DEF Builds, Plausible
<1>2. /\ Held(next) = IF StrayHat(host) THEN r.held \ Hat ELSE r.held
      /\ Misread(next) <=> StrayHat(host)
  BY DEF Held, Misread
<1>3. after.held = out.held \cup {p[2] : p \in {q \in HostPairs(next) : q[1] \in from}}
  BY DEF ConvertHost, HostPairs
<1>4. \A p \in HostPairs(next) : p = <<p[1], p[2]>>
  BY <1>1, HostPairsArePairs DEF HostPairs
<1>5. b \in after.held <=> b \in out.held \/ \E c \in from : <<c, b>> \in HostPairs(next)
  <2> HIDE DEF from
  <2>1. b \in after.held => b \in out.held \/ \E p \in HostPairs(next) : p[1] \in from /\ p[2] = b
    BY <1>3
  <2>2. ASSUME NEW p \in HostPairs(next), p[1] \in from, p[2] = b
        PROVE  \E c \in from : <<c, b>> \in HostPairs(next)
    BY <2>2, <1>4
  <2>3. ASSUME NEW c \in from, <<c, b>> \in HostPairs(next)
        PROVE  b \in after.held
    <3>1. <<c, b>>[1] = c /\ <<c, b>>[2] = b
      OBVIOUS
    <3> QED
      BY <1>3, <2>3, <3>1
  <2>4. b \in out.held => b \in after.held
    BY <1>3
  <2> QED
    BY <2>1, <2>2, <2>3, <2>4
<1>6. \A c : /\ <<c, b>> \in HostPairs(next) => b = c \/ {b, c} \in Twins
             /\ <<c, b>> \in HostPairs(next) /\ c \in Hat => b = c
  BY <1>1, HostPairsMean
<1>7. b \in r.held => <<b, b>> \in HostPairs(next)
  BY <1>1, HostPairsMean
<1>8. from = IF StrayHat(host) THEN (r.held \ Hat) \cup stray ELSE r.held
  BY DEF HostHeld
<1> HIDE DEF from
<1> QED
  BY <1>2, <1>5, <1>6, <1>7, <1>8 DEF Carries

-----------------------------------------------------------------------------
(* All of them.                                                             *)

\* Any call: any number of controllers, with any reports.
AnyCall ==
  /\ build \in Builds
  /\ Len(reports) \in Nat \ {0}
  /\ \A i \in Controllers : Plausible(i)
  /\ stray \subseteq Hat
  /\ out = Blank(build, earlier)
  /\ next = 1

\* The controllers that count for b, of those that have been added.
SoFar(b) == IF LastOnly(b) THEN {next - 1} \ {0} ELSE 1..next - 1

\* MergedButtons, of the controllers added so far.
MergedSoFar ==
  \A b \in Buttons(build.device, build.console) :
    /\ (\E i \in SoFar(b) : b \in Held(i)) /\ ~ NotCarried(b) => b \in out.held
    /\ b \in out.held =>
         (\E i \in SoFar(b) : Carries(b, i)) \/ b \in Blank(build, earlier).held

MergeInv ==
  /\ build \in Builds \/ Rebuilt
  /\ Len(reports) \in Nat \ {0} /\ next \in 1..Len(reports) + 1
  /\ \A i \in Controllers : Plausible(i)
  /\ stray \subseteq Hat
  /\ MergedSoFar

\* A controller is added.
LEMMA MergeStep ==
  ASSUME MergeInv, Step
  PROVE  MergeInv'
<1>1. /\ next \in Controllers /\ next' = next + 1
      /\ UNCHANGED <<build, hosts, reports, stray, earlier>>
  BY DEF MergeInv, Step, Controllers
<1>2. /\ Controllers' = Controllers /\ (Rebuilt' <=> Rebuilt)
      /\ \A i : /\ Plausible(i)' <=> Plausible(i)
                /\ Held(i)' = Held(i)
                /\ Misread(i)' <=> Misread(i)
      /\ \A b : /\ LastOnly(b)' <=> LastOnly(b)
                /\ NotCarried(b)' <=> NotCarried(b)
  <2>1. Controllers' = Controllers /\ (Rebuilt' <=> Rebuilt)
    BY <1>1 DEF Controllers, Rebuilt
  <2>2. \A i : /\ Plausible(i)' <=> Plausible(i)
               /\ Held(i)' = Held(i)
               /\ Misread(i)' <=> Misread(i)
    BY <1>1 DEF Plausible, Held, Misread
  <2>3. \A b : LastOnly(b)' <=> LastOnly(b)
    BY <1>1 DEF LastOnly
  <2>4. \A b : NotCarried(b)' <=> NotCarried(b)
    BY <1>1 DEF NotCarried
  <2> QED
    BY <2>1, <2>2, <2>3, <2>4
<1>3. \A b, i : Carries(b, i)' <=> Carries(b, i)
  BY <1>1, <1>2 DEF Carries
<1>4. Blank(build, earlier)' = Blank(build, earlier)
  BY <1>1 DEF Blank, Uncleared, BlankHeld, BlankAxis
<1>5. ASSUME NEW b \in Buttons(build.device, build.console)
      PROVE  /\ b \in Held(next) /\ ~ NotCarried(b) => b \in out'.held
             /\ b \in out'.held => (b \in out.held /\ ~ LastOnly(b)) \/ Carries(b, next)
             /\ b \in out.held /\ ~ LastOnly(b) => b \in out'.held
  <2>1. CASE build.source = "rf"
    <3>1. out' = ConvertPs3(out, reports[next], build.device, build.console, stray)
      BY <2>1 DEF Step
    <3> QED
      BY <1>1, <2>1, <3>1, TransmitterAdded DEF MergeInv
  <2>2. CASE build.source # "rf"
    <3>1. build \in Builds /\ build.source = "usb"
      BY <2>2, MergeAssumption DEF MergeInv, Rebuilt, Builds
    <3>2. out' = ConvertHost(out, reports[next], build.device, hosts[next], build.console, stray)
      BY <2>2 DEF Step
    <3>3. ~ LastOnly(b)
      BY <2>2 DEF LastOnly
    <3> QED
      BY <1>1, <3>1, <3>2, <3>3, HostAdded DEF MergeInv
  <2> QED
    BY <2>1, <2>2
<1>6. ASSUME NEW b
      PROVE  SoFar(b)' = IF LastOnly(b) THEN {next} ELSE SoFar(b) \cup {next}
  <2>1. next \in Nat /\ next > 0 /\ next' = next + 1
    BY <1>1 DEF MergeInv
  <2>2. {next' - 1} \ {0} = {next} /\ 1..next' - 1 = (1..next - 1) \cup {next}
    BY <2>1
  <2> QED
    BY <1>2, <2>2 DEF SoFar
<1>7. MergedSoFar'
  <2> SUFFICES ASSUME NEW b \in Buttons(build.device, build.console)
               PROVE  /\ (\E i \in SoFar(b)' : b \in Held(i)) /\ ~ NotCarried(b) => b \in out'.held
                      /\ b \in out'.held =>
                           \/ \E i \in SoFar(b)' : Carries(b, i)
                           \/ b \in Blank(build, earlier).held
    BY <1>1, <1>2, <1>3, <1>4 DEF MergedSoFar
  <2>1. /\ (\E i \in SoFar(b) : b \in Held(i)) /\ ~ NotCarried(b) => b \in out.held
        /\ b \in out.held =>
              (\E i \in SoFar(b) : Carries(b, i)) \/ b \in Blank(build, earlier).held
    BY DEF MergeInv, MergedSoFar
  <2> QED
    BY <1>5, <1>6, <2>1
<1> QED
  BY <1>1, <1>2, <1>7 DEF MergeInv, Controllers

\* A receiver starts over, from a blank report.
LEMMA MergeOverwrite ==
  ASSUME MergeInv, Overwrite
  PROVE  MergeInv'
<1>1. /\ build.source = "rf" /\ build.console = "xboxone" /\ build.device \in Devices
      /\ build' = [build EXCEPT !.console = "universal"]
      /\ next' = 1
      /\ UNCHANGED <<hosts, reports, stray, earlier>>
  BY MergeAssumption DEF Overwrite, MergeInv, Rebuilt, Builds
<1>2. build'.source = "rf" /\ build'.device = build.device /\ build'.console = "universal"
  <2>1. build \in Builds
    BY <1>1 DEF MergeInv, Rebuilt
  <2> QED
    BY <1>1, <2>1 DEF Builds
<1>3. out'.held = {}
  BY <1>2 DEF Overwrite, Blank, BlankHeld, Uncleared
<1>4. \A b : SoFar(b)' = {}
  BY <1>1 DEF SoFar
<1>5. MergedSoFar'
  BY <1>3, <1>4 DEF MergedSoFar
<1>6. \A i : Plausible(i)' <=> Plausible(i)
  BY <1>1, <1>2 DEF Plausible
<1> QED
  BY <1>1, <1>2, <1>5, <1>6 DEF MergeInv, Rebuilt, Controllers

\* Whatever controllers there are and whatever they hold, every button that is held
\* is in the report and no other is (MergedButtons): convert_ps3_to_type and
\* inputs/usb_host.h over any number of controllers.
THEOREM AnyButtonsAreMerged == AnyCall /\ [][MergeNext]_mergeVars => []MergedButtons
<1>1. AnyCall => MergeInv
  <2> SUFFICES ASSUME AnyCall PROVE MergeInv
    OBVIOUS
  <2>1. \A b : SoFar(b) = {}
    BY DEF AnyCall, SoFar
  <2> QED
    BY <2>1 DEF AnyCall, MergeInv, MergedSoFar
<1>2. MergeInv /\ [MergeNext]_mergeVars => MergeInv'
  <2> SUFFICES ASSUME MergeInv, [MergeNext]_mergeVars PROVE MergeInv'
    OBVIOUS
  <2>1. CASE UNCHANGED mergeVars
    <3>1. UNCHANGED <<build, hosts, reports, out, next, stray, earlier>>
      BY <2>1 DEF mergeVars
    <3>2. \A i : Plausible(i)' <=> Plausible(i)
      BY <3>1 DEF Plausible
    <3>3. \A b, i : /\ b \in Held(i)' <=> b \in Held(i)
                    /\ Carries(b, i)' <=> Carries(b, i)
      BY <3>1 DEF Carries, Held, Misread
    <3>4. \A b : SoFar(b)' = SoFar(b)
      BY <3>1 DEF SoFar, LastOnly
    <3>5. \A b : NotCarried(b)' <=> NotCarried(b)
      BY <3>1 DEF NotCarried
    <3>6. Blank(build, earlier)' = Blank(build, earlier)
      BY <3>1 DEF Blank, Uncleared, BlankHeld, BlankAxis
    <3>7. MergedSoFar'
      BY <3>1, <3>3, <3>4, <3>5, <3>6 DEF MergeInv, MergedSoFar
    <3> QED
      BY <3>1, <3>2, <3>7 DEF MergeInv, Rebuilt, Controllers
  <2> QED
    BY <2>1, MergeStep, MergeOverwrite DEF MergeNext
<1>3. MergeInv => MergedButtons
  <2> SUFFICES ASSUME MergeInv, Merged, NEW b \in Buttons(build.device, build.console)
               PROVE  SoFar(b) = Counted(b)
    BY DEF MergeInv, MergedSoFar, MergedButtons, Carries
  <2>1. Len(reports) \in Nat /\ Len(reports) > 0 /\ next = Len(reports) + 1
    BY DEF MergeInv, Merged
  <2>2. {next - 1} \ {0} = {Len(reports)} /\ 1..next - 1 = 1..Len(reports)
    BY <2>1
  <2> QED
    BY <2>2 DEF SoFar, Counted, Controllers
<1> QED
  BY <1>1, <1>2, <1>3, PTL

\* The calls TLC enumerates are such calls.
LEMMA InitIsCall == MergeInit => AnyCall
<1> SUFFICES ASSUME MergeInit PROVE AnyCall
  OBVIOUS
<1>1. build \in Builds /\ stray \subseteq Hat /\ out = Blank(build, earlier) /\ next = 1
  BY MergeAssumption DEF MergeInit
<1>2. \A buttons, ranges : \A r \in Singles(buttons, ranges) \cup Wholes(buttons, ranges) :
        r.held \subseteq buttons
  BY DEF Singles, Wholes, PadReport, AtRest, AllZero, AllHeld
<1>3. CASE InitRf
  <2>1. \A r \in RfSingles(build.device) \cup RfWholes(build.device) :
          r.held \subseteq Ps3Buttons(build.device) /\ r.hat \in 0..8
    <3>1. \A r \in RfSingles(build.device) :
            r.held \subseteq Ps3Buttons(build.device) /\ r.hat \in 0..8
      BY <1>2 DEF RfSingles, Sent, AtRest, PadReport
    <3>2. \A r \in RfWholes(build.device) :
            r.held \subseteq Ps3Buttons(build.device) /\ r.hat \in 0..8
      BY DEF RfWholes, Sent, AtRest, AllZero, AllHeld, PadReport
    <3> QED
      BY <3>1, <3>2
  <2>2. PICK r \in RfSingles(build.device), w \in RfWholes(build.device) :
          reports \in {<<r, w>>, <<w, r>>}
    BY <1>3 DEF InitRf
  <2>3. Len(reports) = 2 /\ {reports[1], reports[2]} = {r, w}
    BY <2>2
  <2>4. \A i \in Controllers : Plausible(i)
    BY <1>3, <2>1, <2>3 DEF Controllers, Plausible, InitRf
  <2> QED
    BY <1>1, <2>3, <2>4 DEF AnyCall
<1>4. CASE InitUsb
  <2>0. PICK h \in Hosts(build.device), g \in Hosts(build.device) :
          \E r \in UsbSingles(build.device, h, build.console),
             w \in UsbWholes(build.device, g, build.console) :
                \/ hosts = <<h, g>> /\ reports = <<r, w>>
                \/ hosts = <<g, h>> /\ reports = <<w, r>>
    BY <1>4 DEF InitUsb
  <2>1. PICK r \in UsbSingles(build.device, h, build.console),
             w \in UsbWholes(build.device, g, build.console) :
          \/ hosts = <<h, g>> /\ reports = <<r, w>>
          \/ hosts = <<g, h>> /\ reports = <<w, r>>
    BY <2>0
  <2>2. /\ r.held \subseteq Read(build.device, h, build.console)
        /\ w.held \subseteq Read(build.device, g, build.console)
    BY <1>2 DEF UsbSingles, UsbWholes
  <2>3. Len(reports) = 2
    BY <2>1
  <2>4. \A i \in {1, 2} : Plausible(i)
    BY <1>4, <2>1, <2>2 DEF Plausible, InitUsb
  <2> QED
    BY <1>1, <2>3, <2>4 DEF AnyCall, Controllers
<1> QED
  BY <1>3, <1>4 DEF MergeInit

\* In particular of those calls, for anything the hat read past its table may give.
THEOREM ButtonsAreMerged == MergeSpec => []MergedButtons
BY InitIsCall, AnyButtonsAreMerged, PTL DEF MergeSpec


-----------------------------------------------------------------------------
(* The arithmetic of the axes.                                              *)

\* No field has the range of another kind.
LEMMA RangesDiffer ==
  /\ Byte # Bits4 /\ Byte # Bits10 /\ Byte # Int16 /\ Byte # Uint16 /\ Byte # 0..1
  /\ Bits4 # Bits10 /\ Bits4 # Int16 /\ Bits4 # Uint16 /\ Bits4 # 0..1
  /\ Bits10 # Int16 /\ Bits10 # Uint16 /\ Bits10 # 0..1
  /\ Int16 # Uint16 /\ Int16 # 0..1 /\ Uint16 # 0..1
<1>1. 2 \notin 0..1 /\ 100 \notin Bits4 /\ 1000 \notin Byte /\ 2000 \notin Bits10
  BY DEF Byte, Bits4, Bits10
<1>2. 2 \in Bits4
  BY DEF Bits4
<1>3. 2 \in Byte /\ 100 \in Byte
  BY DEF Byte
<1>4. 2 \in Bits10 /\ 100 \in Bits10 /\ 1000 \in Bits10
  BY DEF Bits10
<1>5. 2 \in Int16 /\ 100 \in Int16 /\ 1000 \in Int16 /\ 2000 \in Int16 /\ -1 \in Int16
  BY SMTT(30) DEF Int16, Int16Min, Int16Max
<1>6. 2 \in Uint16 /\ 100 \in Uint16 /\ 1000 \in Uint16 /\ 2000 \in Uint16
  BY DEF Uint16, Uint16Max
<1>7. -1 \notin Uint16
  BY DEF Uint16
<1> QED
  BY <1>1, <1>2, <1>3, <1>4, <1>5, <1>6, <1>7

\* The bounds of 16 bits with a sign.
LEMMA Int16Bounds ==
  ASSUME NEW v \in Int16
  PROVE  v \in Int /\ -32768 <= v /\ v <= 32767
<1>1. Int16Min \in Int /\ Int16Max \in Int
  BY DEF Int16Min, Int16Max
<1>2. v \in Int /\ Int16Min <= v /\ v <= Int16Max
  BY <1>1 DEF Int16
<1> QED
  BY <1>2 DEF Int16Min, Int16Max

\* What a field holds is a number.
LEMMA RangesAreInts == Byte \subseteq Int /\ Bits10 \subseteq Int /\ Int16 \subseteq Int
<1>1. Byte \subseteq Int /\ Bits10 \subseteq Int
  BY DEF Byte, Bits10
<1>2. Int16 \subseteq Int
  BY Int16Bounds
<1> QED
  BY <1>1, <1>2

\* A field keeps what fits into it.
LEMMA FitKeeps ==
  ASSUME NEW v \in Int
  PROVE  /\ 0 <= v /\ v <= 255 => Fit(Byte, v) = v
         /\ 0 <= v /\ v <= 15 => Fit(Bits4, v) = v
         /\ -32768 <= v /\ v <= 32767 => Fit(Int16, v) = v
         /\ 0 <= v /\ v <= 65535 => Fit(Uint16, v) = v
<1>1. ASSUME 0 <= v, v <= 255 PROVE Fit(Byte, v) = v
  <2>1. v % 256 = v
    BY <1>1
  <2> QED
    BY <2>1, RangesDiffer DEF Fit
<1>2. ASSUME 0 <= v, v <= 15 PROVE Fit(Bits4, v) = v
  <2>1. v % 16 = v
    BY <1>2
  <2> QED
    BY <2>1, RangesDiffer DEF Fit
<1>3. ASSUME -32768 <= v, v <= 32767 PROVE Fit(Int16, v) = v
  <2>1. ((v + 32768) % 65536) - 32768 = v
    BY <1>3
  <2> QED
    BY <2>1, RangesDiffer DEF Fit
<1>4. ASSUME 0 <= v, v <= 65535 PROVE Fit(Uint16, v) = v
  <2>1. v % 65536 = v
    BY <1>4
  <2> QED
    BY <2>1, RangesDiffer DEF Fit
<1> QED
  BY <1>1, <1>2, <1>3, <1>4

\* Where an axis of each range rests.
LEMMA CentreMeans ==
  ASSUME NEW x, x # "accel"
  PROVE  /\ x \in Centred0 => Centre(Byte, x) = 128
         /\ x \notin Centred0 => Centre(Byte, x) = 0
         /\ x \in Knobs => Centre(Bits10, x) = 512
         /\ Centre(Int16, x) = 0 /\ Centre(Uint16, x) = 0 /\ Centre(Bits4, x) = 0
BY RangesDiffer DEF Centre

\* A copy keeps the side of its rest
Points(how, from, rest, to, centre, sign) ==
  \A v \in from :
    v # rest /\ (how = "nibble" => v >= 16) =>
      Side(Fit(to, Copied(how, v)), centre) =
        IF sign = 1 THEN Side(v, rest) ELSE -Side(v, rest)

\* Every arithmetic of the tables keeps it, but that of two of the drum's pads.
LEMMA CopiesPoint ==
  /\ Points("same", Byte, 128, Byte, 128, 1)
  /\ Points("same", Byte, 0, Byte, 0, 1)
  /\ Points("centred", Byte, 128, Int16, 0, 1)
  /\ Points("shifted", Byte, 0, Uint16, 0, 1)
  /\ Points("nibble", Byte, 0, Bits4, 0, 1)
  /\ Points("slider", Byte, 0, Uint16, 0, 1)
  /\ Points("pad_up", Byte, 0, Int16, 0, -1)
  /\ Points("pad_down", Byte, 0, Int16, 0, 1)
<1>1. ASSUME NEW v \in Byte
      PROVE  /\ v \in Int /\ 0 <= v /\ v <= 255
             /\ Copied("same", v) = v
             /\ Copied("centred", v) = (v - 128) * 256
             /\ Copied("shifted", v) = v * 256
             /\ Copied("nibble", v) = v \div 16
             /\ Copied("slider", v) = v + 256 * (IF v > 128 THEN v - 1 ELSE v)
             /\ Copied("pad_up", v) = -(32767 - v * 128)
             /\ Copied("pad_down", v) = 32767 - v * 128
  BY DEF Byte, Copied, Centred, Shifted, Nibble, Slider, PadUp, PadDown
<1>2. ASSUME NEW v \in Byte
      PROVE  /\ Fit(Byte, v) = v
             /\ Fit(Int16, (v - 128) * 256) = (v - 128) * 256
             /\ Fit(Uint16, v * 256) = v * 256
             /\ Fit(Int16, -(32767 - v * 128)) = -(32767 - v * 128)
             /\ Fit(Int16, 32767 - v * 128) = 32767 - v * 128
  BY <1>1, FitKeeps
<1>3. ASSUME NEW v \in Byte
      PROVE  /\ Fit(Bits4, v \div 16) = v \div 16
             /\ v >= 16 => v \div 16 > 0
  <2>1. v \div 16 \in Int /\ 0 <= v \div 16 /\ v \div 16 <= 15
    BY <1>1
  <2> QED
    BY <1>1, <2>1, FitKeeps
<1>4. ASSUME NEW v \in Byte
      PROVE  LET w == v + 256 * (IF v > 128 THEN v - 1 ELSE v)
             IN  Fit(Uint16, w) = w /\ (v > 0 => w > 0)
  BY <1>1, FitKeeps
<1>5. /\ Points("same", Byte, 128, Byte, 128, 1)
      /\ Points("same", Byte, 0, Byte, 0, 1)
  BY <1>1, <1>2 DEF Points, Side
<1>6. Points("centred", Byte, 128, Int16, 0, 1)
  BY <1>1, <1>2 DEF Points, Side
<1>7. Points("shifted", Byte, 0, Uint16, 0, 1)
  BY <1>1, <1>2 DEF Points, Side
<1>8. Points("nibble", Byte, 0, Bits4, 0, 1)
  BY <1>1, <1>3 DEF Points, Side
<1>9. Points("slider", Byte, 0, Uint16, 0, 1)
  BY <1>1, <1>4 DEF Points, Side
<1>10. Points("pad_up", Byte, 0, Int16, 0, -1)
  BY <1>1, <1>2 DEF Points, Side
<1>11. Points("pad_down", Byte, 0, Int16, 0, 1)
  BY <1>1, <1>2 DEF Points, Side
<1> QED
  BY <1>5, <1>6, <1>7, <1>8, <1>9, <1>10, <1>11

-----------------------------------------------------------------------------
(* The tables of the axes (Ps3Convert).                                     *)

\* One entry of them.
Entry(x, rest, how) == [from |-> Origin(x), to |-> x, rest |-> rest, how |-> how]

\* The entry that writes x, of a row of the tables and of a guitar's tilt.
LEMMA EntriesOf ==
  ASSUME NEW names, NEW rest, NEW how, NEW x, NEW c, "tilt" \notin names
  PROVE  c \in Axis(names, rest, how) /\ c.to = x <=> x \in names /\ c = Entry(x, rest, how)
BY DEF Axis, Entry, Origin

LEMMA TiltEntry ==
  ASSUME NEW how, NEW x, NEW c
  PROVE  c \in Tilt(how) /\ c.to = x <=> x = "tilt" /\ c = Entry(x, 128, how)
BY DEF Tilt, Entry, Origin

\* What this code does not copy, of the axes both reports have.
Uncopied(x) ==
  LET is(device, target) == build.device = device /\ build.console = target
  IN  \/ is("live", "ps4")
      \/ is("rb_drums", "xboxone") /\ x \in Cymbals
      \/ is("rb_guitar", "xbox360") /\ x = "pickup"
      \/ is("turntable", "xbox360") /\ x \in Knobs

Reversed(x) == /\ build.device = "rb_drums" /\ build.console = "xbox360"
               /\ x \in {"greenVelocity", "yellowVelocity"}

\* The copies of the axis x are one, from the axis of its name, by how; it starts from
\* where that axis rests, and keeps the side.
CopiedBy(x, how) ==
  LET from == Ps3Axes(build.device)[Origin(x)]
      to == Axes(build.device, build.console)[x]
      rest == Centre(from, Origin(x))
  IN  /\ \A c : c \in AxisCopies(build.device, build.console) /\ c.to = x
                  <=> c = Entry(x, rest, how)
      /\ Points(how, from, rest, to, Centre(to, x), IF Reversed(x) THEN -1 ELSE 1)
      /\ how = "nibble" => /\ build.device = "rb_drums" /\ build.console = "xboxone"
                           /\ x \in Pads

\* The tables, one kind of controller at a time.
LEMMA CopiedGamepad ==
  ASSUME build.device = "gamepad", build.console \in Consoles(build.device),
         ~ Universal(build.device, build.console),
         NEW x \in DOMAIN Axes(build.device, build.console),
         Origin(x) \in DOMAIN Ps3Axes(build.device), ~ Uncopied(x)
  PROVE  \E how : CopiedBy(x, how)
<1> DEFINE device == build.device
           target == build.console
<1>1. Ps3Axes(device) = [y \in Sticks \cup Triggers \cup Pressures |-> Byte]
  BY DEF Ps3Axes
<1>2. target \in {"ps3", "ps4", "xbox360", "xboxone"}
  BY DEF Consoles, Universal
<1>3. CASE target = "ps3"
  <2>1. device = "gamepad" /\ target = "ps3" /\ x \in DOMAIN Axes(device, target)
    BY <1>3
  <2> QED
    <3>1. /\ Axes(device, target)
               = [y \in Sticks \cup Triggers \cup Pressures |-> Byte]
          /\ Ps3Axes(device) = [y \in Sticks \cup Triggers \cup Pressures |-> Byte]
          /\ AxisCopies(device, target)
               = Axis(Sticks, 128, "same")
                   \cup Axis(Triggers \cup Pressures, 0, "same")
      BY <1>1, <2>1 DEF Axes, Ps3Axes, AxisCopies, GamepadAxes
    <3>2. \A c : /\ c \in Axis(Sticks, 128, "same") /\ c.to = x
                      <=> x \in Sticks /\ c = Entry(x, 128, "same")
                 /\ c \in Axis(Triggers \cup Pressures, 0, "same") /\ c.to = x
                      <=> x \in Triggers \cup Pressures /\ c = Entry(x, 0, "same")
      <4>1. \A c : c \in Axis(Sticks, 128, "same") /\ c.to = x
                  <=> x \in Sticks /\ c = Entry(x, 128, "same")
        <5>1. "tilt" \notin Sticks
          BY DEF Sticks
        <5> QED
          BY <5>1, EntriesOf
      <4>2. \A c : c \in Axis(Triggers \cup Pressures, 0, "same") /\ c.to = x
                  <=> x \in Triggers \cup Pressures /\ c = Entry(x, 0, "same")
        <5>1. "tilt" \notin Triggers \cup Pressures
          BY DEF Triggers, Pressures
        <5> QED
          BY <5>1, EntriesOf
      <4> QED
        BY <4>1, <4>2
    <3>3. CASE x \in Sticks
      <4>1. \A c : c \in AxisCopies(device, target) /\ c.to = x <=> c = Entry(x, 128, "same")
        BY <3>1, <3>2, <3>3 DEF Sticks, Triggers, Pressures
      <4>2. /\ Axes(device, target)[x] = Byte
            /\ Ps3Axes(device)[Origin(x)] = Byte /\ Origin(x) = x
        BY <2>1, <3>1, <3>3 DEF Origin, Sticks, Triggers, Pressures
      <4>3. Centre(Byte, x) = 128 /\ Centre(Byte, x) = 128
        BY <3>3, CentreMeans DEF Centred0, Sticks, Tables, Knobs, Triggers, Pressures
      <4>4. ~ Reversed(x)
        BY <2>1, <3>3 DEF Reversed
      <4> HIDE DEF device, target
      <4> QED
        BY <4>1, <4>2, <4>3, <4>4, CopiesPoint DEF CopiedBy, device, target
    <3>4. CASE x \in Triggers \cup Pressures
      <4>1. \A c : c \in AxisCopies(device, target) /\ c.to = x <=> c = Entry(x, 0, "same")
        BY <3>1, <3>2, <3>4 DEF Sticks, Triggers, Pressures
      <4>2. /\ Axes(device, target)[x] = Byte
            /\ Ps3Axes(device)[Origin(x)] = Byte /\ Origin(x) = x
        BY <2>1, <3>1, <3>4 DEF Origin, Sticks, Triggers, Pressures
      <4>3. Centre(Byte, x) = 0 /\ Centre(Byte, x) = 0
        BY <3>4, CentreMeans DEF Centred0, Sticks, Tables, Knobs, Triggers, Pressures
      <4>4. ~ Reversed(x)
        BY <2>1, <3>4 DEF Reversed
      <4> HIDE DEF device, target
      <4> QED
        BY <4>1, <4>2, <4>3, <4>4, CopiesPoint DEF CopiedBy, device, target
    <3> QED
      BY <2>1, <3>1, <3>3, <3>4 DEF Uncopied, Origin, Sticks, Triggers, Pressures
<1>4. CASE target = "ps4"
  <2>1. device = "gamepad" /\ target = "ps4" /\ x \in DOMAIN Axes(device, target)
    BY <1>4
  <2> QED
    <3>1. /\ Axes(device, target)
               = [y \in Sticks \cup Triggers |-> Byte]
          /\ Ps3Axes(device) = [y \in Sticks \cup Triggers \cup Pressures |-> Byte]
          /\ AxisCopies(device, target)
               = Axis(Sticks, 128, "same")
                   \cup Axis(Triggers, 0, "same")
      BY <1>1, <2>1 DEF Axes, Ps3Axes, AxisCopies, GamepadAxes, Ps4Axes
    <3>2. \A c : /\ c \in Axis(Sticks, 128, "same") /\ c.to = x
                      <=> x \in Sticks /\ c = Entry(x, 128, "same")
                 /\ c \in Axis(Triggers, 0, "same") /\ c.to = x
                      <=> x \in Triggers /\ c = Entry(x, 0, "same")
      <4>1. \A c : c \in Axis(Sticks, 128, "same") /\ c.to = x
                  <=> x \in Sticks /\ c = Entry(x, 128, "same")
        <5>1. "tilt" \notin Sticks
          BY DEF Sticks
        <5> QED
          BY <5>1, EntriesOf
      <4>2. \A c : c \in Axis(Triggers, 0, "same") /\ c.to = x
                  <=> x \in Triggers /\ c = Entry(x, 0, "same")
        <5>1. "tilt" \notin Triggers
          BY DEF Triggers
        <5> QED
          BY <5>1, EntriesOf
      <4> QED
        BY <4>1, <4>2
    <3>3. CASE x \in Sticks
      <4>1. \A c : c \in AxisCopies(device, target) /\ c.to = x <=> c = Entry(x, 128, "same")
        BY <3>1, <3>2, <3>3 DEF Sticks, Triggers, Pressures
      <4>2. /\ Axes(device, target)[x] = Byte
            /\ Ps3Axes(device)[Origin(x)] = Byte /\ Origin(x) = x
        BY <2>1, <3>1, <3>3 DEF Origin, Sticks, Triggers, Pressures
      <4>3. Centre(Byte, x) = 128 /\ Centre(Byte, x) = 128
        BY <3>3, CentreMeans DEF Centred0, Sticks, Tables, Knobs, Triggers, Pressures
      <4>4. ~ Reversed(x)
        BY <2>1, <3>3 DEF Reversed
      <4> HIDE DEF device, target
      <4> QED
        BY <4>1, <4>2, <4>3, <4>4, CopiesPoint DEF CopiedBy, device, target
    <3>4. CASE x \in Triggers
      <4>1. \A c : c \in AxisCopies(device, target) /\ c.to = x <=> c = Entry(x, 0, "same")
        BY <3>1, <3>2, <3>4 DEF Sticks, Triggers, Pressures
      <4>2. /\ Axes(device, target)[x] = Byte
            /\ Ps3Axes(device)[Origin(x)] = Byte /\ Origin(x) = x
        BY <2>1, <3>1, <3>4 DEF Origin, Sticks, Triggers, Pressures
      <4>3. Centre(Byte, x) = 0 /\ Centre(Byte, x) = 0
        BY <3>4, CentreMeans DEF Centred0, Sticks, Tables, Knobs, Triggers, Pressures
      <4>4. ~ Reversed(x)
        BY <2>1, <3>4 DEF Reversed
      <4> HIDE DEF device, target
      <4> QED
        BY <4>1, <4>2, <4>3, <4>4, CopiesPoint DEF CopiedBy, device, target
    <3> QED
      BY <2>1, <3>1, <3>3, <3>4 DEF Uncopied, Origin, Sticks, Triggers, Pressures
<1>5. CASE target = "xbox360"
  <2>1. device = "gamepad" /\ target = "xbox360" /\ x \in DOMAIN Axes(device, target)
    BY <1>5
  <2> QED
    <3>1. /\ Axes(device, target)
               = [y \in Sticks \cup Triggers |-> IF y \in Sticks THEN Int16 ELSE Byte]
          /\ Ps3Axes(device) = [y \in Sticks \cup Triggers \cup Pressures |-> Byte]
          /\ AxisCopies(device, target)
               = Axis(Sticks, 128, "centred")
                   \cup Axis(Triggers, 0, "same")
      BY <1>1, <2>1 DEF Axes, Ps3Axes, AxisCopies, GamepadAxes, Xbox360Axes
    <3>2. \A c : /\ c \in Axis(Sticks, 128, "centred") /\ c.to = x
                      <=> x \in Sticks /\ c = Entry(x, 128, "centred")
                 /\ c \in Axis(Triggers, 0, "same") /\ c.to = x
                      <=> x \in Triggers /\ c = Entry(x, 0, "same")
      <4>1. \A c : c \in Axis(Sticks, 128, "centred") /\ c.to = x
                  <=> x \in Sticks /\ c = Entry(x, 128, "centred")
        <5>1. "tilt" \notin Sticks
          BY DEF Sticks
        <5> QED
          BY <5>1, EntriesOf
      <4>2. \A c : c \in Axis(Triggers, 0, "same") /\ c.to = x
                  <=> x \in Triggers /\ c = Entry(x, 0, "same")
        <5>1. "tilt" \notin Triggers
          BY DEF Triggers
        <5> QED
          BY <5>1, EntriesOf
      <4> QED
        BY <4>1, <4>2
    <3>3. CASE x \in Sticks
      <4>1. \A c : c \in AxisCopies(device, target) /\ c.to = x <=> c = Entry(x, 128, "centred")
        BY <3>1, <3>2, <3>3 DEF Sticks, Triggers, Pressures
      <4>2. /\ Axes(device, target)[x] = Int16
            /\ Ps3Axes(device)[Origin(x)] = Byte /\ Origin(x) = x
        BY <2>1, <3>1, <3>3 DEF Origin, Sticks, Triggers, Pressures
      <4>3. Centre(Byte, x) = 128 /\ Centre(Int16, x) = 0
        BY <3>3, CentreMeans DEF Centred0, Sticks, Tables, Knobs, Triggers, Pressures
      <4>4. ~ Reversed(x)
        BY <2>1, <3>3 DEF Reversed
      <4> HIDE DEF device, target
      <4> QED
        BY <4>1, <4>2, <4>3, <4>4, CopiesPoint DEF CopiedBy, device, target
    <3>4. CASE x \in Triggers
      <4>1. \A c : c \in AxisCopies(device, target) /\ c.to = x <=> c = Entry(x, 0, "same")
        BY <3>1, <3>2, <3>4 DEF Sticks, Triggers, Pressures
      <4>2. /\ Axes(device, target)[x] = Byte
            /\ Ps3Axes(device)[Origin(x)] = Byte /\ Origin(x) = x
        BY <2>1, <3>1, <3>4 DEF Origin, Sticks, Triggers, Pressures
      <4>3. Centre(Byte, x) = 0 /\ Centre(Byte, x) = 0
        BY <3>4, CentreMeans DEF Centred0, Sticks, Tables, Knobs, Triggers, Pressures
      <4>4. ~ Reversed(x)
        BY <2>1, <3>4 DEF Reversed
      <4> HIDE DEF device, target
      <4> QED
        BY <4>1, <4>2, <4>3, <4>4, CopiesPoint DEF CopiedBy, device, target
    <3> QED
      BY <2>1, <3>1, <3>3, <3>4 DEF Uncopied, Origin, Sticks, Triggers, Pressures
<1>6. CASE target = "xboxone"
  <2>1. device = "gamepad" /\ target = "xboxone" /\ x \in DOMAIN Axes(device, target)
    BY <1>6
  <2> QED
    <3>1. /\ Axes(device, target)
               = [y \in Sticks \cup Triggers |-> IF y \in Sticks THEN Int16 ELSE Uint16]
          /\ Ps3Axes(device) = [y \in Sticks \cup Triggers \cup Pressures |-> Byte]
          /\ AxisCopies(device, target)
               = Axis(Sticks, 128, "centred")
                   \cup Axis(Triggers, 0, "shifted")
      BY <1>1, <2>1 DEF Axes, Ps3Axes, AxisCopies, GamepadAxes, XboxOneAxes
    <3>2. \A c : /\ c \in Axis(Sticks, 128, "centred") /\ c.to = x
                      <=> x \in Sticks /\ c = Entry(x, 128, "centred")
                 /\ c \in Axis(Triggers, 0, "shifted") /\ c.to = x
                      <=> x \in Triggers /\ c = Entry(x, 0, "shifted")
      <4>1. \A c : c \in Axis(Sticks, 128, "centred") /\ c.to = x
                  <=> x \in Sticks /\ c = Entry(x, 128, "centred")
        <5>1. "tilt" \notin Sticks
          BY DEF Sticks
        <5> QED
          BY <5>1, EntriesOf
      <4>2. \A c : c \in Axis(Triggers, 0, "shifted") /\ c.to = x
                  <=> x \in Triggers /\ c = Entry(x, 0, "shifted")
        <5>1. "tilt" \notin Triggers
          BY DEF Triggers
        <5> QED
          BY <5>1, EntriesOf
      <4> QED
        BY <4>1, <4>2
    <3>3. CASE x \in Sticks
      <4>1. \A c : c \in AxisCopies(device, target) /\ c.to = x <=> c = Entry(x, 128, "centred")
        BY <3>1, <3>2, <3>3 DEF Sticks, Triggers, Pressures
      <4>2. /\ Axes(device, target)[x] = Int16
            /\ Ps3Axes(device)[Origin(x)] = Byte /\ Origin(x) = x
        BY <2>1, <3>1, <3>3 DEF Origin, Sticks, Triggers, Pressures
      <4>3. Centre(Byte, x) = 128 /\ Centre(Int16, x) = 0
        BY <3>3, CentreMeans DEF Centred0, Sticks, Tables, Knobs, Triggers, Pressures
      <4>4. ~ Reversed(x)
        BY <2>1, <3>3 DEF Reversed
      <4> HIDE DEF device, target
      <4> QED
        BY <4>1, <4>2, <4>3, <4>4, CopiesPoint DEF CopiedBy, device, target
    <3>4. CASE x \in Triggers
      <4>1. \A c : c \in AxisCopies(device, target) /\ c.to = x <=> c = Entry(x, 0, "shifted")
        BY <3>1, <3>2, <3>4 DEF Sticks, Triggers, Pressures
      <4>2. /\ Axes(device, target)[x] = Uint16
            /\ Ps3Axes(device)[Origin(x)] = Byte /\ Origin(x) = x
        BY <2>1, <3>1, <3>4 DEF Origin, Sticks, Triggers, Pressures
      <4>3. Centre(Byte, x) = 0 /\ Centre(Uint16, x) = 0
        BY <3>4, CentreMeans DEF Centred0, Sticks, Tables, Knobs, Triggers, Pressures
      <4>4. ~ Reversed(x)
        BY <2>1, <3>4 DEF Reversed
      <4> HIDE DEF device, target
      <4> QED
        BY <4>1, <4>2, <4>3, <4>4, CopiesPoint DEF CopiedBy, device, target
    <3> QED
      BY <2>1, <3>1, <3>3, <3>4 DEF Uncopied, Origin, Sticks, Triggers, Pressures
<1> QED
  BY <1>2, <1>3, <1>4, <1>5, <1>6

\* Guitar Hero guitars: an Xbox 360 only, a PS3 takes the report whole.
LEMMA CopiedGhGuitar ==
  ASSUME build.device = "gh_guitar", build.console \in Consoles(build.device),
         ~ Universal(build.device, build.console),
         NEW x \in DOMAIN Axes(build.device, build.console),
         Origin(x) \in DOMAIN Ps3Axes(build.device), ~ Uncopied(x)
  PROVE  \E how : CopiedBy(x, how)
<1> DEFINE device == build.device
           target == build.console
<1>1. Ps3Axes(device) = [y \in {"tilt_pc", "whammy", "slider"} |-> Byte]
  BY DEF Ps3Axes
<1>2. target \in {"xbox360"}
  BY DEF Consoles, Universal
<1>3. CASE target = "xbox360"
  <2>1. device = "gh_guitar" /\ target = "xbox360" /\ x \in DOMAIN Axes(device, target)
    BY <1>3
  <2> QED
    <3>1. /\ Axes(device, target)
               = [y \in {"tilt", "whammy", "slider"} |-> IF y = "slider" THEN Uint16 ELSE Int16]
          /\ Ps3Axes(device) = [y \in {"tilt_pc", "whammy", "slider"} |-> Byte]
          /\ AxisCopies(device, target)
               = Tilt("centred")
                   \cup Axis({"whammy"}, 128, "centred")
                   \cup Axis({"slider"}, 0, "slider")
      BY <1>1, <2>1 DEF Axes, Ps3Axes, AxisCopies, GuitarAxes, Xbox360Axes
    <3>2. \A c : /\ c \in Tilt("centred") /\ c.to = x
                      <=> x = "tilt" /\ c = Entry(x, 128, "centred")
                 /\ c \in Axis({"whammy"}, 128, "centred") /\ c.to = x
                      <=> x \in {"whammy"} /\ c = Entry(x, 128, "centred")
                 /\ c \in Axis({"slider"}, 0, "slider") /\ c.to = x
                      <=> x \in {"slider"} /\ c = Entry(x, 0, "slider")
      <4>1. \A c : c \in Tilt("centred") /\ c.to = x
                  <=> x = "tilt" /\ c = Entry(x, 128, "centred")
        BY TiltEntry
      <4>2. \A c : c \in Axis({"whammy"}, 128, "centred") /\ c.to = x
                  <=> x \in {"whammy"} /\ c = Entry(x, 128, "centred")
        <5>1. "tilt" \notin {"whammy"}
          OBVIOUS
        <5> QED
          BY <5>1, EntriesOf
      <4>3. \A c : c \in Axis({"slider"}, 0, "slider") /\ c.to = x
                  <=> x \in {"slider"} /\ c = Entry(x, 0, "slider")
        <5>1. "tilt" \notin {"slider"}
          OBVIOUS
        <5> QED
          BY <5>1, EntriesOf
      <4> QED
        BY <4>1, <4>2, <4>3
    <3>3. CASE x \in {"tilt"}
      <4>1. \A c : c \in AxisCopies(device, target) /\ c.to = x <=> c = Entry(x, 128, "centred")
        BY <3>1, <3>2, <3>3
      <4>2. /\ Axes(device, target)[x] = Int16
            /\ Ps3Axes(device)[Origin(x)] = Byte /\ Origin(x) = "tilt_pc"
        BY <2>1, <3>1, <3>3 DEF Origin
      <4>3. Centre(Byte, "tilt_pc") = 128 /\ Centre(Int16, x) = 0
        BY <3>3, CentreMeans DEF Centred0, Sticks, Tables, Knobs
      <4>4. ~ Reversed(x)
        BY <2>1, <3>3 DEF Reversed
      <4> HIDE DEF device, target
      <4> QED
        BY <4>1, <4>2, <4>3, <4>4, CopiesPoint DEF CopiedBy, device, target
    <3>4. CASE x \in {"whammy"}
      <4>1. \A c : c \in AxisCopies(device, target) /\ c.to = x <=> c = Entry(x, 128, "centred")
        BY <3>1, <3>2, <3>4
      <4>2. /\ Axes(device, target)[x] = Int16
            /\ Ps3Axes(device)[Origin(x)] = Byte /\ Origin(x) = x
        BY <2>1, <3>1, <3>4 DEF Origin
      <4>3. Centre(Byte, x) = 128 /\ Centre(Int16, x) = 0
        BY <3>4, CentreMeans DEF Centred0, Sticks, Tables, Knobs
      <4>4. ~ Reversed(x)
        BY <2>1, <3>4 DEF Reversed
      <4> HIDE DEF device, target
      <4> QED
        BY <4>1, <4>2, <4>3, <4>4, CopiesPoint DEF CopiedBy, device, target
    <3>5. CASE x \in {"slider"}
      <4>1. \A c : c \in AxisCopies(device, target) /\ c.to = x <=> c = Entry(x, 0, "slider")
        BY <3>1, <3>2, <3>5
      <4>2. /\ Axes(device, target)[x] = Uint16
            /\ Ps3Axes(device)[Origin(x)] = Byte /\ Origin(x) = x
        BY <2>1, <3>1, <3>5 DEF Origin
      <4>3. Centre(Byte, x) = 0 /\ Centre(Uint16, x) = 0
        BY <3>5, CentreMeans DEF Centred0, Sticks, Tables, Knobs
      <4>4. ~ Reversed(x)
        BY <2>1, <3>5 DEF Reversed
      <4> HIDE DEF device, target
      <4> QED
        BY <4>1, <4>2, <4>3, <4>4, CopiesPoint DEF CopiedBy, device, target
    <3> QED
      BY <2>1, <3>1, <3>3, <3>4, <3>5 DEF Uncopied, Origin
<1> QED
  BY <1>2, <1>3

\* Rock Band guitars: not the pickup of an Xbox 360.
LEMMA CopiedRbGuitar ==
  ASSUME build.device = "rb_guitar", build.console \in Consoles(build.device),
         ~ Universal(build.device, build.console),
         NEW x \in DOMAIN Axes(build.device, build.console),
         Origin(x) \in DOMAIN Ps3Axes(build.device), ~ Uncopied(x)
  PROVE  \E how : CopiedBy(x, how)
<1> DEFINE device == build.device
           target == build.console
<1>1. Ps3Axes(device) = [y \in {"tilt_pc", "whammy", "pickup"} |-> Byte]
  BY DEF Ps3Axes
<1>2. target \in {"xbox360", "xboxone"}
  BY DEF Consoles, Universal
<1>3. CASE target = "xbox360"
  <2>1. device = "rb_guitar" /\ target = "xbox360" /\ x \in DOMAIN Axes(device, target)
    BY <1>3
  <2> QED
    <3>1. /\ Axes(device, target)
               = [y \in {"tilt", "whammy", "pickup"} |-> IF y = "pickup" THEN Byte ELSE Int16]
          /\ Ps3Axes(device) = [y \in {"tilt_pc", "whammy", "pickup"} |-> Byte]
          /\ AxisCopies(device, target)
               = Tilt("centred")
                   \cup Axis({"whammy"}, 128, "centred")
                   \cup Axis({"pickup"}, 128, "shifted")
      BY <1>1, <2>1 DEF Axes, Ps3Axes, AxisCopies, GuitarAxes, Xbox360Axes
    <3>2. \A c : /\ c \in Tilt("centred") /\ c.to = x
                      <=> x = "tilt" /\ c = Entry(x, 128, "centred")
                 /\ c \in Axis({"whammy"}, 128, "centred") /\ c.to = x
                      <=> x \in {"whammy"} /\ c = Entry(x, 128, "centred")
                 /\ c \in Axis({"pickup"}, 128, "shifted") /\ c.to = x
                      <=> x \in {"pickup"} /\ c = Entry(x, 128, "shifted")
      <4>1. \A c : c \in Tilt("centred") /\ c.to = x
                  <=> x = "tilt" /\ c = Entry(x, 128, "centred")
        BY TiltEntry
      <4>2. \A c : c \in Axis({"whammy"}, 128, "centred") /\ c.to = x
                  <=> x \in {"whammy"} /\ c = Entry(x, 128, "centred")
        <5>1. "tilt" \notin {"whammy"}
          OBVIOUS
        <5> QED
          BY <5>1, EntriesOf
      <4>3. \A c : c \in Axis({"pickup"}, 128, "shifted") /\ c.to = x
                  <=> x \in {"pickup"} /\ c = Entry(x, 128, "shifted")
        <5>1. "tilt" \notin {"pickup"}
          OBVIOUS
        <5> QED
          BY <5>1, EntriesOf
      <4> QED
        BY <4>1, <4>2, <4>3
    <3>3. CASE x \in {"tilt"}
      <4>1. \A c : c \in AxisCopies(device, target) /\ c.to = x <=> c = Entry(x, 128, "centred")
        BY <3>1, <3>2, <3>3
      <4>2. /\ Axes(device, target)[x] = Int16
            /\ Ps3Axes(device)[Origin(x)] = Byte /\ Origin(x) = "tilt_pc"
        BY <2>1, <3>1, <3>3 DEF Origin
      <4>3. Centre(Byte, "tilt_pc") = 128 /\ Centre(Int16, x) = 0
        BY <3>3, CentreMeans DEF Centred0, Sticks, Tables, Knobs
      <4>4. ~ Reversed(x)
        BY <2>1, <3>3 DEF Reversed
      <4> HIDE DEF device, target
      <4> QED
        BY <4>1, <4>2, <4>3, <4>4, CopiesPoint DEF CopiedBy, device, target
    <3>4. CASE x \in {"whammy"}
      <4>1. \A c : c \in AxisCopies(device, target) /\ c.to = x <=> c = Entry(x, 128, "centred")
        BY <3>1, <3>2, <3>4
      <4>2. /\ Axes(device, target)[x] = Int16
            /\ Ps3Axes(device)[Origin(x)] = Byte /\ Origin(x) = x
        BY <2>1, <3>1, <3>4 DEF Origin
      <4>3. Centre(Byte, x) = 128 /\ Centre(Int16, x) = 0
        BY <3>4, CentreMeans DEF Centred0, Sticks, Tables, Knobs
      <4>4. ~ Reversed(x)
        BY <2>1, <3>4 DEF Reversed
      <4> HIDE DEF device, target
      <4> QED
        BY <4>1, <4>2, <4>3, <4>4, CopiesPoint DEF CopiedBy, device, target
    <3> QED
      BY <2>1, <3>1, <3>3, <3>4 DEF Uncopied, Origin
<1>4. CASE target = "xboxone"
  <2>1. device = "rb_guitar" /\ target = "xboxone" /\ x \in DOMAIN Axes(device, target)
    BY <1>4
  <2> QED
    <3>1. /\ Axes(device, target)
               = [y \in {"tilt", "whammy", "pickup"} |-> Byte]
          /\ Ps3Axes(device) = [y \in {"tilt_pc", "whammy", "pickup"} |-> Byte]
          /\ AxisCopies(device, target)
               = Tilt("same")
                   \cup Axis({"whammy"}, 128, "same")
                   \cup Axis({"pickup"}, 128, "same")
      BY <1>1, <2>1 DEF Axes, Ps3Axes, AxisCopies, GuitarAxes, XboxOneAxes
    <3>2. \A c : /\ c \in Tilt("same") /\ c.to = x
                      <=> x = "tilt" /\ c = Entry(x, 128, "same")
                 /\ c \in Axis({"whammy"}, 128, "same") /\ c.to = x
                      <=> x \in {"whammy"} /\ c = Entry(x, 128, "same")
                 /\ c \in Axis({"pickup"}, 128, "same") /\ c.to = x
                      <=> x \in {"pickup"} /\ c = Entry(x, 128, "same")
      <4>1. \A c : c \in Tilt("same") /\ c.to = x
                  <=> x = "tilt" /\ c = Entry(x, 128, "same")
        BY TiltEntry
      <4>2. \A c : c \in Axis({"whammy"}, 128, "same") /\ c.to = x
                  <=> x \in {"whammy"} /\ c = Entry(x, 128, "same")
        <5>1. "tilt" \notin {"whammy"}
          OBVIOUS
        <5> QED
          BY <5>1, EntriesOf
      <4>3. \A c : c \in Axis({"pickup"}, 128, "same") /\ c.to = x
                  <=> x \in {"pickup"} /\ c = Entry(x, 128, "same")
        <5>1. "tilt" \notin {"pickup"}
          OBVIOUS
        <5> QED
          BY <5>1, EntriesOf
      <4> QED
        BY <4>1, <4>2, <4>3
    <3>3. CASE x \in {"tilt"}
      <4>1. \A c : c \in AxisCopies(device, target) /\ c.to = x <=> c = Entry(x, 128, "same")
        BY <3>1, <3>2, <3>3
      <4>2. /\ Axes(device, target)[x] = Byte
            /\ Ps3Axes(device)[Origin(x)] = Byte /\ Origin(x) = "tilt_pc"
        BY <2>1, <3>1, <3>3 DEF Origin
      <4>3. Centre(Byte, "tilt_pc") = 128 /\ Centre(Byte, x) = 128
        BY <3>3, CentreMeans DEF Centred0, Sticks, Tables, Knobs
      <4>4. ~ Reversed(x)
        BY <2>1, <3>3 DEF Reversed
      <4> HIDE DEF device, target
      <4> QED
        BY <4>1, <4>2, <4>3, <4>4, CopiesPoint DEF CopiedBy, device, target
    <3>4. CASE x \in {"whammy", "pickup"}
      <4>1. \A c : c \in AxisCopies(device, target) /\ c.to = x <=> c = Entry(x, 128, "same")
        BY <3>1, <3>2, <3>4
      <4>2. /\ Axes(device, target)[x] = Byte
            /\ Ps3Axes(device)[Origin(x)] = Byte /\ Origin(x) = x
        BY <2>1, <3>1, <3>4 DEF Origin
      <4>3. Centre(Byte, x) = 128 /\ Centre(Byte, x) = 128
        BY <3>4, CentreMeans DEF Centred0, Sticks, Tables, Knobs
      <4>4. ~ Reversed(x)
        BY <2>1, <3>4 DEF Reversed
      <4> HIDE DEF device, target
      <4> QED
        BY <4>1, <4>2, <4>3, <4>4, CopiesPoint DEF CopiedBy, device, target
    <3> QED
      BY <2>1, <3>1, <3>3, <3>4 DEF Uncopied, Origin
<1> QED
  BY <1>2, <1>3, <1>4

\* Live guitars: an Xbox One has a gamepad's axes, a PS4 gets none.
LEMMA CopiedLive ==
  ASSUME build.device = "live", build.console \in Consoles(build.device),
         ~ Universal(build.device, build.console),
         NEW x \in DOMAIN Axes(build.device, build.console),
         Origin(x) \in DOMAIN Ps3Axes(build.device), ~ Uncopied(x)
  PROVE  \E how : CopiedBy(x, how)
<1> DEFINE device == build.device
           target == build.console
<1>1. Ps3Axes(device) = [y \in {"tilt_pc", "strumBar", "whammy"} |-> Byte]
  BY DEF Ps3Axes
<1>2. target \in {"xbox360", "xboxone", "ps4"}
  BY DEF Consoles, Universal
<1>3. CASE target = "xbox360"
  <2>1. device = "live" /\ target = "xbox360" /\ x \in DOMAIN Axes(device, target)
    BY <1>3
  <2> QED
    <3>1. /\ Axes(device, target)
               = [y \in {"tilt", "strumBar", "whammy"} |-> Int16]
          /\ Ps3Axes(device) = [y \in {"tilt_pc", "strumBar", "whammy"} |-> Byte]
          /\ AxisCopies(device, target)
               = Tilt("centred")
                   \cup Axis({"whammy", "strumBar"}, 128, "centred")
      BY <1>1, <2>1 DEF Axes, Ps3Axes, AxisCopies, LiveAxes, Xbox360Axes
    <3>2. \A c : /\ c \in Tilt("centred") /\ c.to = x
                      <=> x = "tilt" /\ c = Entry(x, 128, "centred")
                 /\ c \in Axis({"whammy", "strumBar"}, 128, "centred") /\ c.to = x
                      <=> x \in {"whammy", "strumBar"} /\ c = Entry(x, 128, "centred")
      <4>1. \A c : c \in Tilt("centred") /\ c.to = x
                  <=> x = "tilt" /\ c = Entry(x, 128, "centred")
        BY TiltEntry
      <4>2. \A c : c \in Axis({"whammy", "strumBar"}, 128, "centred") /\ c.to = x
                  <=> x \in {"whammy", "strumBar"} /\ c = Entry(x, 128, "centred")
        <5>1. "tilt" \notin {"whammy", "strumBar"}
          OBVIOUS
        <5> QED
          BY <5>1, EntriesOf
      <4> QED
        BY <4>1, <4>2
    <3>3. CASE x \in {"tilt"}
      <4>1. \A c : c \in AxisCopies(device, target) /\ c.to = x <=> c = Entry(x, 128, "centred")
        BY <3>1, <3>2, <3>3
      <4>2. /\ Axes(device, target)[x] = Int16
            /\ Ps3Axes(device)[Origin(x)] = Byte /\ Origin(x) = "tilt_pc"
        BY <2>1, <3>1, <3>3 DEF Origin
      <4>3. Centre(Byte, "tilt_pc") = 128 /\ Centre(Int16, x) = 0
        BY <3>3, CentreMeans DEF Centred0, Sticks, Tables, Knobs
      <4>4. ~ Reversed(x)
        BY <2>1, <3>3 DEF Reversed
      <4> HIDE DEF device, target
      <4> QED
        BY <4>1, <4>2, <4>3, <4>4, CopiesPoint DEF CopiedBy, device, target
    <3>4. CASE x \in {"whammy", "strumBar"}
      <4>1. \A c : c \in AxisCopies(device, target) /\ c.to = x <=> c = Entry(x, 128, "centred")
        BY <3>1, <3>2, <3>4
      <4>2. /\ Axes(device, target)[x] = Int16
            /\ Ps3Axes(device)[Origin(x)] = Byte /\ Origin(x) = x
        BY <2>1, <3>1, <3>4 DEF Origin
      <4>3. Centre(Byte, x) = 128 /\ Centre(Int16, x) = 0
        BY <3>4, CentreMeans DEF Centred0, Sticks, Tables, Knobs
      <4>4. ~ Reversed(x)
        BY <2>1, <3>4 DEF Reversed
      <4> HIDE DEF device, target
      <4> QED
        BY <4>1, <4>2, <4>3, <4>4, CopiesPoint DEF CopiedBy, device, target
    <3> QED
      BY <2>1, <3>1, <3>3, <3>4 DEF Uncopied, Origin
<1>4. CASE target = "xboxone"
  <2>1. Axes(device, target)
          = [y \in Sticks \cup Triggers |-> IF y \in Sticks THEN Int16 ELSE Uint16]
    BY <1>4 DEF Axes, XboxOneAxes
  <2> QED
    BY <1>1, <2>1 DEF Origin, Sticks, Triggers
<1>5. CASE target = "ps4"
  BY <1>5 DEF Uncopied
<1> QED
  BY <1>2, <1>3, <1>4, <1>5

\* Guitar Hero drums.
LEMMA CopiedGhDrums ==
  ASSUME build.device = "gh_drums", build.console \in Consoles(build.device),
         ~ Universal(build.device, build.console),
         NEW x \in DOMAIN Axes(build.device, build.console),
         Origin(x) \in DOMAIN Ps3Axes(build.device), ~ Uncopied(x)
  PROVE  \E how : CopiedBy(x, how)
<1> DEFINE device == build.device
           target == build.console
<1>1. Ps3Axes(device) = [y \in Pads \cup {"kickVelocity", "orangeVelocity"} |-> Byte]
  BY DEF Ps3Axes
<1>2. target \in {"xbox360"}
  BY DEF Consoles, Universal
<1>3. CASE target = "xbox360"
  <2>1. device = "gh_drums" /\ target = "xbox360" /\ x \in DOMAIN Axes(device, target)
    BY <1>3
  <2> QED
    <3>1. /\ Axes(device, target)
               = [y \in Pads \cup {"kickVelocity", "orangeVelocity"} |-> Byte]
          /\ Ps3Axes(device) = [y \in Pads \cup {"kickVelocity", "orangeVelocity"} |-> Byte]
          /\ AxisCopies(device, target)
               = Axis(Pads \cup {"kickVelocity", "orangeVelocity"}, 0, "same")
      BY <1>1, <2>1 DEF Axes, Ps3Axes, AxisCopies, GhDrumAxes, Xbox360Axes
    <3>2. \A c : c \in Axis(Pads \cup {"kickVelocity", "orangeVelocity"}, 0, "same") /\ c.to = x
                   <=> x \in Pads \cup {"kickVelocity", "orangeVelocity"} /\ c = Entry(x, 0, "same")
      <4>1. "tilt" \notin Pads \cup {"kickVelocity", "orangeVelocity"}
        BY DEF Pads
      <4> QED
        BY <4>1, EntriesOf
    <3>3. CASE x \in Pads \cup {"kickVelocity", "orangeVelocity"}
      <4>1. \A c : c \in AxisCopies(device, target) /\ c.to = x <=> c = Entry(x, 0, "same")
        BY <3>1, <3>2, <3>3 DEF Pads
      <4>2. /\ Axes(device, target)[x] = Byte
            /\ Ps3Axes(device)[Origin(x)] = Byte /\ Origin(x) = x
        BY <2>1, <3>1, <3>3 DEF Origin, Pads
      <4>3. Centre(Byte, x) = 0 /\ Centre(Byte, x) = 0
        BY <3>3, CentreMeans DEF Centred0, Sticks, Tables, Knobs, Pads
      <4>4. ~ Reversed(x)
        BY <2>1, <3>3 DEF Reversed
      <4> HIDE DEF device, target
      <4> QED
        BY <4>1, <4>2, <4>3, <4>4, CopiesPoint DEF CopiedBy, device, target
    <3> QED
      BY <2>1, <3>1, <3>3 DEF Uncopied, Origin, Pads
<1> QED
  BY <1>2, <1>3

\* Rock Band drums: not the cymbals of an Xbox One.
LEMMA CopiedRbDrums ==
  ASSUME build.device = "rb_drums", build.console \in Consoles(build.device),
         ~ Universal(build.device, build.console),
         NEW x \in DOMAIN Axes(build.device, build.console),
         Origin(x) \in DOMAIN Ps3Axes(build.device), ~ Uncopied(x)
  PROVE  \E how : CopiedBy(x, how)
<1> DEFINE device == build.device
           target == build.console
<1>1. Ps3Axes(device) = [y \in Pads \cup Cymbals |-> Byte]
  BY DEF Ps3Axes
<1>2. target \in {"xbox360", "xboxone"}
  BY DEF Consoles, Universal
<1>3. CASE target = "xbox360"
  <2>1. device = "rb_drums" /\ target = "xbox360" /\ x \in DOMAIN Axes(device, target)
    BY <1>3
  <2> QED
    <3>1. /\ Axes(device, target)
               = [y \in Pads |-> Int16]
          /\ Ps3Axes(device) = [y \in Pads \cup Cymbals |-> Byte]
          /\ AxisCopies(device, target)
               = Axis({"yellowVelocity", "greenVelocity"}, 0, "pad_up")
                   \cup Axis({"redVelocity", "blueVelocity"}, 0, "pad_down")
      BY <1>1, <2>1 DEF Axes, Ps3Axes, AxisCopies, RbDrumAxes, Xbox360Axes
    <3>2. \A c : /\ c \in Axis({"yellowVelocity", "greenVelocity"}, 0, "pad_up") /\ c.to = x
                      <=> x \in {"yellowVelocity", "greenVelocity"} /\ c = Entry(x, 0, "pad_up")
                 /\ c \in Axis({"redVelocity", "blueVelocity"}, 0, "pad_down") /\ c.to = x
                      <=> x \in {"redVelocity", "blueVelocity"} /\ c = Entry(x, 0, "pad_down")
      <4>1. \A c : c \in Axis({"yellowVelocity", "greenVelocity"}, 0, "pad_up") /\ c.to = x
                  <=> x \in {"yellowVelocity", "greenVelocity"} /\ c = Entry(x, 0, "pad_up")
        <5>1. "tilt" \notin {"yellowVelocity", "greenVelocity"}
          OBVIOUS
        <5> QED
          BY <5>1, EntriesOf
      <4>2. \A c : c \in Axis({"redVelocity", "blueVelocity"}, 0, "pad_down") /\ c.to = x
                  <=> x \in {"redVelocity", "blueVelocity"} /\ c = Entry(x, 0, "pad_down")
        <5>1. "tilt" \notin {"redVelocity", "blueVelocity"}
          OBVIOUS
        <5> QED
          BY <5>1, EntriesOf
      <4> QED
        BY <4>1, <4>2
    <3>3. CASE x \in {"yellowVelocity", "greenVelocity"}
      <4>1. \A c : c \in AxisCopies(device, target) /\ c.to = x <=> c = Entry(x, 0, "pad_up")
        BY <3>1, <3>2, <3>3 DEF Pads, Cymbals
      <4>2. /\ Axes(device, target)[x] = Int16
            /\ Ps3Axes(device)[Origin(x)] = Byte /\ Origin(x) = x
        BY <2>1, <3>1, <3>3 DEF Origin, Pads, Cymbals
      <4>3. Centre(Byte, x) = 0 /\ Centre(Int16, x) = 0
        BY <3>3, CentreMeans DEF Centred0, Sticks, Tables, Knobs, Pads, Cymbals
      <4>4. Reversed(x)
        BY <2>1, <3>3 DEF Reversed
      <4> HIDE DEF device, target
      <4> QED
        BY <4>1, <4>2, <4>3, <4>4, CopiesPoint DEF CopiedBy, device, target
    <3>4. CASE x \in {"redVelocity", "blueVelocity"}
      <4>1. \A c : c \in AxisCopies(device, target) /\ c.to = x <=> c = Entry(x, 0, "pad_down")
        BY <3>1, <3>2, <3>4 DEF Pads, Cymbals
      <4>2. /\ Axes(device, target)[x] = Int16
            /\ Ps3Axes(device)[Origin(x)] = Byte /\ Origin(x) = x
        BY <2>1, <3>1, <3>4 DEF Origin, Pads, Cymbals
      <4>3. Centre(Byte, x) = 0 /\ Centre(Int16, x) = 0
        BY <3>4, CentreMeans DEF Centred0, Sticks, Tables, Knobs, Pads, Cymbals
      <4>4. ~ Reversed(x)
        BY <2>1, <3>4 DEF Reversed
      <4> HIDE DEF device, target
      <4> QED
        BY <4>1, <4>2, <4>3, <4>4, CopiesPoint DEF CopiedBy, device, target
    <3> QED
      BY <2>1, <3>1, <3>3, <3>4 DEF Uncopied, Origin, Pads, Cymbals
<1>4. CASE target = "xboxone"
  <2>1. device = "rb_drums" /\ target = "xboxone" /\ x \in DOMAIN Axes(device, target)
    BY <1>4
  <2> QED
    <3>1. /\ Axes(device, target)
               = [y \in Pads \cup Cymbals |-> Bits4]
          /\ Ps3Axes(device) = [y \in Pads \cup Cymbals |-> Byte]
          /\ AxisCopies(device, target)
               = Axis(Pads, 0, "nibble")
      BY <1>1, <2>1 DEF Axes, Ps3Axes, AxisCopies, RbDrumAxes, XboxOneAxes
    <3>2. \A c : c \in Axis(Pads, 0, "nibble") /\ c.to = x
                   <=> x \in Pads /\ c = Entry(x, 0, "nibble")
      <4>1. "tilt" \notin Pads
        BY DEF Pads
      <4> QED
        BY <4>1, EntriesOf
    <3>3. CASE x \in Pads
      <4>1. \A c : c \in AxisCopies(device, target) /\ c.to = x <=> c = Entry(x, 0, "nibble")
        BY <3>1, <3>2, <3>3 DEF Pads, Cymbals
      <4>2. /\ Axes(device, target)[x] = Bits4
            /\ Ps3Axes(device)[Origin(x)] = Byte /\ Origin(x) = x
        BY <2>1, <3>1, <3>3 DEF Origin, Pads, Cymbals
      <4>3. Centre(Byte, x) = 0 /\ Centre(Bits4, x) = 0
        BY <3>3, CentreMeans DEF Centred0, Sticks, Tables, Knobs, Pads, Cymbals
      <4>4. ~ Reversed(x)
        BY <2>1, <3>3 DEF Reversed
      <4>5. x \in Pads /\ device = "rb_drums" /\ target = "xboxone"
        BY <2>1, <3>3
      <4> HIDE DEF device, target
      <4> QED
        BY <4>1, <4>2, <4>3, <4>4, <4>5, CopiesPoint DEF CopiedBy, device, target
    <3> QED
      BY <2>1, <3>1, <3>3 DEF Uncopied, Origin, Pads, Cymbals
<1> QED
  BY <1>2, <1>3, <1>4

\* Turntables: not the knobs.
LEMMA CopiedTurntable ==
  ASSUME build.device = "turntable", build.console \in Consoles(build.device),
         ~ Universal(build.device, build.console),
         NEW x \in DOMAIN Axes(build.device, build.console),
         Origin(x) \in DOMAIN Ps3Axes(build.device), ~ Uncopied(x)
  PROVE  \E how : CopiedBy(x, how)
<1> DEFINE device == build.device
           target == build.console
<1>1. Ps3Axes(device) = [y \in Tables \cup Knobs |-> IF y \in Tables THEN Byte ELSE Bits10]
  BY DEF Ps3Axes
<1>2. target \in {"xbox360"}
  BY DEF Consoles, Universal
<1>3. CASE target = "xbox360"
  <2>1. device = "turntable" /\ target = "xbox360" /\ x \in DOMAIN Axes(device, target)
    BY <1>3
  <2> QED
    <3>1. /\ Axes(device, target)
               = [y \in Tables \cup Knobs |-> Int16]
          /\ Ps3Axes(device) = [y \in Tables \cup Knobs |-> IF y \in Tables THEN Byte ELSE Bits10]
          /\ AxisCopies(device, target)
               = Axis(Tables, 128, "centred")
                   \cup Axis(Knobs, 512, "centred")
      BY <1>1, <2>1 DEF Axes, Ps3Axes, AxisCopies, TurntableAxes, Xbox360Axes
    <3>2. \A c : /\ c \in Axis(Tables, 128, "centred") /\ c.to = x
                      <=> x \in Tables /\ c = Entry(x, 128, "centred")
                 /\ c \in Axis(Knobs, 512, "centred") /\ c.to = x
                      <=> x \in Knobs /\ c = Entry(x, 512, "centred")
      <4>1. \A c : c \in Axis(Tables, 128, "centred") /\ c.to = x
                  <=> x \in Tables /\ c = Entry(x, 128, "centred")
        <5>1. "tilt" \notin Tables
          BY DEF Tables
        <5> QED
          BY <5>1, EntriesOf
      <4>2. \A c : c \in Axis(Knobs, 512, "centred") /\ c.to = x
                  <=> x \in Knobs /\ c = Entry(x, 512, "centred")
        <5>1. "tilt" \notin Knobs
          BY DEF Knobs
        <5> QED
          BY <5>1, EntriesOf
      <4> QED
        BY <4>1, <4>2
    <3>3. CASE x \in Tables
      <4>1. \A c : c \in AxisCopies(device, target) /\ c.to = x <=> c = Entry(x, 128, "centred")
        BY <3>1, <3>2, <3>3 DEF Tables, Knobs
      <4>2. /\ Axes(device, target)[x] = Int16
            /\ Ps3Axes(device)[Origin(x)] = Byte /\ Origin(x) = x
        BY <2>1, <3>1, <3>3 DEF Origin, Tables, Knobs
      <4>3. Centre(Byte, x) = 128 /\ Centre(Int16, x) = 0
        BY <3>3, CentreMeans DEF Centred0, Sticks, Tables, Knobs
      <4>4. ~ Reversed(x)
        BY <2>1, <3>3 DEF Reversed
      <4> HIDE DEF device, target
      <4> QED
        BY <4>1, <4>2, <4>3, <4>4, CopiesPoint DEF CopiedBy, device, target
    <3> QED
      BY <2>1, <3>1, <3>3 DEF Uncopied, Origin, Tables, Knobs
<1> QED
  BY <1>2, <1>3

\* Every axis that both reports have and the code does not leave out is copied.
LEMMA AxisCopied ==
  ASSUME build.device \in Devices, build.console \in Consoles(build.device),
         ~ Universal(build.device, build.console),
         NEW x \in DOMAIN Axes(build.device, build.console),
         Origin(x) \in DOMAIN Ps3Axes(build.device), ~ Uncopied(x)
  PROVE  \E how : CopiedBy(x, how)
BY CopiedGamepad, CopiedGhGuitar, CopiedRbGuitar, CopiedLive,
   CopiedGhDrums, CopiedRbDrums, CopiedTurntable DEF Devices

\* Every axis rests somewhere.
LEMMA CentreIsInt == \A range, x : Centre(range, x) \in Int
<1> TAKE range, x
<1>1. /\ "accel" \notin Knobs /\ "accel" \notin Centred0 /\ Byte # Bits10
  BY RangesDiffer DEF Knobs, Centred0, Sticks, Tables
<1>2. CASE x = "accel"
  BY <1>1, <1>2 DEF Centre
<1>3. CASE x \in Knobs /\ range = Bits10
  BY <1>1, <1>3 DEF Centre
<1>4. CASE x \in Centred0 /\ range = Byte
  BY <1>1, <1>4 DEF Centre
<1>5. CASE x # "accel" /\ ~ (x \in Knobs /\ range = Bits10) /\ ~ (x \in Centred0 /\ range = Byte)
  BY <1>5 DEF Centre
<1> QED
  BY <1>2, <1>3, <1>4, <1>5

\* The fields of a controller's report.
Ranges(i) == IF build.source = "rf" THEN Ps3Axes(build.device)
             ELSE ReadRanges(build.device, hosts[i])

\* A deflection that is lost where the console's axis is coarser: the four bits of a drum's
\* pad on an Xbox One, the byte of a stick on a PlayStation.
Vanishes(i, y) ==
  LET v == reports[i].axis[y]
  IN  \/ /\ build.source = "rf" /\ build.device = "rb_drums" /\ build.console = "xboxone"
         /\ y \in Pads /\ v \in 1..15
      \/ /\ build.source = "usb" /\ build.console \in {"ps3", "ps4"} /\ y \in Sticks
         /\ hosts[i].console \in {"xbox360", "xboxone"} /\ v \in 1..255

\* A controller's report is any its kind can send, of deflections that can be seen (of the
\* USB port MergedAxes speaks for gamepads).
Deflected(i) ==
  \/ build.source = "usb" /\ build.device # "gamepad"
  \/ /\ build.source = "usb" => hosts[i] \in Hosts("gamepad")
     /\ DOMAIN reports[i].axis = DOMAIN Ranges(i)
     /\ \A y \in DOMAIN Ranges(i) : reports[i].axis[y] \in Ranges(i)[y] /\ ~ Vanishes(i, y)

\* The fields of a transmitter's axes.
LEMMA Ps3AxesAreInts ==
  ASSUME NEW device \in Devices, NEW y \in DOMAIN Ps3Axes(device)
  PROVE  Ps3Axes(device)[y] \in {Byte, Bits10} /\ Ps3Axes(device)[y] \subseteq Int
<1>1. Byte \subseteq Int /\ Bits10 \subseteq Int
  BY DEF Byte, Bits10
<1>2. Ps3Axes(device)[y] \in {Byte, Bits10}
  <2>1. CASE device = "gamepad"
    BY <2>1 DEF Ps3Axes
  <2>2. CASE device = "gh_guitar"
    BY <2>2 DEF Ps3Axes
  <2>3. CASE device = "rb_guitar"
    BY <2>3 DEF Ps3Axes
  <2>4. CASE device = "live"
    BY <2>4 DEF Ps3Axes
  <2>5. CASE device = "gh_drums"
    BY <2>5 DEF Ps3Axes
  <2>6. CASE device = "rb_drums"
    BY <2>6 DEF Ps3Axes
  <2>7. CASE device = "turntable"
    BY <2>7 DEF Ps3Axes
  <2> QED
    BY <2>1, <2>2, <2>3, <2>4, <2>5, <2>6, <2>7 DEF Devices
<1> QED
  BY <1>1, <1>2

\* One turn of a receiver's loop, for one axis.
LEMMA TransmitterMoves ==
  ASSUME build.source = "rf", build.device \in Devices,
         build.console \in Consoles(build.device), ~ Universal(build.device, build.console),
         Deflected(next), NEW after,
         after = ConvertPs3(out, reports[next], build.device, build.console, stray),
         DOMAIN out.axis = DOMAIN Axes(build.device, build.console),
         NEW x \in DOMAIN out.axis, Origin(x) \in DOMAIN Ps3Axes(build.device), ~ Uncopied(x)
  PROVE  /\ Claims(next, Origin(x)) =>
              Side(after.axis[x], Centre(Axes(build.device, build.console)[x], x))
                = Expected(next, Origin(x))
         /\ ~ Claims(next, Origin(x)) => after.axis[x] = out.axis[x]
<1> DEFINE y == Origin(x)
           v == reports[next].axis[y]
           from == Ps3Axes(build.device)[y]
           to == Axes(build.device, build.console)[x]
           rest == Centre(from, y)
           copies == AxisCopies(build.device, build.console)
           sign == IF Reversed(x) THEN -1 ELSE 1
<1>1. PICK how : CopiedBy(x, how)
  BY AxisCopied
<1>2. /\ \A c : c \in copies /\ c.to = x <=> c = Entry(x, rest, how)
      /\ Points(how, from, rest, to, Centre(to, x), sign)
      /\ how = "nibble" => /\ build.device = "rb_drums" /\ build.console = "xboxone"
                           /\ x \in Pads
  BY <1>1 DEF CopiedBy
<1>3. v \in from /\ v \in Int /\ rest \in Int
  BY Ps3AxesAreInts, CentreIsInt DEF Deflected, Ranges
<1>4. how = "nibble" => v = 0 \/ v >= 16
  <2> SUFFICES ASSUME how = "nibble" PROVE v = 0 \/ v >= 16
    OBVIOUS
  <2>1. y = x /\ x \in Pads /\ from = Byte
    BY <1>2 DEF Origin, Pads, Ps3Axes
  <2>2. v \notin 1..15
    BY <1>2, <2>1 DEF Deflected, Ranges, Vanishes
  <2>3. v \in Int /\ 0 <= v
    <3>1. v \in Byte
      BY <1>3, <2>1
    <3> HIDE DEF v
    <3> QED
      BY <3>1 DEF Byte
  <2> HIDE DEF v
  <2> QED
    BY <2>2, <2>3
<1>5. how = "nibble" => rest = 0
  <2> SUFFICES ASSUME how = "nibble" PROVE rest = 0
    OBVIOUS
  <2>1. y = x /\ x \in Pads /\ from = Byte
    BY <1>2 DEF Origin, Pads, Ps3Axes
  <2> QED
    BY <2>1, CentreMeans DEF Pads, Centred0, Sticks, Tables, Knobs
<1>6. after.axis[x] = AxisAfter(out, reports[next], x, to, copies)
  BY DEF ConvertPs3
<1>7. /\ Entry(x, rest, how).from = y /\ Entry(x, rest, how).rest = rest
      /\ Entry(x, rest, how).how = how
  BY DEF Entry
<1>8. CASE v # rest
  <2> DEFINE moved == {c \in copies : c.to = x /\ reports[next].axis[c.from] # c.rest}
  <2>1. moved = {Entry(x, rest, how)}
    BY <1>2, <1>7, <1>8
  <2>2. (CHOOSE d \in moved : TRUE) = Entry(x, rest, how)
    BY <2>1
  <2>3. after.axis[x] = Fit(to, Copied(how, v))
    BY <1>6, <1>7, <2>1, <2>2 DEF AxisAfter
  <2>4. Side(after.axis[x], Centre(to, x)) = IF sign = 1 THEN Side(v, rest) ELSE -Side(v, rest)
    BY <1>2, <1>3, <1>4, <1>5, <1>8, <2>3 DEF Points
  <2>5. Claims(next, y)
    BY <1>3, <1>8 DEF Claims, Deflection, InputRange, Side
  <2>6. Expected(next, y) = IF sign = 1 THEN Side(v, rest) ELSE -Side(v, rest)
    BY DEF Expected, Deflection, InputRange, Reversed, Origin
  <2> QED
    BY <2>4, <2>5, <2>6
<1>9. CASE v = rest
  <2>1. {c \in copies : c.to = x /\ reports[next].axis[c.from] # c.rest} = {}
    BY <1>2, <1>7, <1>9
  <2>2. after.axis[x] = out.axis[x]
    BY <1>6, <2>1 DEF AxisAfter
  <2>3. ~ Claims(next, y)
    BY <1>3, <1>9 DEF Claims, Deflection, InputRange, Side
  <2> QED
    BY <2>2, <2>3
<1> QED
  BY <1>8, <1>9

-----------------------------------------------------------------------------
(* The axes of the gamepads in the host port.                               *)

\* The move of one axis of a gamepad.
PadMove(host, x) ==
  [from |-> x, to |-> x,
   given |-> IF x \in Sticks
             THEN IF host.console \in {"ps3", "ps4"} THEN "ps3" ELSE "raw"
             ELSE IF host.console = "xboxone" THEN "raw" ELSE "shifted",
   macro |-> IF x \in Sticks THEN "normal" ELSE "trigger"]

\* Each axis of a gamepad is written by its own move.
LEMMA PadMovesOf ==
  ASSUME NEW host, NEW m
  PROVE  /\ m \in HostMoves("gamepad", host) <=>
              \E y \in Sticks \cup Triggers : m = PadMove(host, y)
         /\ \A target : \A x \in Sticks \cup Triggers :
              m \in HostMoves("gamepad", host) /\ Field(target, m.to) = x <=> m = PadMove(host, x)
<1>1. "tilt" \notin Sticks \cup Triggers /\ "tilt_pc" \notin Sticks \cup Triggers
      /\ Sticks \cap Triggers = {}
  BY DEF Sticks, Triggers
<1>2. m \in HostMoves("gamepad", host) <=> \E y \in Sticks \cup Triggers : m = PadMove(host, y)
  <2> DEFINE stick == IF host.console \in {"ps3", "ps4"} THEN "ps3" ELSE "raw"
             trigger == IF host.console = "xboxone" THEN "raw" ELSE "shifted"
  <2>1. HostMoves("gamepad", host)
          = Moves(Sticks, stick, "normal") \cup Moves(Triggers, trigger, "trigger")
    BY DEF HostMoves, GamepadMoves
  <2>2. m \in Moves(Sticks, stick, "normal") <=> \E y \in Sticks : m = PadMove(host, y)
    BY DEF Moves, PadMove
  <2>3. m \in Moves(Triggers, trigger, "trigger") <=> \E y \in Triggers : m = PadMove(host, y)
    BY <1>1 DEF Moves, PadMove
  <2> QED
    BY <2>1, <2>2, <2>3
<1>3. \A y : PadMove(host, y).to = y
  BY DEF PadMove
<1> QED
  BY <1>1, <1>2, <1>3 DEF Field

\* What a gamepad in the host port sends.
LEMMA PadRanges ==
  ASSUME NEW host \in Hosts("gamepad")
  PROVE  /\ host.console \in {"ps3", "ps4", "xbox360", "xboxone"}
         /\ DOMAIN ReadRanges("gamepad", host) = Sticks \cup Triggers
         /\ \A x \in Sticks \cup Triggers : ReadRanges("gamepad", host)[x] = HostRange(host, x)
         /\ \A x \in Sticks : HostRange(host, x) =
              IF host.console \in {"xbox360", "xboxone"} THEN Int16 ELSE Byte
         /\ \A x \in Triggers : HostRange(host, x) =
              IF host.console = "xboxone" THEN Bits10 ELSE Byte
<1>1. host.console \in {"ps3", "ps4", "xbox360", "xboxone"}
  BY DEF Hosts, Host
<1>2. {m.from : m \in HostMoves("gamepad", host)} = Sticks \cup Triggers
  <2>1. \A x \in Sticks \cup Triggers :
          PadMove(host, x) \in HostMoves("gamepad", host) /\ PadMove(host, x).from = x
    BY PadMovesOf DEF PadMove
  <2>2. \A m \in HostMoves("gamepad", host) :
          \E x \in Sticks \cup Triggers : m = PadMove(host, x)
    BY PadMovesOf
  <2> QED
    BY <2>1, <2>2
<1>3. ASSUME NEW x \in Sticks
      PROVE  HostRange(host, x) = IF host.console \in {"xbox360", "xboxone"} THEN Int16 ELSE Byte
  BY <1>1 DEF HostRange, Sticks, Triggers, Knobs, Pads
<1>4. ASSUME NEW x \in Triggers
      PROVE  HostRange(host, x) = IF host.console = "xboxone" THEN Bits10 ELSE Byte
  BY <1>1 DEF HostRange, Sticks, Triggers, Knobs, Pads
<1> QED
  BY <1>1, <1>2, <1>3, <1>4 DEF ReadRanges

\* The arithmetic of COPY_NORMAL.
LEMMA SticksWritten ==
  ASSUME NEW target \in {"xbox360", "xboxone", "ps3", "ps4"}
  PROVE  /\ \A v \in Byte :
              /\ Writes("normal", "ps3", target, "gamepad", v)
              /\ Fit(IF target \in {"ps3", "ps4"} THEN Byte ELSE Int16,
                     Written("normal", "ps3", target, v))
                   = IF target \in {"ps3", "ps4"} THEN v ELSE (v - 128) * 256
         /\ \A v \in Int16 :
              /\ Writes("normal", "raw", target, "gamepad", v) <=> v # 0
              /\ target \notin {"ps3", "ps4"} =>
                   Fit(Int16, Written("normal", "raw", target, v)) = v
              /\ target \in {"ps3", "ps4"} =>
                   Fit(Byte, Written("normal", "raw", target, v)) = (v \div 256) + 128
<1>1. ASSUME NEW v \in Byte
      PROVE  /\ Writes("normal", "ps3", target, "gamepad", v)
             /\ Fit(IF target \in {"ps3", "ps4"} THEN Byte ELSE Int16,
                    Written("normal", "ps3", target, v))
                   = IF target \in {"ps3", "ps4"} THEN v ELSE (v - 128) * 256
  <2>1. v \in Int /\ 0 <= v /\ v <= 255
    BY DEF Byte
  <2>2. Expression("ps3", v) = (v + 128) * 256
    BY DEF Expression
  <2>3. Writes("normal", "ps3", target, "gamepad", v)
    BY <2>1, <2>2 DEF Writes
  <2>4. CASE target \in {"ps3", "ps4"}
    <3>1. Written("normal", "ps3", target, v) = ((v + 128) * 256) \div 256 + 128
      BY <2>2, <2>4 DEF Written
    <3>2. ((v + 128) * 256) \div 256 = v + 128
      BY <2>1
    <3>3. Written("normal", "ps3", target, v) = v + 256
      BY <2>1, <3>1, <3>2
    <3>4. Fit(Byte, v + 256) = (v + 256) % 256
      BY RangesDiffer DEF Fit
    <3>5. (v + 256) % 256 = v
      BY <2>1
    <3> QED
      BY <2>3, <2>4, <3>3, <3>4, <3>5
  <2>5. CASE target \notin {"ps3", "ps4"}
    <3>1. Written("normal", "ps3", target, v) = (v + 128) * 256
      BY <2>2, <2>5 DEF Written
    <3>2. Fit(Int16, (v + 128) * 256) = ((((v + 128) * 256) + 32768) % 65536) - 32768
      BY RangesDiffer DEF Fit
    <3>3. (((v + 128) * 256) + 32768) % 65536 = v * 256
      BY <2>1
    <3>4. v * 256 - 32768 = (v - 128) * 256
      BY <2>1
    <3> QED
      BY <2>3, <2>5, <3>1, <3>2, <3>3, <3>4
  <2> QED
    BY <2>4, <2>5
<1>2. ASSUME NEW v \in Int16
      PROVE  /\ Writes("normal", "raw", target, "gamepad", v) <=> v # 0
             /\ target \notin {"ps3", "ps4"} =>
                  Fit(Int16, Written("normal", "raw", target, v)) = v
             /\ target \in {"ps3", "ps4"} =>
                  Fit(Byte, Written("normal", "raw", target, v)) = (v \div 256) + 128
  <2>0. Expression("raw", v) = v
    BY DEF Expression
  <2>1. v \in Int /\ -32768 <= v /\ v <= 32767 /\ Expression("raw", v) = v
    BY <2>0, Int16Bounds
  <2>2. Writes("normal", "raw", target, "gamepad", v) <=> v # 0
    BY <2>1 DEF Writes
  <2>3. CASE target \in {"ps3", "ps4"}
    <3>1. Written("normal", "raw", target, v) = (v \div 256) + 128
      BY <2>1, <2>3 DEF Written
    <3>2. (v \div 256) + 128 \in Int /\ 0 <= (v \div 256) + 128 /\ (v \div 256) + 128 <= 255
      BY <2>1
    <3> QED
      BY <2>2, <2>3, <3>1, <3>2, FitKeeps
  <2>4. CASE target \notin {"ps3", "ps4"}
    <3>1. Written("normal", "raw", target, v) = v
      BY <2>1, <2>4 DEF Written
    <3> QED
      BY <2>1, <2>2, <2>4, <3>1, FitKeeps
  <2> QED
    BY <2>3, <2>4
<1> QED
  BY <1>1, <1>2

\* The same of COPY_TRIGGER; ten bits fit into the console's field on an Xbox One only.
LEMMA TriggersWritten ==
  ASSUME NEW target \in {"xbox360", "xboxone", "ps3", "ps4"}
  PROVE  /\ \A v \in Byte :
              /\ Writes("trigger", "shifted", target, "gamepad", v) <=> v # 0
              /\ Fit(IF target = "xboxone" THEN Uint16 ELSE Byte,
                     Written("trigger", "shifted", target, v))
                   = IF target = "xboxone" THEN v * 256 ELSE v
         /\ \A v \in Bits10 :
              /\ Writes("trigger", "raw", "xboxone", "gamepad", v) <=> v # 0
              /\ Fit(Uint16, Written("trigger", "raw", "xboxone", v)) = v
<1>1. ASSUME NEW v \in Byte
      PROVE  /\ Writes("trigger", "shifted", target, "gamepad", v) <=> v # 0
             /\ Fit(IF target = "xboxone" THEN Uint16 ELSE Byte,
                    Written("trigger", "shifted", target, v))
                  = IF target = "xboxone" THEN v * 256 ELSE v
  <2>1. v \in Int /\ 0 <= v /\ v <= 255 /\ Expression("shifted", v) = v * 256
    BY DEF Byte, Expression
  <2>2. Writes("trigger", "shifted", target, "gamepad", v) <=> v # 0
    BY <2>1 DEF Writes
  <2>3. CASE target = "xboxone"
    <3>1. Written("trigger", "shifted", target, v) = v * 256
      BY <2>1, <2>3 DEF Written
    <3> QED
      BY <2>1, <2>2, <2>3, <3>1, FitKeeps
  <2>4. CASE target # "xboxone"
    <3>1. Written("trigger", "shifted", target, v) = (v * 256) \div 256
      BY <2>1, <2>4 DEF Written
    <3>2. (v * 256) \div 256 = v
      BY <2>1
    <3> QED
      BY <2>1, <2>2, <2>4, <3>1, <3>2, FitKeeps
  <2> QED
    BY <2>3, <2>4
<1>2. ASSUME NEW v \in Bits10
      PROVE  /\ Writes("trigger", "raw", "xboxone", "gamepad", v) <=> v # 0
             /\ Fit(Uint16, Written("trigger", "raw", "xboxone", v)) = v
  <2>1. v \in Int /\ 0 <= v /\ v <= 1023 /\ Expression("raw", v) = v
    BY DEF Bits10, Expression
  <2>2. Writes("trigger", "raw", "xboxone", "gamepad", v) <=> v # 0
    BY <2>1 DEF Writes
  <2>3. Written("trigger", "raw", "xboxone", v) = v
    BY <2>1 DEF Written
  <2> QED
    BY <2>1, <2>2, <2>3, FitKeeps
<1> QED
  BY <1>1, <1>2

\* The buttons aside, one turn of the loop over the host port, for one axis of a gamepad.
LEMMA PadWritten ==
  ASSUME build.device = "gamepad", hosts[next] \in Hosts("gamepad"),
         build.console \in {"xbox360", "xboxone", "ps3", "ps4"},
         NEW after,
         after = ConvertHost(out, reports[next], build.device, hosts[next], build.console, stray),
         NEW x \in DOMAIN out.axis, x \in Sticks \cup Triggers
  PROVE  LET v == reports[next].axis[x]
             m == PadMove(hosts[next], x)
         IN  after.axis[x] =
               IF Writes(m.macro, m.given, build.console, "gamepad", v)
               THEN Fit(Axes(build.device, build.console)[x],
                        Written(m.macro, m.given, build.console, v))
               ELSE out.axis[x]
<1> DEFINE host == hosts[next]
           target == build.console
           v == reports[next].axis[x]
           m == PadMove(host, x)
           here == WritingMoves(reports[next], "gamepad", host, target, x)
           n == CHOOSE k \in here : TRUE
<1>1. x # "strumBar"
  BY DEF Sticks, Triggers
<1>2. m.from = x
  BY DEF PadMove
<1>3. \A k : k \in here <=> k = m /\ Writes(m.macro, m.given, target, "gamepad", v)
  <2>1. \A k : k \in HostMoves("gamepad", host) /\ Field(target, k.to) = x <=> k = m
    BY PadMovesOf, SMTT(30)
  <2>2. \A k : k \in here <=>
                 /\ k \in HostMoves("gamepad", host) /\ Field(target, k.to) = x
                 /\ Writes(k.macro, k.given, target, "gamepad", reports[next].axis[k.from])
    BY DEF WritingMoves
  <2> HIDE DEF here, m
  <2> QED
    BY <1>2, <2>1, <2>2
<1>4. after.axis[x] = IF here = {} THEN out.axis[x]
                      ELSE Fit(Axes("gamepad", target)[x],
                               Written(n.macro, n.given, target, reports[next].axis[n.from]))
  <2>1. PICK down : after.axis[x] =
                      HostAxisAfter(down, out.axis[x], reports[next], "gamepad", host, target, x)
    BY DEF ConvertHost
  <2> QED
    BY <1>1, <2>1 DEF HostAxisAfter
<1>5. CASE Writes(m.macro, m.given, target, "gamepad", v)
  <2> HIDE DEF here, m
  <2>1. here = {m}
    BY <1>3, <1>5
  <2>2. n = m
    BY <2>1
  <2> HIDE DEF n
  <2>3. after.axis[x] = Fit(Axes("gamepad", target)[x], Written(m.macro, m.given, target, v))
    BY <1>2, <1>4, <2>1, <2>2
  <2> QED
    BY <1>5, <2>3 DEF m
<1>6. CASE ~ Writes(m.macro, m.given, target, "gamepad", v)
  <2> HIDE DEF here
  <2>1. here = {}
    BY <1>3, <1>6
  <2> QED
    BY <1>4, <1>6, <2>1
<1> QED
  BY <1>5, <1>6

\* A trigger with ten bits, for a console with fewer.
ShiftedAway(x) ==
  /\ build.source = "usb" /\ x \in Triggers /\ build.console # "xboxone"
  /\ \E i \in Controllers : hosts[i].console = "xboxone"

\* One turn of the loop over the host port, for one axis of a gamepad.
LEMMA PadMoves ==
  ASSUME build.source = "usb", build.device = "gamepad",
         build.console \in {"xbox360", "xboxone", "ps3", "ps4"},
         next \in Controllers, Deflected(next), NEW after,
         after = ConvertHost(out, reports[next], build.device, hosts[next], build.console, stray),
         DOMAIN out.axis = DOMAIN Axes(build.device, build.console),
         NEW x \in DOMAIN out.axis, x \in Sticks \cup Triggers, ~ ShiftedAway(x)
  PROVE  /\ Claims(next, x) =>
              Side(after.axis[x], Centre(Axes(build.device, build.console)[x], x))
                = Expected(next, x)
         /\ ~ Claims(next, x) => after.axis[x] = out.axis[x]
<1> DEFINE host == hosts[next]
           target == build.console
           v == reports[next].axis[x]
           m == PadMove(host, x)
           to == Axes(build.device, target)[x]
           rest == Centre(HostRange(host, x), x)
<1>1. /\ host \in Hosts("gamepad") /\ host.console \in {"ps3", "ps4", "xbox360", "xboxone"}
      /\ v \in HostRange(host, x) /\ ~ Vanishes(next, x)
  BY PadRanges DEF Deflected, Ranges
<1>2. after.axis[x] = IF Writes(m.macro, m.given, target, "gamepad", v)
                      THEN Fit(to, Written(m.macro, m.given, target, v))
                      ELSE out.axis[x]
  BY <1>1, PadWritten
<1>3. /\ Expected(next, x) = Side(v, rest)
      /\ Claims(next, x) <=> \/ Side(v, rest) # 0
                             \/ x \in Sticks /\ host.console \in {"ps3", "ps4"}
  BY DEF Expected, Claims, Deflection, InputRange
<1>4. /\ Sticks \cap Triggers = {}
      /\ \A y \in Sticks : y # "accel" /\ y \in Centred0 /\ y \notin Knobs
      /\ \A y \in Triggers : y # "accel" /\ y \notin Centred0 /\ y \notin Knobs
  BY DEF Sticks, Triggers, Centred0, Knobs, Tables
<1>5. CASE x \in Sticks
  <2>1. to = (IF target \in {"ps3", "ps4"} THEN Byte ELSE Int16)
    BY <1>5 DEF Axes, Ps3Axes, Ps4Axes, Xbox360Axes, XboxOneAxes
  <2>2. Centre(Byte, x) = 128 /\ Centre(Int16, x) = 0
    BY <1>4, <1>5, CentreMeans
  <2>3. CASE host.console \in {"ps3", "ps4"}
    <3>1. v \in Byte /\ HostRange(host, x) = Byte
      BY <1>1, <1>5, <2>3, PadRanges
    <3>2. m.macro = "normal" /\ m.given = "ps3"
      BY <1>5, <2>3 DEF PadMove
    <3>3. after.axis[x] = IF target \in {"ps3", "ps4"} THEN v ELSE (v - 128) * 256
      BY <1>2, <2>1, <3>1, <3>2, SticksWritten
    <3>4. Side(after.axis[x], Centre(to, x)) = Side(v, 128)
      <4>1. v \in Int
        BY <3>1 DEF Byte
      <4> QED
        BY <4>1, <2>1, <2>2, <3>3 DEF Side
    <3> QED
      BY <1>3, <1>5, <2>2, <2>3, <3>1, <3>4
  <2>4. CASE host.console \in {"xbox360", "xboxone"}
    <3>1. v \in Int16 /\ HostRange(host, x) = Int16
      BY <1>1, <1>5, <2>4, PadRanges
    <3>2. m.macro = "normal" /\ m.given = "raw"
      BY <1>5, <2>4 DEF PadMove
    <3>3. v \in Int /\ (target \in {"ps3", "ps4"} => v \notin 1..255)
      <4>1. target \in {"ps3", "ps4"} => v \notin 1..255
        BY <1>1, <1>5, <2>4 DEF Vanishes
      <4> QED
        BY <3>1, <4>1, RangesAreInts
    <3>4. CASE v = 0
      <4>1. after.axis[x] = out.axis[x]
        BY <1>2, <3>1, <3>2, <3>4, SticksWritten
      <4> QED
        BY <1>3, <2>2, <2>4, <3>1, <3>4, <4>1 DEF Side
    <3>5. CASE v # 0
      <4>1. after.axis[x] = IF target \in {"ps3", "ps4"} THEN (v \div 256) + 128 ELSE v
        BY <1>2, <2>1, <3>1, <3>2, <3>5, SticksWritten
      <4>2. target \in {"ps3", "ps4"} => Side((v \div 256) + 128, 128) = Side(v, 0)
        BY <3>3, <3>5, SMTT(30) DEF Side
      <4>3. Side(after.axis[x], Centre(to, x)) = Side(v, 0)
        BY <2>1, <2>2, <4>1, <4>2
      <4>4. Side(v, 0) # 0
        BY <3>3, <3>5, SMTT(30) DEF Side
      <4> QED
        BY <1>3, <2>2, <3>1, <4>3, <4>4
    <3> QED
      BY <3>4, <3>5
  <2> QED
    BY <1>1, <2>3, <2>4
<1>6. CASE x \in Triggers
  <2>1. to = (IF target = "xboxone" THEN Uint16 ELSE Byte)
    BY <1>4, <1>6 DEF Axes, Ps3Axes, Ps4Axes, Xbox360Axes, XboxOneAxes
  <2>2. Centre(Byte, x) = 0 /\ Centre(Uint16, x) = 0 /\ Centre(Bits10, x) = 0
    BY <1>4, <1>6, CentreMeans DEF Centre
  <2>3. CASE host.console # "xboxone"
    <3>1. v \in Byte /\ HostRange(host, x) = Byte
      BY <1>1, <1>6, <2>3, PadRanges
    <3>2. m.macro = "trigger" /\ m.given = "shifted"
      BY <1>4, <1>6, <2>3 DEF PadMove
    <3>3. after.axis[x] = IF v = 0 THEN out.axis[x]
                          ELSE IF target = "xboxone" THEN v * 256 ELSE v
      BY <1>2, <2>1, <3>1, <3>2, TriggersWritten
    <3>4. v \in Int /\ v >= 0
      BY <3>1 DEF Byte
    <3>5. v # 0 => Side(after.axis[x], Centre(to, x)) = Side(v, 0) /\ Side(v, 0) # 0
      BY <2>1, <2>2, <3>3, <3>4 DEF Side
    <3>6. v = 0 => Side(v, 0) = 0
      BY DEF Side
    <3> QED
      BY <1>3, <1>4, <1>6, <2>2, <3>1, <3>3, <3>5, <3>6
  <2>4. CASE host.console = "xboxone"
    <3>1. v \in Bits10 /\ HostRange(host, x) = Bits10
      BY <1>1, <1>6, <2>4, PadRanges
    <3>2. m.macro = "trigger" /\ m.given = "raw"
      BY <1>4, <1>6, <2>4 DEF PadMove
    <3>0. target = "xboxone"
      BY <1>6, <2>4 DEF ShiftedAway
    <3>3. after.axis[x] = IF v = 0 THEN out.axis[x] ELSE v
      BY <1>2, <2>1, <3>0, <3>1, <3>2, TriggersWritten
    <3>4. v \in Int /\ v >= 0
      <4>1. \A w \in Bits10 : w \in Int /\ w >= 0
        BY DEF Bits10
      <4> QED
        BY <3>1, <4>1
    <3>5. v # 0 => Side(after.axis[x], Centre(to, x)) = Side(v, 0) /\ Side(v, 0) # 0
      BY <2>1, <2>2, <3>0, <3>3, <3>4 DEF Side
    <3>6. v = 0 => Side(v, 0) = 0
      BY DEF Side
    <3> QED
      BY <1>3, <1>4, <1>6, <2>2, <3>1, <3>3, <3>5, <3>6
  <2> QED
    BY <2>3, <2>4
<1> QED
  BY <1>5, <1>6

-----------------------------------------------------------------------------
(* The axes of all of them.                                                 *)

\* Any call: any number of controllers, whose axes stand anywhere but where the console's
\* report cannot show it.
AnyDeflections ==
  /\ build \in Builds
  /\ Len(reports) \in Nat \ {0}
  /\ \A i \in Controllers : Deflected(i)
  /\ out = Blank(build, earlier)
  /\ next = 1

\* The builds whose axes MergedAxes speaks of.
OfAxes == build.source = "usb" => build.device = "gamepad"

\* A transmitter's report that is copied as a whole.
Whole == build.source = "rf" /\ Universal(build.device, build.console)

LeftOut(x) == (build.source = "rf" /\ Uncopied(x)) \/ ShiftedAway(x)
Shared(x) == \E i \in Controllers : Origin(x) \in DOMAIN reports[i].axis

\* The last that claims the axis, of the controllers added so far.
LastSoFar(i, y) == /\ i \in 1..next - 1 /\ Claims(i, y)
                   /\ \A j \in 1..next - 1 : Claims(j, y) => j <= i

\* MergedAxes for one axis, of the controllers added so far.
AxisSoFar(x) ==
  \/ /\ \A i \in 1..next - 1 : ~ Claims(i, Origin(x))
     /\ out.axis[x] = BlankAxis(build.source, build.device, build.console, x)
  \/ \E i \in 1..next - 1 :
        /\ LastSoFar(i, Origin(x))
        /\ Side(out.axis[x], Centre(Axes(build.device, build.console)[x], x))
             = Expected(i, Origin(x))

AxesSoFar ==
  /\ Whole /\ next > 1 => \A x \in DOMAIN out.axis : out.axis[x] = reports[next - 1].axis[x]
  /\ ~ Whole /\ OfAxes =>
       \A x \in DOMAIN out.axis : ~ LeftOut(x) /\ Shared(x) => AxisSoFar(x)

AxesInv ==
  /\ build \in Builds \/ Rebuilt
  /\ Len(reports) \in Nat \ {0} /\ next \in 1..Len(reports) + 1
  /\ \A i \in Controllers : Deflected(i)
  /\ DOMAIN out.axis = DOMAIN Axes(build.device, build.console)
  /\ AxesSoFar

\* Nothing but `out` and the place in the loop changes what the invariant says of the call.
LEMMA CallStays ==
  ASSUME UNCHANGED <<build, hosts, reports>>
  PROVE  /\ Controllers' = Controllers /\ (Rebuilt' <=> Rebuilt)
         /\ (Whole' <=> Whole) /\ (OfAxes' <=> OfAxes)
         /\ \A i : Deflected(i)' <=> Deflected(i)
         /\ \A i, y : (Claims(i, y)' <=> Claims(i, y)) /\ Expected(i, y)' = Expected(i, y)
         /\ \A x : (LeftOut(x)' <=> LeftOut(x)) /\ (Shared(x)' <=> Shared(x))
<1>1. Controllers' = Controllers /\ (Rebuilt' <=> Rebuilt)
      /\ (Whole' <=> Whole) /\ (OfAxes' <=> OfAxes)
  BY DEF Controllers, Rebuilt, Whole, OfAxes
<1>2. \A i : Deflected(i)' <=> Deflected(i)
  BY DEF Deflected, Ranges, Vanishes
<1>3. \A i, y : Deflection(i, y)' = Deflection(i, y)
  BY DEF Deflection, InputRange
<1>4. \A i, y : (Claims(i, y)' <=> Claims(i, y)) /\ Expected(i, y)' = Expected(i, y)
  BY <1>3 DEF Claims, Expected
<1>5. \A x : (LeftOut(x)' <=> LeftOut(x)) /\ (Shared(x)' <=> Shared(x))
  BY <1>1 DEF LeftOut, Shared, Uncopied, ShiftedAway
<1> QED
  BY <1>1, <1>2, <1>4, <1>5

\* A controller is added: one axis.
LEMMA AxisStep ==
  ASSUME AxesInv, Step, ~ Whole, OfAxes, NEW x \in DOMAIN out.axis, ~ LeftOut(x), Shared(x)
  PROVE  /\ Claims(next, Origin(x)) =>
              Side(out'.axis[x], Centre(Axes(build.device, build.console)[x], x))
                = Expected(next, Origin(x))
         /\ ~ Claims(next, Origin(x)) => out'.axis[x] = out.axis[x]
<1>1. build \in Builds
  BY DEF AxesInv, Rebuilt, Whole, Universal
<1>2. /\ build.source \in {"rf", "usb"} /\ build.device \in Devices
      /\ build.console \in Consoles(build.device)
      /\ build.source = "usb" => build.console # "universal"
  BY <1>1, MergeAssumption DEF Builds
<1>3. next \in Controllers /\ Deflected(next)
      /\ DOMAIN out.axis = DOMAIN Axes(build.device, build.console)
  BY DEF AxesInv, Step, Controllers
<1>4. PICK i \in Controllers : Origin(x) \in DOMAIN reports[i].axis
  BY DEF Shared
<1>5. Deflected(i)
  BY DEF AxesInv
<1>6. CASE build.source = "rf"
  <2>1. Origin(x) \in DOMAIN Ps3Axes(build.device)
    BY <1>4, <1>5, <1>6 DEF Deflected, Ranges
  <2>2. out' = ConvertPs3(out, reports[next], build.device, build.console, stray)
    BY <1>6 DEF Step
  <2>3. ~ Universal(build.device, build.console) /\ ~ Uncopied(x)
    BY <1>6 DEF Whole, LeftOut
  <2> QED
    BY <1>2, <1>3, <1>6, <2>1, <2>2, <2>3, TransmitterMoves
<1>7. CASE build.source = "usb"
  <2>1. build.device = "gamepad" /\ hosts[i] \in Hosts("gamepad")
    BY <1>5, <1>7 DEF OfAxes, Deflected
  <2>2. Origin(x) \in Sticks \cup Triggers
    BY <1>4, <1>5, <1>7, <2>1, PadRanges DEF Deflected, Ranges
  <2>3. Origin(x) = x
    BY <2>2 DEF Origin, Sticks, Triggers
  <2>4. build.console \in {"xbox360", "xboxone", "ps3", "ps4"}
    BY <1>2, <1>7, <2>1 DEF Consoles
  <2>5. out' = ConvertHost(out, reports[next], build.device, hosts[next], build.console, stray)
    BY <1>7 DEF Step
  <2>6. ~ ShiftedAway(x)
    BY DEF LeftOut
  <2> QED
    BY <1>3, <1>7, <2>1, <2>2, <2>3, <2>4, <2>5, <2>6, PadMoves
<1> QED
  BY <1>2, <1>6, <1>7

\* A controller is added: all axes.
LEMMA AxesStep ==
  ASSUME AxesInv, Step
  PROVE  AxesInv'
<1>1. /\ next \in Controllers /\ next' = next + 1
      /\ UNCHANGED <<build, hosts, reports, stray, earlier>>
  BY DEF AxesInv, Step, Controllers
<1>2. next \in Nat /\ next > 0 /\ next' - 1 = next /\ next' > 1
  BY <1>1 DEF AxesInv
<1>3. DOMAIN out'.axis = DOMAIN out.axis
  <2>1. CASE build.source = "rf"
    BY <2>1 DEF Step, ConvertPs3
  <2>2. CASE build.source # "rf"
    BY <2>2 DEF Step, ConvertHost
  <2> QED
    BY <2>1, <2>2
<1>4. ASSUME Whole, NEW x \in DOMAIN out.axis
      PROVE  out'.axis[x] = reports[next].axis[x]
  BY <1>4 DEF Whole, Step, ConvertPs3
<1>5. ASSUME ~ Whole, OfAxes, NEW x \in DOMAIN out.axis, ~ LeftOut(x), Shared(x)
      PROVE  AxisSoFar(x)'
  <2> DEFINE y == Origin(x)
             right(i) == Side(out'.axis[x], Centre(Axes(build.device, build.console)[x], x))
                           = Expected(i, y)
  <2>1. \A i : Claims(i, y)' <=> Claims(i, y)
    BY <1>1, CallStays
  <2>2. \A i : Expected(i, y)' = Expected(i, y)
    BY <1>1, CallStays
  <2>3. \A i : i \in 1..next' - 1 <=> i \in 1..next - 1 \/ i = next
    BY <1>2
  <2>4. AxisSoFar(x)' <=>
          \/ /\ \A i \in 1..next' - 1 : ~ Claims(i, y)
             /\ out'.axis[x] = BlankAxis(build.source, build.device, build.console, x)
          \/ \E i \in 1..next' - 1 : LastSoFar(i, y)' /\ right(i)
    BY <1>1, <2>1, <2>2 DEF AxisSoFar, BlankAxis
  <2>5. \A i : LastSoFar(i, y)' <=> /\ i \in 1..next' - 1 /\ Claims(i, y)
                                    /\ \A j \in 1..next' - 1 : Claims(j, y) => j <= i
    BY <2>1 DEF LastSoFar
  <2>6. CASE Claims(next, y)
    <3>1. PICK n : n = next
      OBVIOUS
    <3>2. right(n)
      BY <1>5, <2>6, <3>1, AxisStep
    <3>3. n \in 1..next' - 1 /\ \A j \in 1..next' - 1 : j <= n
      BY <1>2, <3>1
    <3>4. LastSoFar(n, y)'
      BY <2>5, <2>6, <3>1, <3>3
    <3> QED
      BY <2>4, <3>2, <3>3, <3>4
  <2>7. CASE ~ Claims(next, y)
    <3>1. out'.axis[x] = out.axis[x]
      BY <1>5, <2>7, AxisStep
    <3>2. AxisSoFar(x)
      BY <1>5 DEF AxesInv, AxesSoFar
    <3>3. \A i \in 1..next - 1 : LastSoFar(i, y) => LastSoFar(i, y)'
      BY <2>3, <2>5, <2>7 DEF LastSoFar
    <3>4. CASE \A i \in 1..next - 1 : ~ Claims(i, y)
      <4>1. out.axis[x] = BlankAxis(build.source, build.device, build.console, x)
        BY <3>2, <3>4 DEF AxisSoFar, LastSoFar
      <4> QED
        BY <2>3, <2>4, <2>7, <3>1, <3>4, <4>1
    <3>5. CASE ~ \A i \in 1..next - 1 : ~ Claims(i, y)
      <4>1. PICK i \in 1..next - 1 :
              /\ LastSoFar(i, y)
              /\ Side(out.axis[x], Centre(Axes(build.device, build.console)[x], x))
                   = Expected(i, y)
        BY <3>2, <3>5 DEF AxisSoFar
      <4>2. right(i)
        BY <3>1, <4>1
      <4>3. LastSoFar(i, y)' /\ i \in 1..next' - 1
        BY <2>3, <3>3, <4>1
      <4> QED
        BY <2>4, <4>2, <4>3
    <3> QED
      BY <3>4, <3>5
  <2> QED
    BY <2>6, <2>7
<1>6. AxesSoFar'
  <2>1. Whole' => \A x \in DOMAIN out'.axis : out'.axis[x] = reports'[next' - 1].axis[x]
    BY <1>1, <1>2, <1>3, <1>4, CallStays
  <2>2. ~ Whole' /\ OfAxes' =>
          \A x \in DOMAIN out'.axis : ~ LeftOut(x)' /\ Shared(x)' => AxisSoFar(x)'
    BY <1>1, <1>3, <1>5, CallStays
  <2> QED
    BY <2>1, <2>2 DEF AxesSoFar
<1>7. (Axes(build.device, build.console))' = Axes(build.device, build.console)
  BY <1>1
<1>8. next' \in 1..Len(reports) + 1
  BY <1>1 DEF AxesInv, Controllers
<1>9. \A i \in Controllers' : Deflected(i)'
  BY <1>1, CallStays DEF AxesInv
<1> QED
  BY <1>1, <1>3, <1>6, <1>7, <1>8, <1>9, CallStays DEF AxesInv

\* A receiver starts over, from a blank report.
LEMMA AxesOverwrite ==
  ASSUME AxesInv, Overwrite
  PROVE  AxesInv'
<1>1. /\ build.source = "rf" /\ build.console = "xboxone" /\ build.device \in Devices
      /\ build' = [build EXCEPT !.console = "universal"]
      /\ out' = Blank(build', {}) /\ next' = 1
      /\ UNCHANGED <<hosts, reports, stray, earlier>>
  BY MergeAssumption DEF Overwrite, AxesInv, Rebuilt, Builds
<1>2. build'.source = "rf" /\ build'.device = build.device /\ build'.console = "universal"
  <2>1. build \in Builds
    BY <1>1 DEF AxesInv, Rebuilt
  <2> QED
    BY <1>1, <2>1 DEF Builds
<1>3. \A i : Deflected(i) => Deflected(i)'
  BY <1>1, <1>2 DEF Deflected, Ranges, Vanishes
<1>4. AxesSoFar'
  BY <1>1, <1>2 DEF AxesSoFar, Whole, Universal
<1>5. DOMAIN out'.axis = DOMAIN Axes(build'.device, build'.console)
  BY <1>1 DEF Blank
<1> QED
  BY <1>1, <1>2, <1>3, <1>4, <1>5 DEF AxesInv, Rebuilt, Controllers

\* A blank axis rests, but for the sticks of a receiver's PS3 gamepad.
LEMMA BlankRests ==
  ASSUME build \in Builds, ~ Whole, OfAxes,
         NEW x \in DOMAIN Axes(build.device, build.console),
         ~ (build.source = "rf" /\ build.device = "gamepad" /\ build.console = "ps3" /\ x \in Sticks)
  PROVE  BlankAxis(build.source, build.device, build.console, x) = Rest(x)
<1>1. /\ build.source \in {"rf", "usb"} /\ build.device \in Devices
      /\ build.console \in Consoles(build.device)
      /\ build.source = "usb" => build.console # "universal"
  BY MergeAssumption DEF Builds
<1>2. /\ build.console \in {"xbox360", "xboxone", "ps3", "ps4"}
      /\ build.console = "ps3" => build.device = "gamepad"
  BY <1>1 DEF Consoles, Whole, OfAxes, Universal
<1>3. CASE build.console = "xboxone"
  BY <1>3 DEF BlankAxis, Rest
<1>4. CASE build.console = "ps4"
  BY <1>4 DEF BlankAxis, Rest
<1>5. CASE build.console = "ps3"
  <2>1. x \in Sticks \cup Triggers \cup Pressures /\ Axes(build.device, build.console)[x] = Byte
    BY <1>2, <1>5 DEF Axes, Ps3Axes
  <2>2. x \notin {"slider", "pickup"}
    BY <2>1 DEF Sticks, Triggers, Pressures
  <2>3. Rest(x) = Centre(Byte, x)
    BY <1>5, <2>1 DEF Rest
  <2>4. CASE build.source = "usb"
    BY <1>5, <2>1, <2>2, <2>3, <2>4 DEF BlankAxis
  <2>5. CASE build.source = "rf"
    <3>1. x \in Triggers \cup Pressures
      BY <1>2, <1>5, <2>1, <2>5
    <3>2. Centre(Byte, x) = 0
      BY <3>1, CentreMeans DEF Centred0, Sticks, Triggers, Pressures, Tables, Knobs
    <3>3. BlankAxis(build.source, build.device, build.console, x) = 0
      BY <1>2, <1>5, <2>2, <2>5 DEF BlankAxis
    <3> QED
      BY <2>3, <3>2, <3>3
  <2> QED
    BY <1>1, <2>4, <2>5
<1>6. CASE build.console = "xbox360"
  <2>1. CASE x = "whammy"
    BY <1>6, <2>1 DEF BlankAxis, Rest
  <2>2. CASE x = "pickup"
    BY <1>6, <2>2 DEF BlankAxis, Rest
  <2>3. CASE x \notin {"whammy", "pickup"}
    <3> DEFINE range == Axes(build.device, build.console)[x]
    <3>1. BlankAxis(build.source, build.device, build.console, x) = 0
      BY <1>6, <2>3 DEF BlankAxis
    <3>2. Rest(x) = Centre(range, x)
      BY <1>6, <2>3 DEF Rest
    <3>3. /\ x # "accel"
          /\ range \in {Int16, Uint16} \/ (range = Byte /\ x \notin Centred0)
      <4>1. CASE build.device = "gamepad"
        BY <1>6, <4>1 DEF Axes, Xbox360Axes, Centred0, Sticks, Triggers, Tables, Knobs
      <4>2. CASE build.device = "gh_guitar"
        BY <1>6, <4>2 DEF Axes, Xbox360Axes
      <4>3. CASE build.device = "rb_guitar"
        BY <1>6, <2>3, <4>3 DEF Axes, Xbox360Axes
      <4>4. CASE build.device = "live"
        BY <1>6, <4>4 DEF Axes, Xbox360Axes
      <4>5. CASE build.device = "gh_drums"
        BY <1>6, <4>5 DEF Axes, Xbox360Axes, Centred0, Sticks, Pads, Tables, Knobs
      <4>6. CASE build.device = "rb_drums"
        BY <1>6, <4>6 DEF Axes, Xbox360Axes, Pads
      <4>7. CASE build.device = "turntable"
        BY <1>6, <4>7 DEF Axes, Xbox360Axes, Tables, Knobs
      <4> QED
        BY <1>1, <4>1, <4>2, <4>3, <4>4, <4>5, <4>6, <4>7 DEF Devices
    <3>4. Centre(range, x) = 0
      BY <3>3, CentreMeans
    <3> QED
      BY <3>1, <3>2, <3>4
  <2> QED
    BY <2>1, <2>2, <2>3
<1> QED
  BY <1>2, <1>3, <1>4, <1>5, <1>6

\* What is left out is what MergedAxes excepts.
LEMMA LeftOutIsMissed ==
  ASSUME build \in Builds, NEW x, LeftOut(x)
  PROVE  Misses(x)
<1>1. build = [source |-> build.source, device |-> build.device, console |-> build.console]
  BY DEF Builds
<1>2. CASE ShiftedAway(x)
  BY <1>2 DEF Misses, ShiftedAway
<1>3. CASE build.source = "rf" /\ Uncopied(x)
  BY <1>1, <1>3 DEF Misses, Uncopied
<1> QED
  BY <1>2, <1>3 DEF LeftOut

\* All controllers have been added.
LEMMA AxesMerged ==
  ASSUME AxesInv, Merged, OfAxes, NEW x \in DOMAIN out.axis, Shared(x)
  PROVE  LET y == Origin(x)
             centre == Centre(Axes(build.device, build.console)[x], x)
             newest == CHOOSE i \in Claimants(y) : \A j \in Claimants(y) : j <= i
         IN  \/ Misses(x)
             \/ Claimants(y) = {} /\ out.axis[x] = Rest(x)
             \/ /\ Claimants(y) # {}
                /\ Side(out.axis[x], centre) = Expected(newest, y)
<1> DEFINE y == Origin(x)
           n == Len(reports)
           centre == Centre(Axes(build.device, build.console)[x], x)
           newest == CHOOSE i \in Claimants(y) : \A j \in Claimants(y) : j <= i
<1>1. n \in Nat /\ n > 0 /\ next = n + 1
  BY DEF AxesInv, Merged
<1>2. next - 1 = n /\ next > 1 /\ 1..next - 1 = Controllers /\ n \in Controllers
  BY <1>1 DEF Controllers
<1>3. PICK k \in Controllers : y \in DOMAIN reports[k].axis
  BY DEF Shared
<1>4. Deflected(k) /\ Deflected(n)
  BY <1>2 DEF AxesInv
<1>5. x \in DOMAIN Axes(build.device, build.console)
  BY DEF AxesInv
<1>6. /\ build.device \in Devices
      /\ build.source = "usb" => build \in Builds
  BY MergeAssumption DEF AxesInv, Builds, Rebuilt
<1>7. CASE Whole
  <2> DEFINE v == reports[n].axis[x]
             rest == Centre(Ps3Axes(build.device)[x], x)
  <2>1. build.source = "rf" /\ build.console \in {"ps3", "universal"}
    BY <1>7 DEF Whole, Universal
  <2>2. Axes(build.device, build.console) = Ps3Axes(build.device)
    BY <2>1 DEF Axes
  <2>3. y = x
    BY <1>5, <1>6, <2>2 DEF Origin, Ps3Axes, Devices, Sticks, Triggers, Pressures, Pads,
                            Cymbals, Tables, Knobs
  <2>4. out.axis[x] = v
    BY <1>2, <1>7 DEF AxesInv, AxesSoFar
  <2>5. v \in Int /\ rest \in Int
    BY <1>4, <1>5, <1>6, <2>1, <2>2, Ps3AxesAreInts, CentreIsInt DEF Deflected, Ranges
  <2>6. Deflection(n, y) = Side(v, rest) /\ centre = rest
    BY <2>1, <2>2, <2>3 DEF Deflection, InputRange
  <2>7. Claims(n, y) <=> Side(v, rest) # 0
    BY <2>1, <2>6 DEF Claims
  <2>8. Expected(n, y) = Side(v, rest)
    BY <2>1, <2>6 DEF Expected
  <2>9. Claimants(y) = IF Claims(n, y) THEN {n} ELSE {}
    BY <1>7 DEF Claimants, LastOnly, Whole
  <2>10. CASE Claims(n, y)
    <3>1. Claimants(y) = {n}
      BY <2>9, <2>10
    <3>2. newest = n
      BY <1>1, <3>1
    <3> QED
      BY <2>4, <2>6, <2>8, <3>1, <3>2
  <2>11. CASE ~ Claims(n, y)
    <3>1. v = rest
      BY <2>5, <2>7, <2>11 DEF Side
    <3>2. Rest(x) = centre
      BY <2>1 DEF Rest
    <3> QED
      BY <2>4, <2>6, <2>9, <2>11, <3>1, <3>2
  <2> QED
    BY <2>10, <2>11
<1>8. CASE ~ Whole
  <2>1. build \in Builds
    BY <1>8 DEF AxesInv, Rebuilt, Whole, Universal
  <2>2. CASE LeftOut(x)
    BY <2>1, <2>2, LeftOutIsMissed
  <2>3. CASE ~ LeftOut(x)
    <3>1. AxisSoFar(x)
      BY <1>8, <2>3 DEF AxesInv, AxesSoFar
    <3>2. ~ LastOnly(y)
      <4>1. CASE build.source = "usb"
        BY <4>1 DEF LastOnly
      <4>2. CASE build.source = "rf"
        <5>1. y \in DOMAIN Ps3Axes(build.device)
          BY <1>3, <1>4, <4>2 DEF Deflected, Ranges
        <5>2. build.device = "live" => y \in {"tilt_pc", "strumBar", "whammy"}
          BY <5>1 DEF Ps3Axes
        <5>3. build.device = "rb_drums" => y \in Pads \cup Cymbals
          BY <5>1 DEF Ps3Axes
        <5> QED
          BY <1>8, <5>2, <5>3 DEF LastOnly, Whole, Shoulders, Pads, Cymbals
      <4> QED
        BY <2>1, <4>1, <4>2, MergeAssumption DEF Builds
    <3>3. Claimants(y) = {i \in Controllers : Claims(i, y)}
      BY <3>2 DEF Claimants
    <3>4. CASE \A i \in Controllers : ~ Claims(i, y)
      <4>1. Claimants(y) = {}
        BY <3>3, <3>4
      <4>2. out.axis[x] = BlankAxis(build.source, build.device, build.console, x)
        BY <1>2, <3>1, <3>4 DEF AxisSoFar, LastSoFar
      <4>3. CASE /\ build.source = "rf" /\ build.device = "gamepad" /\ build.console = "ps3"
                 /\ x \in Sticks
        <5>1. build = [source |-> "rf", device |-> "gamepad", console |-> "ps3"]
          BY <2>1, <4>3 DEF Builds
        <5>2. y = x
          BY <4>3 DEF Origin, Sticks
        <5> QED
          BY <4>1, <4>3, <5>1, <5>2 DEF Misses
      <4>4. CASE ~ (/\ build.source = "rf" /\ build.device = "gamepad" /\ build.console = "ps3"
                    /\ x \in Sticks)
        <5>1. out.axis[x] = Rest(x)
          BY <1>5, <1>8, <2>1, <4>2, <4>4, BlankRests
        <5> QED
          BY <4>1, <5>1
      <4> QED
        BY <4>3, <4>4
    <3>5. CASE ~ \A i \in Controllers : ~ Claims(i, y)
      <4>1. PICK i \in Controllers : LastSoFar(i, y) /\ Side(out.axis[x], centre) = Expected(i, y)
        BY <1>2, <3>1, <3>5 DEF AxisSoFar
      <4>2. i \in Claimants(y) /\ \A j \in Claimants(y) : j <= i
        BY <1>2, <3>3, <4>1 DEF LastSoFar
      <4>3. \A j \in Claimants(y) : j \in Int
        BY <3>3 DEF Controllers
      <4>4. newest \in Claimants(y) /\ \A j \in Claimants(y) : j <= newest
        BY <4>2
      <4>5. newest = i
        <5> HIDE DEF newest
        <5> QED
          BY <4>2, <4>3, <4>4
      <4> QED
        BY <4>1, <4>2, <4>5
    <3> QED
      BY <3>4, <3>5
  <2> QED
    BY <2>2, <2>3
<1> QED
  BY <1>7, <1>8

\* Whatever controllers there are and wherever their axes stand, if it is not where the
\* console's report is too coarse to show it, every axis stands on the side of the last that
\* claims it (MergedAxes): convert_ps3_to_type and inputs/usb_host.h over any number of
\* controllers.
THEOREM AnyAxesAreMerged == AnyDeflections /\ [][MergeNext]_mergeVars => []MergedAxes
<1>1. AnyDeflections => AxesInv
  <2> SUFFICES ASSUME AnyDeflections PROVE AxesInv
    OBVIOUS
  <2>1. /\ out.axis = [x \in DOMAIN Axes(build.device, build.console) |->
                         BlankAxis(build.source, build.device, build.console, x)]
        /\ 1..next - 1 = {}
    BY DEF AnyDeflections, Blank
  <2>2. AxesSoFar
    BY <2>1 DEF AnyDeflections, AxesSoFar, AxisSoFar
  <2> QED
    BY <2>1, <2>2 DEF AnyDeflections, AxesInv
<1>2. AxesInv /\ [MergeNext]_mergeVars => AxesInv'
  <2> SUFFICES ASSUME AxesInv, [MergeNext]_mergeVars PROVE AxesInv'
    OBVIOUS
  <2>1. CASE UNCHANGED mergeVars
    <3>1. UNCHANGED <<build, hosts, reports, out, next, stray, earlier>>
      BY <2>1 DEF mergeVars
    <3>2. \A i, y : LastSoFar(i, y)' <=> LastSoFar(i, y)
      BY <3>1, CallStays DEF LastSoFar
    <3>3. \A x : AxisSoFar(x)' <=> AxisSoFar(x)
      BY <3>1, <3>2, CallStays DEF AxisSoFar, BlankAxis
    <3>4. AxesSoFar'
      BY <3>1, <3>3, CallStays DEF AxesInv, AxesSoFar
    <3> QED
      BY <3>1, <3>4, CallStays DEF AxesInv
  <2> QED
    BY <2>1, AxesStep, AxesOverwrite DEF MergeNext
<1>3. AxesInv => MergedAxes
  BY AxesMerged DEF MergedAxes, OfAxes, Shared
<1> QED
  BY <1>1, <1>2, <1>3, PTL

\* Where the enumerated inputs put an axis.
Stops(range, x) == {Centre(range, x), 0, High(range)} \cup Ends(range)

\* The enumerated inputs put it nowhere else.
LEMMA InputsStop ==
  ASSUME NEW buttons, NEW ranges, NEW r \in Singles(buttons, ranges) \cup Wholes(buttons, ranges)
  PROVE  /\ DOMAIN r.axis = DOMAIN ranges
         /\ \A y \in DOMAIN ranges : r.axis[y] \in Stops(ranges[y], y)
<1> DEFINE rests == [x \in DOMAIN ranges |-> Centre(ranges[x], x)]
<1>1. AtRest(ranges).axis = rests
  BY DEF AtRest, PadReport
<1>2. CASE r \in Wholes(buttons, ranges)
  BY <1>2 DEF Wholes, AtRest, AllZero, AllHeld, PadReport, Stops
<1>3. CASE r \in Singles(buttons, ranges)
  <2>1. CASE r \in {PadReport({b}, AtRest(ranges).axis) : b \in buttons}
    BY <1>1, <2>1 DEF PadReport, Stops
  <2>2. CASE r \in UNION {{PadReport({}, [AtRest(ranges).axis EXCEPT ![x] = v]) :
                                v \in Ends(ranges[x])} : x \in DOMAIN ranges}
    <3>1. PICK x \in DOMAIN ranges : r \in {PadReport({}, [AtRest(ranges).axis EXCEPT ![x] = v]) :
                                                 v \in Ends(ranges[x])}
      BY <2>2
    <3>2. PICK v \in Ends(ranges[x]) : r = PadReport({}, [AtRest(ranges).axis EXCEPT ![x] = v])
      BY <3>1
    <3>3. r.axis = [rests EXCEPT ![x] = v]
      BY <1>1, <3>2 DEF PadReport
    <3> QED
      BY <3>3 DEF Stops
  <2> QED
    BY <1>3, <2>1, <2>2 DEF Singles
<1> QED
  BY <1>2, <1>3

\* These places, for each range.
LEMMA StopsAre ==
  ASSUME NEW x, x # "accel"
  PROVE  /\ x \in Centred0 => Stops(Byte, x) = {128, 0, 255}
         /\ x \notin Centred0 => Stops(Byte, x) = {0, 255}
         /\ Stops(Int16, x) = {0, -32768, 32767}
         /\ Stops(Bits10, x) \subseteq {0, 255, 512, 1023}
<1>1. /\ High(Byte) = 255 /\ High(Int16) = 32767 /\ High(Bits10) = 1023
      /\ Low(Byte) = 0 /\ Low(Int16) = -32768 /\ Low(Bits10) = 0
  BY RangesDiffer DEF High, Low
<1>2. /\ Ends(Byte) = {0, 255} /\ Ends(Int16) = {-32768, 32767}
      /\ Ends(Bits10) = {0, 1023, 255}
  BY <1>1, RangesDiffer DEF Ends
<1>3. Centre(Bits10, x) \in {0, 512}
  BY RangesDiffer DEF Centre
<1> QED
  BY <1>1, <1>2, <1>3, CentreMeans DEF Stops

\* The calls TLC enumerates are such calls.
LEMMA InitIsDeflected == MergeInit => AnyDeflections
<1> SUFFICES ASSUME MergeInit PROVE AnyDeflections
  OBVIOUS
<1>1. build \in Builds /\ out = Blank(build, earlier) /\ next = 1
  BY DEF MergeInit
<1>2. build.device \in Devices
  BY <1>1, MergeAssumption DEF Builds
<1>3. CASE InitRf
  <2>1. \A r \in RfSingles(build.device) \cup RfWholes(build.device) :
          \E s \in Singles(Ps3Buttons(build.device), Ps3Axes(build.device))
                   \cup Wholes(Ps3Buttons(build.device), Ps3Axes(build.device)) : r.axis = s.axis
    BY DEF RfSingles, RfWholes, Sent, Wholes
  <2>2. PICK r \in RfSingles(build.device), w \in RfWholes(build.device) :
          reports \in {<<r, w>>, <<w, r>>}
    BY <1>3 DEF InitRf
  <2>3. Len(reports) = 2 /\ {reports[1], reports[2]} = {r, w} /\ build.source = "rf"
    BY <1>3, <2>2 DEF InitRf
  <2>4. ASSUME NEW i \in {1, 2} PROVE Deflected(i)
    <3>1. /\ DOMAIN reports[i].axis = DOMAIN Ps3Axes(build.device)
          /\ \A y \in DOMAIN Ps3Axes(build.device) :
                reports[i].axis[y] \in Stops(Ps3Axes(build.device)[y], y)
      BY <2>1, <2>3, InputsStop
    <3>2. "accel" \notin DOMAIN Ps3Axes(build.device)
      BY <1>2 DEF Ps3Axes, Devices, Sticks, Triggers, Pressures, Pads, Cymbals, Tables, Knobs
    <3>3. ASSUME NEW y \in DOMAIN Ps3Axes(build.device)
          PROVE  reports[i].axis[y] \in Ps3Axes(build.device)[y] /\ ~ Vanishes(i, y)
      <4>1. y # "accel" /\ Ps3Axes(build.device)[y] \in {Byte, Bits10}
        BY <1>2, <3>2, Ps3AxesAreInts
      <4>2. reports[i].axis[y] \in Ps3Axes(build.device)[y]
        <5>1. /\ \A z \in {128, 0, 255} : z \in Byte
              /\ \A z \in {0, 255, 512, 1023} : z \in Bits10
          BY DEF Byte, Bits10
        <5>2. reports[i].axis[y] \in Stops(Ps3Axes(build.device)[y], y)
          BY <3>1
        <5>3. CASE Ps3Axes(build.device)[y] = Byte
          BY <4>1, <5>1, <5>2, <5>3, StopsAre
        <5>4. CASE Ps3Axes(build.device)[y] = Bits10
          BY <4>1, <5>1, <5>2, <5>4, StopsAre
        <5> QED
          BY <4>1, <5>3, <5>4
      <4>3. build.device = "rb_drums" /\ y \in Pads =>
              Ps3Axes(build.device)[y] = Byte /\ y \notin Centred0
        BY DEF Ps3Axes, Pads, Centred0, Sticks, Tables, Knobs
      <4>4. build.device = "rb_drums" /\ y \in Pads => reports[i].axis[y] \in {0, 255}
        BY <3>1, <4>1, <4>3, StopsAre
      <4> QED
        BY <2>3, <4>2, <4>4 DEF Vanishes
    <3> QED
      BY <2>3, <3>1, <3>3 DEF Deflected, Ranges
  <2> QED
    BY <1>1, <2>3, <2>4 DEF AnyDeflections, Controllers
<1>4. CASE InitUsb
  <2>0. PICK h \in Hosts(build.device), g \in Hosts(build.device) :
          \E r \in UsbSingles(build.device, h, build.console),
             w \in UsbWholes(build.device, g, build.console) :
                \/ hosts = <<h, g>> /\ reports = <<r, w>>
                \/ hosts = <<g, h>> /\ reports = <<w, r>>
    BY <1>4 DEF InitUsb
  <2>1. PICK r \in UsbSingles(build.device, h, build.console),
             w \in UsbWholes(build.device, g, build.console) :
          \/ hosts = <<h, g>> /\ reports = <<r, w>>
          \/ hosts = <<g, h>> /\ reports = <<w, r>>
    BY <2>0
  <2>2. Len(reports) = 2 /\ build.source = "usb"
    BY <1>4, <2>1 DEF InitUsb
  <2>3. ASSUME NEW i \in {1, 2}, build.device = "gamepad" PROVE Deflected(i)
    <3> DEFINE ranges == ReadRanges("gamepad", hosts[i])
    <3>1. hosts[i] \in Hosts("gamepad")
      BY <2>1, <2>3
    <3>2. /\ DOMAIN r.axis = DOMAIN ReadRanges("gamepad", h)
          /\ \A y \in DOMAIN ReadRanges("gamepad", h) :
                r.axis[y] \in Stops(ReadRanges("gamepad", h)[y], y)
      BY <2>3, InputsStop DEF UsbSingles
    <3>3. /\ DOMAIN w.axis = DOMAIN ReadRanges("gamepad", g)
          /\ \A y \in DOMAIN ReadRanges("gamepad", g) :
                w.axis[y] \in Stops(ReadRanges("gamepad", g)[y], y)
      BY <2>3, InputsStop DEF UsbWholes
    <3>4. /\ DOMAIN reports[i].axis = DOMAIN ranges
          /\ \A y \in DOMAIN ranges : reports[i].axis[y] \in Stops(ranges[y], y)
      BY <2>1, <3>2, <3>3
    <3>5. ASSUME NEW y \in DOMAIN ranges
          PROVE  reports[i].axis[y] \in ranges[y] /\ ~ Vanishes(i, y)
      <4>1. /\ y \in Sticks \cup Triggers /\ y # "accel"
            /\ ranges[y] \in {Byte, Int16, Bits10}
            /\ y \in Sticks /\ hosts[i].console \in {"xbox360", "xboxone"} => ranges[y] = Int16
        BY <3>1, <3>5, PadRanges DEF Sticks, Triggers
      <4>2. reports[i].axis[y] \in Stops(ranges[y], y)
        BY <3>4
      <4>3. /\ \A z \in {128, 0, 255} : z \in Byte
            /\ \A z \in {0, -32768, 32767} : z \in Int16 /\ z \notin 1..255
            /\ \A z \in {0, 255, 512, 1023} : z \in Bits10
        BY DEF Byte, Int16, Int16Min, Int16Max, Bits10
      <4> HIDE DEF ranges
      <4>4. reports[i].axis[y] \in ranges[y]
        BY <4>1, <4>2, <4>3, StopsAre
      <4>5. ranges[y] = Int16 => reports[i].axis[y] \notin 1..255
        BY <4>1, <4>2, <4>3, StopsAre
      <4> QED
        BY <2>2, <4>1, <4>4, <4>5 DEF Vanishes
    <3> QED
      BY <2>2, <2>3, <3>1, <3>4, <3>5 DEF Deflected, Ranges
  <2> QED
    BY <1>1, <2>2, <2>3 DEF AnyDeflections, Controllers, Deflected
<1> QED
  BY <1>3, <1>4 DEF MergeInit

\* In particular of the calls the run enumerates.
THEOREM AxesAreMerged == MergeSpec => []MergedAxes
BY InitIsDeflected, AnyAxesAreMerged, PTL DEF MergeSpec
=============================================================================
