--------------------------- MODULE UnoLink_proofs ---------------------------
(***************************************************************************)
(* For any console types, payload bytes and lengths of reports that fit    *)
(* into buf, when no suspend or resume interrupt comes in the middle of an *)
(* exchange: the 8u2 and the 328p take turns, what the 8u2 parses is the   *)
(* answer to what it asked, its wait for it never gets stuck, and the link *)
(* implements the bridge, whose theorems hold of it.                       *)
(***************************************************************************)
EXTENDS UnoLink, SequenceTheorems, TLAPS

\* The host leaves a device its resume time.
QuietHost == EventsRace = FALSE

\* buf[255] of the 328p has room for a control request with a byte of data (the
\* lengths are those of this model's packets) and for a report, and lengths are
\* counted in a byte.
BufFits == BufSize \in 6..255 /\ HeaderLen + MaxReport <= BufSize

-----------------------------------------------------------------------------
(* The inductive invariant. *)

\* A packet is on its way to the 328p.
Inbound == toMega # <<>> \/ idx > 0

\* What the 8u2 has been sent and has not read, without what is still in buf.
Out == toHost \o uart

\* The bytes of the packet the 328p receives or handles, in buf once they arrived.
Byte(i) == IF ready \/ handling # 0 \/ i < idx THEN buf[i] ELSE toMega[i - idx + 1]

\* The processors take turns: a packet under way, a packet waiting, one being
\* handled and one being sent exclude each other, and the 8u2 reads nothing of a
\* packet before the 328p has answered.
TakeTurns ==
  /\ Inbound => ~ready /\ handling = 0
  /\ ready => handling = 0
  /\ ~MegaQuiet \/ pc8 = "idle" => idxTX = 0
  /\ handling # 0 => pc8 = "parse" /\ handling = cur
  /\ handling \in {REQUEST, TRANSMIT} => buf[2] = 0
  /\ ~MegaQuiet /\ pc8 = "parse" => hstate = "NO_PACKET"

\* What the 328p receives is a whole packet: its third byte is its length.
Framed ==
  Inbound =>
    /\ Byte(2) = idx + Len(toMega)
    /\ HeaderLen <= idx + Len(toMega) /\ idx + Len(toMega) <= BufSize
    /\ pc8 = "idle" \/ cur = DESCRIPTOR => idx + Len(toMega) > 3
    /\ pc8 = "parse" /\ cur \in {VALIDATION, CONTROL} => idx + Len(toMega) > 4

\* It is the one the 8u2 waits for an answer to, or a USB_READY if it waits for none.
Carried ==
  ~MegaQuiet =>
    /\ Byte(0) = VALID_PACKET
    /\ Byte(1) = IF pc8 = "idle" THEN USB_READY ELSE cur
    /\ pc8 = "idle" => Byte(3) = IF attached THEN 1 ELSE 0
    /\ pc8 = "parse" /\ cur = DESCRIPTOR => Byte(3) = 1
    /\ pc8 = "parse" /\ cur \in {VALIDATION, CONTROL} =>
         Byte(3) = setup[1] /\ Byte(4) = setup[2]

\* Once answered, buf holds the answer until the next packet: to what was asked, or
\* a RESTART, with the length its kind has.
Answered ==
  pc8 = "parse" /\ MegaQuiet =>
    /\ idxTX + bufTX = HeaderLen + buf[2]
    /\ buf[0] = VALID_PACKET
    /\ buf[1] \in {cur, RESTART}
    /\ buf[2] <= BufSize - HeaderLen
    /\ buf[1] \in {RESTART, TRANSMIT} => buf[2] = 0
    /\ buf[1] \in {VALIDATION, DEVICE, DESCRIPTOR} => buf[2] = 1
    /\ buf[1] = CONTROL => buf[2] <= 1 /\ (setup[1] = H2D => buf[3] = H2D)
    /\ buf[1] \in {DEVICE, DESCRIPTOR} => buf[3] = answer.console
    /\ buf[1] = VALIDATION => answer.valid = (buf[3] # 0)
    /\ answer.id = IdName(buf[1])

\* Bytes of the answer that the reader has taken.
Taken == CASE hstate = "NO_PACKET" -> 0
           [] hstate = "READ_PACKET_TYPE" -> 1
           [] hstate = "READ_LENGTH" -> 2
           [] OTHER -> HeaderLen

\* Bytes left over from the exchange before, in front of the answer.
Strays == Len(Out) - (bufTX - Taken)

\* What the 8u2 has to read is what is left over, and then the answer's bytes from
\* the one its parser expects to the last one that was loaded.
Reading ==
  pc8 = "parse" /\ MegaQuiet =>
    /\ Strays >= 0
    /\ Taken > 0 => Strays = 0
    /\ \A i \in 1..Len(Out) : IF i <= Strays THEN Out[i] # VALID_PACKET
                              ELSE Out[i] = buf[i - 1 - Strays + Taken]
    /\ Taken >= 2 => type = buf[1]
    /\ Taken >= 3 => left = buf[2]
    /\ hstate = "READ_AND_RETURN" => InControl /\ type \in {VALIDATION, DEVICE}
    /\ hstate = "DATA" /\ InControl => type \notin {VALIDATION, DEVICE, RESTART}

\* What is left over when nothing is being read cannot start a packet.
Harmless ==
  pc8 = "idle" \/ ~MegaQuiet => \A i \in 1..Len(Out) : Out[i] # VALID_PACKET

\* While a packet is being sent the UART never runs dry.
KeepsLoading == idxTX > 0 /\ bufTX > 0 => uart # <<>>

\* Descriptors are only ever read by the host.
DescriptorsRead == cur = DESCRIPTOR => setup[1] = D2H

\* The 328p is up to date unless a USB_READY is under way.
UpToDate == attached /\ (pc8 = "parse" \/ MegaQuiet) => usb_ready

IInv ==
  /\ TypeOK
  /\ TakeTurns
  /\ Framed
  /\ Carried
  /\ Answered
  /\ Reading
  /\ Harmless
  /\ KeepsLoading
  /\ DescriptorsRead
  /\ UpToDate

-----------------------------------------------------------------------------
(* Sequences. *)

\* A byte that moves from the UART to the ring stays where it is in between.
LEMMA ShiftOut ==
  ASSUME NEW S, NEW s \in Seq(S), NEW t \in Seq(S), t # <<>>
  PROVE  Append(s, Head(t)) \o Tail(t) = s \o t
<1>1. /\ Head(t) \in S /\ Tail(t) \in Seq(S) /\ Len(Tail(t)) = Len(t) - 1
      /\ \A i \in 1..Len(Tail(t)) : Tail(t)[i] = t[i + 1]
  BY HeadTailProperties
<1> DEFINE a == Append(s, Head(t))
<1>2. /\ a \in Seq(S) /\ Len(a) = Len(s) + 1 /\ a[Len(s) + 1] = Head(t)
      /\ \A i \in 1..Len(s) : a[i] = s[i]
  BY <1>1
<1> HIDE DEF a
<1>3. Head(t) = t[1] /\ Len(t) \in Nat \ {0} /\ Len(s) \in Nat
  BY EmptySeq
<1>4. /\ a \o Tail(t) \in Seq(S) /\ Len(a \o Tail(t)) = Len(s) + Len(t)
      /\ \A i \in 1..Len(s) + Len(t) :
           (a \o Tail(t))[i] = IF i <= Len(s) + 1 THEN a[i] ELSE Tail(t)[i - (Len(s) + 1)]
  <2>1. /\ a \o Tail(t) \in Seq(S) /\ Len(a \o Tail(t)) = Len(a) + Len(Tail(t))
        /\ \A i \in 1..Len(a) + Len(Tail(t)) :
             (a \o Tail(t))[i] = IF i <= Len(a) THEN a[i] ELSE Tail(t)[i - Len(a)]
    BY <1>1, <1>2, ConcatProperties
  <2>2. Len(a) + Len(Tail(t)) = Len(s) + Len(t)
    BY <1>1, <1>2, <1>3
  <2> QED
    BY <2>1, <2>2, <1>2
<1>5. /\ s \o t \in Seq(S) /\ Len(s \o t) = Len(s) + Len(t)
      /\ \A i \in 1..Len(s) + Len(t) : (s \o t)[i] = IF i <= Len(s) THEN s[i] ELSE t[i - Len(s)]
  BY ConcatProperties
<1>6. \A i \in 1..Len(s) + Len(t) : (a \o Tail(t))[i] = (s \o t)[i]
  <2> TAKE i \in 1..Len(s) + Len(t)
  <2>0. i \in Int /\ Len(s) \in Int
    BY <1>3
  <2>1. CASE i <= Len(s)
    BY <2>1, <1>2, <1>3, <1>4, <1>5
  <2>2. CASE i = Len(s) + 1
    BY <2>2, <1>2, <1>3, <1>4, <1>5
  <2>3. CASE ~(i <= Len(s)) /\ i # Len(s) + 1
    <3>1. /\ i - (Len(s) + 1) \in 1..Len(Tail(t)) /\ (i - (Len(s) + 1)) + 1 = i - Len(s)
          /\ i > Len(s) + 1
      BY <2>3, <2>0, <1>1, <1>3
    <3> QED
      BY <3>1, <1>1, <1>3, <1>4, <1>5
  <2> QED
    BY <2>1, <2>2, <2>3
<1> QED
  BY <1>4, <1>5, <1>6, SeqEqual DEF a

\* A byte loaded into the UART goes behind all that are on their way.
LEMMA LoadOut ==
  ASSUME NEW S, NEW s \in Seq(S), NEW t \in Seq(S), NEW b \in S
  PROVE  /\ s \o Append(t, b) \in Seq(S)
         /\ Len(s \o Append(t, b)) = Len(s \o t) + 1
         /\ \A i \in 1..Len(s \o t) : (s \o Append(t, b))[i] = (s \o t)[i]
         /\ (s \o Append(t, b))[Len(s \o t) + 1] = b
<1> DEFINE a == Append(t, b)
<1>1. /\ a \in Seq(S) /\ Len(a) = Len(t) + 1 /\ a[Len(t) + 1] = b
      /\ \A i \in 1..Len(t) : a[i] = t[i]
  OBVIOUS
<1> HIDE DEF a
<1>2. Len(s) \in Nat /\ Len(t) \in Nat
  OBVIOUS
<1>3. /\ s \o a \in Seq(S) /\ Len(s \o a) = Len(s) + Len(t) + 1
      /\ \A i \in 1..Len(s) + Len(a) : (s \o a)[i] = IF i <= Len(s) THEN s[i] ELSE a[i - Len(s)]
  <2>1. /\ s \o a \in Seq(S) /\ Len(s \o a) = Len(s) + Len(a)
        /\ \A i \in 1..Len(s) + Len(a) :
             (s \o a)[i] = IF i <= Len(s) THEN s[i] ELSE a[i - Len(s)]
    BY <1>1, ConcatProperties
  <2> QED
    BY <2>1, <1>1, <1>2
<1>4. /\ Len(s \o t) = Len(s) + Len(t)
      /\ \A i \in 1..Len(s) + Len(t) : (s \o t)[i] = IF i <= Len(s) THEN s[i] ELSE t[i - Len(s)]
  BY ConcatProperties
<1>5. \A i \in 1..Len(s) + Len(t) : (s \o a)[i] = (s \o t)[i]
  <2> TAKE i \in 1..Len(s) + Len(t)
  <2>1. CASE i <= Len(s)
    BY <2>1, <1>1, <1>2, <1>3, <1>4
  <2>2. CASE ~(i <= Len(s))
    <3>1. i - Len(s) \in 1..Len(t) /\ i \in 1..Len(s) + Len(a)
      BY <2>2, <1>1, <1>2
    <3> QED
      BY <2>2, <3>1, <1>1, <1>3, <1>4
  <2> QED
    BY <2>1, <2>2
<1>6. (s \o a)[Len(s) + Len(t) + 1] = b
  <2>1. /\ Len(s) + Len(t) + 1 \in 1..Len(s) + Len(a)
        /\ ~(Len(s) + Len(t) + 1 <= Len(s))
        /\ (Len(s) + Len(t) + 1) - Len(s) = Len(t) + 1
    BY <1>1, <1>2
  <2> QED
    BY <2>1, <1>1, <1>3
<1> QED
  BY <1>3, <1>4, <1>5, <1>6 DEF a

\* The reader takes the first byte.
LEMMA ReadOut ==
  ASSUME NEW S, NEW s \in Seq(S), NEW t \in Seq(S), s # <<>>
  PROVE  /\ Head(s) = (s \o t)[1]
         /\ Tail(s) \o t \in Seq(S)
         /\ Len(s \o t) >= 1
         /\ Len(Tail(s) \o t) = Len(s \o t) - 1
         /\ \A i \in 1..Len(s \o t) - 1 : (Tail(s) \o t)[i] = (s \o t)[i + 1]
<1>1. /\ Head(s) \in S /\ Tail(s) \in Seq(S) /\ Len(Tail(s)) = Len(s) - 1
      /\ \A i \in 1..Len(Tail(s)) : Tail(s)[i] = s[i + 1]
  BY HeadTailProperties
<1>2. Head(s) = s[1] /\ Len(s) \in Nat \ {0} /\ Len(t) \in Nat
  BY EmptySeq
<1> DEFINE a == Tail(s)
<1>3. /\ a \in Seq(S) /\ Len(a) = Len(s) - 1
      /\ \A i \in 1..Len(a) : a[i] = s[i + 1]
  BY <1>1
<1> HIDE DEF a
<1>4. /\ a \o t \in Seq(S) /\ Len(a \o t) = Len(a) + Len(t)
      /\ \A i \in 1..Len(a) + Len(t) : (a \o t)[i] = IF i <= Len(a) THEN a[i] ELSE t[i - Len(a)]
  BY <1>3, ConcatProperties
<1>5. /\ Len(s \o t) = Len(s) + Len(t)
      /\ \A i \in 1..Len(s) + Len(t) : (s \o t)[i] = IF i <= Len(s) THEN s[i] ELSE t[i - Len(s)]
  BY ConcatProperties
<1>6. \A i \in 1..Len(s) + Len(t) - 1 : (a \o t)[i] = (s \o t)[i + 1]
  <2> TAKE i \in 1..Len(s) + Len(t) - 1
  <2>1. i + 1 \in 1..Len(s) + Len(t) /\ i \in 1..Len(a) + Len(t) /\ i \in Nat
    BY <1>2, <1>3
  <2>2. CASE i <= Len(a)
    <3>1. i + 1 <= Len(s) /\ i \in 1..Len(a)
      BY <2>1, <2>2, <1>2, <1>3
    <3> QED
      BY <2>1, <2>2, <3>1, <1>3, <1>4, <1>5
  <2>3. CASE ~(i <= Len(a))
    <3>1. ~(i + 1 <= Len(s)) /\ i - Len(a) = (i + 1) - Len(s)
      BY <2>1, <2>3, <1>2, <1>3
    <3> QED
      BY <2>1, <2>3, <3>1, <1>4, <1>5
  <2> QED
    BY <2>2, <2>3
<1>7. Head(s) = (s \o t)[1]
  BY <1>2, <1>5
<1> QED
  BY <1>2, <1>3, <1>4, <1>5, <1>6, <1>7 DEF a


\* Two sequences in a row.
LEMMA Joined ==
  ASSUME NEW S, NEW s \in Seq(S), NEW t \in Seq(S)
  PROVE  /\ s \o t \in Seq(S) /\ Len(s \o t) = Len(s) + Len(t)
         /\ \A i \in 1..Len(s) + Len(t) : (s \o t)[i] = IF i <= Len(s) THEN s[i] ELSE t[i - Len(s)]
BY ConcatProperties

-----------------------------------------------------------------------------
(* Packets. *)

\* A packet is its header and its payload, and its third byte is its length.
LEMMA PacketShape ==
  ASSUME NEW id \in 0..255, NEW p \in Seq(0..255), Len(p) <= 252
  PROVE  /\ Packet(id, p) \in Seq(0..255)
         /\ Len(Packet(id, p)) = HeaderLen + Len(p)
         /\ Packet(id, p)[1] = VALID_PACKET
         /\ Packet(id, p)[2] = id
         /\ Packet(id, p)[3] = HeaderLen + Len(p)
         /\ \A i \in 1..Len(p) : Packet(id, p)[HeaderLen + i] = p[i]
<1> DEFINE h == <<VALID_PACKET, id, HeaderLen + Len(p)>>
<1>0. Len(p) \in Nat /\ Len(p) <= 252
  OBVIOUS
<1>1. /\ h \in Seq(0..255) /\ Len(h) = 3
      /\ h[1] = VALID_PACKET /\ h[2] = id /\ h[3] = HeaderLen + Len(p)
  <2> DEFINE n == Len(p)
  <2>1. n \in Nat /\ n <= 252
    BY <1>0
  <2> HIDE DEF n
  <2>2. VALID_PACKET \in 0..255 /\ HeaderLen + n \in 0..255
    BY <2>1 DEF VALID_PACKET, HeaderLen
  <2>3. h = <<VALID_PACKET, id, HeaderLen + n>>
    BY DEF n
  <2> QED
    BY <2>2, <2>3 DEF n
<1> HIDE DEF h
<1>2. /\ h \o p \in Seq(0..255) /\ Len(h \o p) = 3 + Len(p)
      /\ \A i \in 1..3 + Len(p) : (h \o p)[i] = IF i <= 3 THEN h[i] ELSE p[i - 3]
  <2>1. /\ h \o p \in Seq(0..255) /\ Len(h \o p) = Len(h) + Len(p)
        /\ \A i \in 1..Len(h) + Len(p) :
             (h \o p)[i] = IF i <= Len(h) THEN h[i] ELSE p[i - Len(h)]
    <3> DEFINE B == 0..255
    <3>1. h \in Seq(B) /\ p \in Seq(B)
      BY <1>1
    <3> HIDE DEF B
    <3>2. /\ h \o p \in Seq(B) /\ Len(h \o p) = Len(h) + Len(p)
          /\ \A i \in 1..Len(h) + Len(p) :
               (h \o p)[i] = IF i <= Len(h) THEN h[i] ELSE p[i - Len(h)]
      BY <3>1, Joined
    <3> QED
      BY <3>2 DEF B
  <2> QED
    BY <2>1, <1>1
<1>3. \A i \in 1..Len(p) : (h \o p)[3 + i] = p[i]
  <2> TAKE i \in 1..Len(p)
  <2>1. 3 + i \in 1..3 + Len(p) /\ ~(3 + i <= 3) /\ (3 + i) - 3 = i
    BY <1>0
  <2> QED
    BY <2>1, <1>2
<1>4. 1 \in 1..3 + Len(p) /\ 2 \in 1..3 + Len(p) /\ 3 \in 1..3 + Len(p)
  BY <1>0
<1>5. Packet(id, p) = h \o p /\ HeaderLen = 3
  BY DEF Packet, h, HeaderLen
<1> QED
  BY <1>1, <1>2, <1>3, <1>4, <1>5

\* What a handler may write as a payload.
LEMMA PayloadShape ==
  ASSUME NEW n \in Nat, NEW p \in Payloads(n)
  PROVE  p \in Seq(0..255) /\ Len(p) \in Nat /\ Len(p) <= n
<1>1. PICK k \in 0..n : p \in [1..k -> DataBytes]
  BY DEF Payloads
<1>2. p \in Seq(DataBytes) /\ Len(p) = k
  BY <1>1
<1>3. DataBytes \subseteq 0..255
  BY LinkAssumption
<1>4. p \in Seq(0..255)
  <2> DEFINE B == 0..255
  <2>1. DataBytes \subseteq B
    BY <1>3
  <2> HIDE DEF B
  <2>2. p \in Seq(B)
    BY <1>2, <2>1, SeqMonotonic
  <2> QED
    BY <2>2 DEF B
<1> QED
  BY <1>2, <1>4

Octets == 0..255

\* Writing a payload into buf leaves the first two bytes of the header alone.
LEMMA WrittenShape ==
  ASSUME BufFits, buf \in [0..BufSize - 1 -> Octets],
         NEW p \in Seq(Octets), NEW len \in Octets
  PROVE  /\ Written(p, len) \in [0..BufSize - 1 -> Octets]
         /\ Written(p, len)[0] = buf[0]
         /\ Written(p, len)[1] = buf[1]
         /\ Written(p, len)[2] = len
         /\ Len(p) >= 1 => Written(p, len)[3] = p[1]
<1> USE DEF Octets
<1>0. Len(p) \in Nat /\ BufSize \in 6..255
  BY DEF BufFits
<1>1. \A i \in 0..BufSize - 1 : i - HeaderLen \in 0..Len(p) - 1 => p[i - HeaderLen + 1] \in 0..255
  <2> SUFFICES ASSUME NEW i \in 0..BufSize - 1, i - HeaderLen \in 0..Len(p) - 1
               PROVE  p[i - HeaderLen + 1] \in 0..255
    OBVIOUS
  <2>1. i - HeaderLen + 1 \in 1..Len(p)
    BY <1>0 DEF HeaderLen
  <2> QED
    BY <2>1, ElementOfSeq
<1>2. DOMAIN buf = 0..BufSize - 1
  OBVIOUS
<1>3. Written(p, len) = [i \in 0..BufSize - 1 |->
                          IF i = 2 THEN len
                          ELSE IF i - HeaderLen \in 0..Len(p) - 1
                               THEN p[i - HeaderLen + 1] ELSE buf[i]]
  BY <1>2 DEF Written
<1>4. Written(p, len) \in [0..BufSize - 1 -> 0..255]
  BY <1>1, <1>3
<1>5. {0, 1, 2, 3} \subseteq 0..BufSize - 1
  BY <1>0
<1>6. /\ 0 - HeaderLen \notin 0..Len(p) - 1 /\ 1 - HeaderLen \notin 0..Len(p) - 1
      /\ 3 - HeaderLen = 0 /\ 3 - HeaderLen + 1 = 1
  BY <1>0 DEF HeaderLen
<1>7. Len(p) >= 1 => 0 \in 0..Len(p) - 1
  BY <1>0
<1> QED
  BY <1>3, <1>4, <1>5, <1>6, <1>7

-----------------------------------------------------------------------------
(* What the 328p answers. *)

\* The answer to a request is of its kind: its id, its length, and what it says.
AnswerTo(b) ==
  /\ b \in [0..BufSize - 1 -> 0..255]
  /\ b[0] = VALID_PACKET /\ b[1] = cur
  /\ b[2] <= BufSize - HeaderLen
  /\ cur = TRANSMIT => b[2] = 0
  /\ cur \in {VALIDATION, DEVICE, DESCRIPTOR} => b[2] = 1
  /\ cur = CONTROL => b[2] <= 1 /\ (setup[1] = H2D => b[3] = H2D)
  /\ cur \in {DEVICE, DESCRIPTOR} => b[3] = consoleType

\* Whatever the handler does, that is what it leaves in buf.
LEMMA HandlerAnswers ==
  ASSUME BufFits, IInv, handling # 0, NEW b \in HandlerResults
  PROVE  AnswerTo(b)
<1>t. TypeOK
  BY DEF IInv
<1>0. BufSize \in 6..255 /\ MaxReport \in Nat /\ MaxReport <= BufSize - 3 /\ HeaderLen = 3
  BY LinkAssumption DEF BufFits, HeaderLen
<1>1. buf \in [0..BufSize - 1 -> 0..255] /\ cur \in Requests /\ handling = cur /\ pc8 = "parse"
  BY <1>t DEF TypeOK, IInv, TakeTurns
<1>b. buf \in [0..BufSize - 1 -> Octets]
  BY <1>1 DEF Octets
<1>2. /\ buf[0] = VALID_PACKET /\ buf[1] = cur
      /\ cur \in {REQUEST, TRANSMIT} => buf[2] = 0
      /\ cur = DESCRIPTOR => buf[3] = 1
      /\ cur \in {VALIDATION, CONTROL} => buf[3] = setup[1] /\ buf[4] = setup[2]
  BY <1>1 DEF IInv, TakeTurns, Carried, Byte, MegaQuiet
<1>3. consoleType \in 0..255
  BY <1>t, LinkAssumption DEF TypeOK
<1>4. buf[4] \in 0..255 /\ buf[3] \in 0..255 /\ buf[2] \in 0..255
  BY <1>0, <1>1, SMTT(30)
<1> USE DEF REQUEST, TRANSMIT, DESCRIPTOR, VALIDATION, DEVICE, CONTROL, AnswerTo
<1>5. CASE cur = REQUEST
  <2>1. PICK p \in Payloads(MaxReport) : b = Written(p, buf[2] + Len(p))
    BY <1>1, <1>5 DEF HandlerResults
  <2> DEFINE n == Len(p)
  <2>2. p \in Seq(0..255) /\ n \in Nat /\ n <= MaxReport
    BY <1>0, PayloadShape
  <2> HIDE DEF n
  <2>3. buf[2] + n = n /\ n \in 0..255 /\ n <= BufSize - 3
    BY <2>2, <1>0, <1>2, <1>5
  <2>4. b = Written(p, n)
    BY <2>1, <2>3 DEF n
  <2>5. /\ b \in [0..BufSize - 1 -> 0..255]
        /\ b[0] = buf[0] /\ b[1] = buf[1] /\ b[2] = n
    <3>1. p \in Seq(Octets) /\ n \in Octets
      BY <2>2, <2>3 DEF Octets
    <3>2. /\ b \in [0..BufSize - 1 -> Octets]
          /\ b[0] = buf[0] /\ b[1] = buf[1] /\ b[2] = n
      BY <2>4, <3>1, <1>b, WrittenShape
    <3> QED
      BY <3>2 DEF Octets
  <2> QED
    BY <2>3, <2>5, <1>0, <1>2, <1>5
<1>6. CASE cur = TRANSMIT
  <2>1. b = [buf EXCEPT ![2] = 0]
    BY <1>1, <1>6 DEF HandlerResults
  <2> QED
    BY <2>1, <1>0, <1>1, <1>2, <1>6
<1>7. CASE cur = DESCRIPTOR
  <2>1. b = Written(<<consoleType>>, Min2(1, buf[3]))
    BY <1>1, <1>7 DEF HandlerResults
  <2>2. b = Written(<<consoleType>>, 1)
    BY <2>1, <1>2, <1>7 DEF Min2
  <2>3. <<consoleType>> \in Seq(0..255) /\ Len(<<consoleType>>) = 1 /\ <<consoleType>>[1] = consoleType
    BY <1>3
  <2>4. /\ b \in [0..BufSize - 1 -> 0..255]
        /\ b[0] = buf[0] /\ b[1] = buf[1] /\ b[2] = 1 /\ b[3] = consoleType
    <3> DEFINE p == <<consoleType>>
    <3>1. p \in Seq(Octets) /\ Len(p) >= 1 /\ p[1] = consoleType /\ b = Written(p, 1)
      BY <2>2, <2>3 DEF Octets
    <3> HIDE DEF p
    <3>2. 1 \in Octets
      BY DEF Octets
    <3>3. /\ Written(p, 1) \in [0..BufSize - 1 -> Octets]
          /\ Written(p, 1)[0] = buf[0]
          /\ Written(p, 1)[1] = buf[1]
          /\ Written(p, 1)[2] = 1
          /\ Len(p) >= 1 => Written(p, 1)[3] = p[1]
      BY <3>1, <3>2, <1>b, WrittenShape
    <3> QED
      BY <3>1, <3>3 DEF Octets
  <2> QED
    BY <2>4, <1>0, <1>2, <1>7
<1>8. CASE cur = VALIDATION
  <2>1. PICK v \in {0, 1} : b = Written(<<v>>, 1)
    BY <1>1, <1>8 DEF HandlerResults
  <2>2. <<v>> \in Seq(0..255)
    OBVIOUS
  <2>3. /\ b \in [0..BufSize - 1 -> 0..255]
        /\ b[0] = buf[0] /\ b[1] = buf[1] /\ b[2] = 1
    <3> DEFINE p == <<v>>
    <3>1. p \in Seq(Octets) /\ b = Written(p, 1) /\ 1 \in Octets
      BY <2>1, <2>2 DEF Octets
    <3> HIDE DEF p
    <3>2. /\ b \in [0..BufSize - 1 -> Octets]
          /\ b[0] = buf[0] /\ b[1] = buf[1] /\ b[2] = 1
      BY <3>1, <1>b, WrittenShape
    <3> QED
      BY <3>2 DEF Octets
  <2> QED
    BY <2>3, <1>0, <1>2, <1>8
<1>9. CASE cur = DEVICE
  <2>1. b = Written(<<consoleType>>, 1)
    BY <1>1, <1>9 DEF HandlerResults
  <2>2. <<consoleType>> \in Seq(0..255) /\ Len(<<consoleType>>) = 1 /\ <<consoleType>>[1] = consoleType
    BY <1>3
  <2>4. /\ b \in [0..BufSize - 1 -> 0..255]
        /\ b[0] = buf[0] /\ b[1] = buf[1] /\ b[2] = 1 /\ b[3] = consoleType
    <3> DEFINE p == <<consoleType>>
    <3>1. p \in Seq(Octets) /\ Len(p) >= 1 /\ p[1] = consoleType /\ b = Written(p, 1)
      BY <2>1, <2>2 DEF Octets
    <3> HIDE DEF p
    <3>2. 1 \in Octets
      BY DEF Octets
    <3>3. /\ Written(p, 1) \in [0..BufSize - 1 -> Octets]
          /\ Written(p, 1)[0] = buf[0]
          /\ Written(p, 1)[1] = buf[1]
          /\ Written(p, 1)[2] = 1
          /\ Len(p) >= 1 => Written(p, 1)[3] = p[1]
      BY <3>1, <3>2, <1>b, WrittenShape
    <3> QED
      BY <3>1, <3>3 DEF Octets
  <2> QED
    BY <2>4, <1>0, <1>2, <1>9
<1>10. CASE cur = CONTROL
  <2>1. CASE buf[3] = H2D
    <3>1. PICK n \in {0, 1} : b = [buf EXCEPT ![2] = Min2(n, buf[4])]
      BY <1>1, <1>10, <2>1 DEF HandlerResults
    <3>2. Min2(n, buf[4]) \in {0, 1}
      BY <1>4 DEF Min2
    <3> QED
      BY <3>1, <3>2, <2>1, <1>0, <1>1, <1>2, <1>10
  <2>2. CASE buf[3] # H2D
    <3>1. PICK p \in Payloads(1) : b = Written(p, Min2(Len(p), buf[4]))
      BY <1>1, <1>10, <2>2 DEF HandlerResults
    <3> DEFINE n == Len(p)
    <3>2. p \in Seq(0..255) /\ n \in Nat /\ n <= 1
      BY PayloadShape
    <3> DEFINE m == Min2(n, buf[4])
    <3> HIDE DEF n
    <3>3. m \in {0, 1} /\ m \in 0..255
      <4>1. n \in {0, 1}
        BY <3>2
      <4>2. m = n \/ (m = buf[4] /\ buf[4] < n)
        BY <4>1, <1>4 DEF Min2
      <4> QED
        BY <4>1, <4>2, <1>4
    <3>4. b = Written(p, m)
      BY <3>1 DEF n
    <3> HIDE DEF m
    <3>5. /\ b \in [0..BufSize - 1 -> 0..255]
          /\ b[0] = buf[0] /\ b[1] = buf[1] /\ b[2] = m
      <4>1. p \in Seq(Octets) /\ m \in Octets
        BY <3>2, <3>3 DEF Octets
      <4>2. /\ b \in [0..BufSize - 1 -> Octets]
            /\ b[0] = buf[0] /\ b[1] = buf[1] /\ b[2] = m
        BY <3>4, <4>1, <1>b, WrittenShape
      <4> QED
        BY <4>2 DEF Octets
    <3>6. setup[1] # H2D
      BY <2>2, <1>2, <1>10
    <3> QED
      BY <3>3, <3>5, <3>6, <1>0, <1>2, <1>10
  <2> QED
    BY <2>1, <2>2
<1> QED
  BY <1>1, <1>5, <1>6, <1>7, <1>8, <1>9, <1>10 DEF Requests

-----------------------------------------------------------------------------
(* Types. *)

\* Packet ids are bytes.
LEMMA IdsAreBytes == Requests \subseteq 1..255 /\ {USB_READY, RESTART, VALID_PACKET, H2D, D2H} \subseteq 0..255
BY DEF Requests, REQUEST, TRANSMIT, DESCRIPTOR, VALIDATION, DEVICE, CONTROL, USB_READY, RESTART,
       VALID_PACKET, H2D, D2H

\* A setup packet is a payload of two bytes.
LEMMA SetupShape ==
  ASSUME NEW s \in {H2D, D2H} \X {0, 1}
  PROVE  s \in Seq(0..255) /\ Len(s) = 2 /\ s[1] \in {H2D, D2H} /\ s[2] \in {0, 1}
<1>1. PICK a \in {H2D, D2H}, b \in {0, 1} : s = <<a, b>>
  OBVIOUS
<1>2. a \in 0..255 /\ b \in 0..255
  BY IdsAreBytes
<1> QED
  BY <1>1, <1>2

\* A byte taken from the ring, and what is left in it.
LEMMA TakeByte ==
  ASSUME TypeOK, toHost # <<>>
  PROVE  Head(toHost) \in 0..255 /\ Tail(toHost) \in Seq(0..255)
BY HeadTailProperties DEF TypeOK

\* The data of a request follow its setup packet.
LEMMA ControlShape ==
  ASSUME TypeOK, NEW d \in [1..(IF HostToDev THEN setup[2] ELSE 0) -> DataBytes]
  PROVE  /\ setup \o d \in Seq(0..255)
         /\ Len(setup \o d) >= 2 /\ Len(setup \o d) <= 3
         /\ (setup \o d)[1] = setup[1] /\ (setup \o d)[2] = setup[2]
<1>1. setup \in Seq(0..255) /\ Len(setup) = 2 /\ setup[2] \in {0, 1}
  BY SetupShape DEF TypeOK
<1> DEFINE n == IF HostToDev THEN setup[2] ELSE 0
<1>2. n \in {0, 1}
  BY <1>1
<1> HIDE DEF n
<1>3. d \in Seq(0..255) /\ Len(d) = n
  <2>1. d \in [1..n -> DataBytes]
    BY DEF n
  <2>2. d \in Seq(DataBytes) /\ Len(d) = n
    BY <2>1, <1>2
  <2>3. DataBytes \subseteq 0..255
    BY LinkAssumption
  <2>4. d \in Seq(0..255)
    <3> DEFINE B == 0..255
    <3>1. DataBytes \subseteq B
      BY <2>3
    <3> HIDE DEF B
    <3>2. d \in Seq(B)
      BY <2>2, <3>1, SeqMonotonic
    <3> QED
      BY <3>2 DEF B
  <2> QED
    BY <2>2, <2>4
<1>4. /\ setup \o d \in Seq(0..255) /\ Len(setup \o d) = Len(setup) + Len(d)
      /\ \A i \in 1..Len(setup) + Len(d) :
           (setup \o d)[i] = IF i <= Len(setup) THEN setup[i] ELSE d[i - Len(setup)]
  <2> DEFINE B == 0..255
  <2>1. setup \in Seq(B) /\ d \in Seq(B)
    BY <1>1, <1>3
  <2> HIDE DEF B
  <2>2. /\ setup \o d \in Seq(B) /\ Len(setup \o d) = Len(setup) + Len(d)
        /\ \A i \in 1..Len(setup) + Len(d) :
             (setup \o d)[i] = IF i <= Len(setup) THEN setup[i] ELSE d[i - Len(setup)]
    BY <2>1, ConcatProperties, Zenon
  <2> QED
    BY <2>2 DEF B
<1>5. Len(setup \o d) = 2 + n
  BY <1>1, <1>3, <1>4
<1>6. 1 \in 1..2 + n /\ 2 \in 1..2 + n
  BY <1>2
<1>7. (setup \o d)[1] = setup[1] /\ (setup \o d)[2] = setup[2]
  BY <1>1, <1>3, <1>4, <1>6
<1> QED
  BY <1>2, <1>4, <1>5, <1>7
-----------------------------------------------------------------------------
(* The 8u2 asks. *)

\* One byte is a payload.
LEMMA OneByte ==
  ASSUME NEW a \in 0..255
  PROVE  <<a>> \in Seq(0..255) /\ Len(<<a>>) = 1 /\ <<a>>[1] = a
OBVIOUS

\* What a packet of each kind carries.
Fits(id, p) ==
  /\ id \in Requests /\ p \in Seq(0..255) /\ HeaderLen + Len(p) <= BufSize
  /\ id = DESCRIPTOR => Len(p) >= 1 /\ p[1] = 1
  /\ id \in {VALIDATION, CONTROL} => Len(p) >= 2 /\ p[1] = setup'[1] /\ p[2] = setup'[2]

\* A packet written into an empty ring is what is on the wire.
LEMMA PacketSent ==
  ASSUME BufFits, TypeOK, toMega = <<>>, NEW id \in 0..255, NEW p \in Seq(0..255),
         HeaderLen + Len(p) <= BufSize, toMega' = toMega \o Packet(id, p)
  PROVE  /\ toMega' \in Seq(0..255)
         /\ Len(toMega') = HeaderLen + Len(p) /\ Len(p) \in Nat
         /\ toMega' # <<>>
         /\ toMega'[1] = VALID_PACKET /\ toMega'[2] = id /\ toMega'[3] = HeaderLen + Len(p)
         /\ Len(p) >= 1 => toMega'[4] = p[1]
         /\ Len(p) >= 2 => toMega'[5] = p[2]
<1>0. Len(p) \in Nat /\ Len(p) <= 252
  <2> DEFINE n == Len(p)
  <2>1. n \in Nat /\ 3 + n <= BufSize /\ BufSize \in 6..255
    BY DEF BufFits, HeaderLen
  <2> HIDE DEF n
  <2>2. n \in Nat /\ n <= 252
    BY <2>1
  <2> QED
    BY <2>2 DEF n
<1>1. /\ Packet(id, p) \in Seq(0..255)
      /\ Len(Packet(id, p)) = HeaderLen + Len(p)
      /\ Packet(id, p)[1] = VALID_PACKET
      /\ Packet(id, p)[2] = id
      /\ Packet(id, p)[3] = HeaderLen + Len(p)
      /\ \A i \in 1..Len(p) : Packet(id, p)[HeaderLen + i] = p[i]
  BY <1>0, PacketShape, ZenonT(30)
<1>2. toMega' = Packet(id, p)
  BY <1>1, ConcatEmptySeq
<1>3. HeaderLen + 1 = 4 /\ HeaderLen + 2 = 5 /\ HeaderLen + Len(p) > 0
  BY <1>0 DEF HeaderLen
<1>4. toMega' # <<>>
  BY <1>0, <1>1, <1>2, <1>3
<1>5. Len(p) >= 1 => toMega'[4] = p[1]
  BY <1>0, <1>1, <1>2, <1>3
<1>6. Len(p) >= 2 => toMega'[5] = p[2]
  BY <1>0, <1>1, <1>2, <1>3
<1> QED
  BY <1>0, <1>1, <1>2, <1>4, <1>5, <1>6

\* Asking a quiet 328p while nothing that is left over looks like a packet.
LEMMA AskStep ==
  ASSUME BufFits, IInv, MegaQuiet, idxTX = 0,
         NEW id, NEW p, Fits(id, p), Ask(id, p),
         setup' \in {H2D, D2H} \X {0, 1}, id = DESCRIPTOR => setup'[1] = D2H,
         toHost' \in Seq(0..255),
         \A i \in 1..Len(Out') : Out'[i] # VALID_PACKET,
         configured' \in BOOLEAN, seen' \subseteq Consoles,
         attached => usb_ready,
         UNCHANGED <<type, left, attached, suspends, rxVars, handling, txVars, detectVars, answer>>
  PROVE  IInv'
<1>t. TypeOK
  BY DEF IInv
<1>0. BufSize \in 6..255 /\ HeaderLen = 3
  BY DEF BufFits, HeaderLen
<1>1. /\ p \in Seq(0..255) /\ HeaderLen + Len(p) <= BufSize /\ id \in Requests /\ id \in 0..255
      /\ toMega = <<>> /\ idx = 0 /\ ~ready /\ handling = 0
  BY IdsAreBytes DEF Fits, MegaQuiet
<1>2. /\ toMega' = toMega \o Packet(id, p)
      /\ pc8' = "parse" /\ cur' = id /\ hstate' = "NO_PACKET"
  BY DEF Ask
<1>3. /\ toMega' \in Seq(0..255)
      /\ Len(toMega') = HeaderLen + Len(p) /\ Len(p) \in Nat
      /\ toMega' # <<>>
      /\ toMega'[1] = VALID_PACKET /\ toMega'[2] = id /\ toMega'[3] = HeaderLen + Len(p)
      /\ Len(p) >= 1 => toMega'[4] = p[1]
      /\ Len(p) >= 2 => toMega'[5] = p[2]
  BY <1>t, <1>1, <1>2, PacketSent
<1>4. /\ UNCHANGED <<type, left, attached, suspends, buf, idx, ready, handling, idxTX, bufTX, uart,
                    consoleType, should_reload_usb, usb_ready, answer>>
      /\ idx' = 0 /\ ~ready' /\ handling' = 0 /\ idxTX' = 0
  BY <1>1 DEF rxVars, txVars, detectVars
<1>5. ~MegaQuiet'
  BY <1>3 DEF MegaQuiet
<1>6. TypeOK'
  <2>1. /\ pc8' \in {"idle", "parse"} /\ cur' \in Requests /\ setup' \in {H2D, D2H} \X {0, 1}
        /\ hstate' \in {"NO_PACKET", "READ_PACKET_TYPE", "READ_LENGTH", "READ_AND_RETURN", "DATA"}
    BY <1>1, <1>2
  <2>2. /\ type' \in 0..255 /\ left' \in 0..255 /\ suspends' \in 0..MaxSuspends
        /\ toMega' \in Seq(0..255) /\ toHost' \in Seq(0..255)
        /\ buf' \in [0..BufSize - 1 -> 0..255] /\ idx' \in 0..BufSize
        /\ idxTX' \in 0..255 /\ bufTX' \in 0..BufSize
        /\ uart' \in Seq(0..255) /\ Len(uart') <= 2
    BY <1>t, <1>3, <1>4 DEF TypeOK
  <2>3. configured' \in BOOLEAN /\ seen' \subseteq Consoles
    OBVIOUS
  <2>4. attached' \in BOOLEAN /\ ready' \in BOOLEAN /\ handling' \in {0} \cup Requests
    BY <1>t, <1>1, <1>4 DEF TypeOK
  <2>5. /\ should_reload_usb' \in BOOLEAN /\ usb_ready' \in BOOLEAN
        /\ consoleType' \in Consoles /\ answer'.console \in Consoles
    BY <1>t, <1>4 DEF TypeOK
  <2> QED
    BY <2>1, <2>2, <2>3, <2>4, <2>5 DEF TypeOK
<1>7. TakeTurns'
  BY <1>2, <1>4, <1>5 DEF TakeTurns, REQUEST, TRANSMIT
<1>8. \A i \in 0..4 : Byte(i)' = toMega'[i + 1]
  BY <1>4 DEF Byte
<1>9. /\ Byte(0)' = VALID_PACKET /\ Byte(1)' = id /\ Byte(2)' = HeaderLen + Len(p)
      /\ Len(p) >= 1 => Byte(3)' = p[1]
      /\ Len(p) >= 2 => Byte(4)' = p[2]
  BY <1>3, <1>8
<1>10. Framed'
  <2>1. idx' + Len(toMega') = HeaderLen + Len(p)
    BY <1>0, <1>3, <1>4
  <2>2. id = DESCRIPTOR => HeaderLen + Len(p) > 3
    BY <1>0, <1>3 DEF Fits
  <2>3. id \in {VALIDATION, CONTROL} => HeaderLen + Len(p) > 4
    BY <1>0, <1>3 DEF Fits
  <2>4. HeaderLen <= HeaderLen + Len(p)
    BY <1>0, <1>3
  <2> QED
    BY <2>1, <2>2, <2>3, <2>4, <1>1, <1>2, <1>9 DEF Framed
<1>11. Carried'
  BY <1>2, <1>9 DEF Carried, Fits
<1>12. Answered' /\ Reading'
  BY <1>5 DEF Answered, Reading
<1>13. Harmless'
  BY DEF Harmless
<1>14. KeepsLoading' /\ DescriptorsRead' /\ UpToDate'
  BY <1>2, <1>4 DEF KeepsLoading, DescriptorsRead, UpToDate
<1> QED
  BY <1>6, <1>7, <1>10, <1>11, <1>12, <1>13, <1>14 DEF IInv

\* The host's requests keep the invariant.
LEMMA PollStep ==
  ASSUME QuietHost, BufFits, IInv,
         NEW id, NEW p, Fits(id, p), Ask(id, p), Poll,
         setup' \in {H2D, D2H} \X {0, 1}, id = DESCRIPTOR => setup'[1] = D2H
  PROVE  IInv'
<1>t. TypeOK
  BY DEF IInv
<1>1. MegaQuiet /\ pc8 = "idle" /\ attached
  BY DEF Poll, QuietHost
<1>2. idxTX = 0 /\ usb_ready
  BY <1>1 DEF IInv, TakeTurns, UpToDate
<1>3. \A i \in 1..Len(Out) : Out[i] # VALID_PACKET
  BY <1>1 DEF IInv, Harmless
<1>4. UNCHANGED <<type, left, configured, attached, suspends, toHost, rxVars,
                  handling, txVars, detectVars, seen, answer>>
  BY DEF Poll
<1>5. Out' = Out
  BY <1>4 DEF Out, txVars
<1>6. \A i \in 1..Len(Out') : Out'[i] # VALID_PACKET
  BY <1>3, <1>5
<1>7. toHost' \in Seq(0..255) /\ configured' \in BOOLEAN /\ seen' \subseteq Consoles
  BY <1>t, <1>4 DEF TypeOK
<1> QED
  BY <1>1, <1>2, <1>4, <1>6, <1>7, AskStep

LEMMA RequestSteps ==
  ASSUME QuietHost, BufFits, IInv,
         \/ RequestReport \/ \E d \in DataBytes : TransmitReport(d)
         \/ GetDescriptor \/ ConfigurationChanged
         \/ \E dir \in {H2D, D2H}, w \in {0, 1} : ControlRequest(dir, w)
  PROVE  IInv'
<1>0. /\ {REQUEST, TRANSMIT, DESCRIPTOR, DEVICE, VALIDATION} \subseteq Requests
      /\ DESCRIPTOR \notin {REQUEST, TRANSMIT, DEVICE, VALIDATION}
      /\ \A id \in {REQUEST, TRANSMIT, DEVICE, DESCRIPTOR} : id \notin {VALIDATION, CONTROL}
  BY DEF Requests, REQUEST, TRANSMIT, DESCRIPTOR, DEVICE, VALIDATION, CONTROL
<1>s. setup \in {H2D, D2H} \X {0, 1} /\ BufSize \in Nat /\ BufSize >= 6 /\ HeaderLen = 3
  BY DEF IInv, TypeOK, BufFits, HeaderLen
<1>e. <<>> \in Seq(0..255) /\ Len(<<>>) = 0
  BY EmptySeq
<1>1. ASSUME NEW id \in {REQUEST, DEVICE}, Ask(id, <<>>), Poll, setup' \in {H2D, D2H} \X {0, 1}
      PROVE  IInv'
  <2> DEFINE p == <<>>
  <2>1. p \in Seq(0..255) /\ Len(p) = 0 /\ Ask(id, p)
    BY <1>e, <1>1
  <2> HIDE DEF p
  <2>2. HeaderLen + Len(p) <= BufSize
    BY <2>1, <1>s
  <2>3. Fits(id, p)
    BY <2>1, <2>2, <1>0, <1>1 DEF Fits
  <2> QED
    BY <2>1, <2>3, <1>0, <1>1, PollStep
<1>2. CASE RequestReport
  BY <1>s, <1>1, <1>2 DEF RequestReport
<1>3. ASSUME NEW d \in DataBytes, TransmitReport(d) PROVE IInv'
  <2> DEFINE p == <<d>>
  <2>1. p \in Seq(0..255) /\ Len(p) = 1
    BY OneByte, LinkAssumption
  <2>2. Ask(TRANSMIT, p) /\ Poll /\ UNCHANGED setup
    BY <1>3 DEF TransmitReport
  <2> HIDE DEF p
  <2>3. Fits(TRANSMIT, p)
    <3>1. HeaderLen + Len(p) <= BufSize
      BY <2>1, <1>s
    <3> QED
      BY <2>1, <3>1, <1>0 DEF Fits
  <2> QED
    BY <2>2, <2>3, <1>0, <1>s, PollStep
<1>4. CASE GetDescriptor
  <2> DEFINE p == <<1>>
  <2>1. p \in Seq(0..255) /\ Len(p) = 1 /\ p[1] = 1
    BY OneByte
  <2>2. Ask(DESCRIPTOR, p) /\ Poll /\ setup' = <<D2H, 1>>
    BY <1>4 DEF GetDescriptor
  <2> HIDE DEF p
  <2>3. Fits(DESCRIPTOR, p)
    <3>1. HeaderLen + Len(p) <= BufSize
      BY <2>1, <1>s
    <3> QED
      BY <2>1, <3>1, <1>0 DEF Fits
  <2>4. setup' \in {H2D, D2H} \X {0, 1} /\ setup'[1] = D2H
    BY <2>2
  <2> QED
    BY <2>2, <2>3, <2>4, PollStep
<1>5. CASE ConfigurationChanged
  <2>1. Ask(DEVICE, <<>>) /\ Poll /\ setup' = <<H2D, 0>>
    BY <1>5 DEF ConfigurationChanged
  <2>2. setup' \in {H2D, D2H} \X {0, 1}
    BY <2>1
  <2> QED
    BY <1>1, <2>1, <2>2
<1>6. ASSUME NEW dir \in {H2D, D2H}, NEW w \in {0, 1}, ControlRequest(dir, w) PROVE IInv'
  <2> DEFINE p == <<dir, w>>
  <2>1. p \in {H2D, D2H} \X {0, 1}
    OBVIOUS
  <2>2. Ask(VALIDATION, p) /\ Poll /\ setup' = p
    BY <1>6 DEF ControlRequest
  <2> HIDE DEF p
  <2>3. p \in Seq(0..255) /\ Len(p) = 2
    BY <2>1, SetupShape
  <2>4. Fits(VALIDATION, p)
    BY <2>2, <2>3, <1>0, <1>s DEF Fits
  <2> QED
    BY <2>1, <2>2, <2>4, <1>0, PollStep
<1> QED
  BY <1>2, <1>3, <1>4, <1>5, <1>6

\* write_ready sends its packet while the 8u2 waits for nothing.
LEMMA WriteReadyStep ==
  ASSUME QuietHost, BufFits, IInv, Connect \/ Disconnect
  PROVE  IInv'
<1>t. TypeOK
  BY DEF IInv
<1>0. BufSize \in 6..255 /\ HeaderLen = 3
  BY DEF BufFits, HeaderLen
<1>1. PICK up \in BOOLEAN : WriteReady(up) /\ suspends' \in 0..MaxSuspends
  <2>1. CASE Connect
    BY <1>t, <2>1 DEF Connect, TypeOK
  <2>2. CASE Disconnect
    <3>1. suspends \in Nat /\ suspends < MaxSuspends /\ suspends' = suspends + 1 /\ MaxSuspends \in Nat
      BY <1>t, <2>2, LinkAssumption DEF Disconnect, TypeOK
    <3>2. suspends' \in 0..MaxSuspends
      BY <3>1
    <3> QED
      BY <2>2, <3>2 DEF Disconnect
  <2> QED
    BY <2>1, <2>2
<1> DEFINE b == IF up THEN 1 ELSE 0
           p == <<b>>
<1>2. b \in 0..255
  OBVIOUS
<1>3. p \in Seq(0..255) /\ Len(p) = 1 /\ p[1] = b
  <2> HIDE DEF b
  <2> QED
    BY <1>2, OneByte
<1>4. /\ toMega' = toMega \o Packet(USB_READY, p)
      /\ pc8 = "idle" /\ MegaQuiet /\ attached' = up
      /\ UNCHANGED <<pc8, cur, setup, hstate, type, left, configured, toHost, rxVars,
                     handling, txVars, detectVars, seen, answer>>
  BY <1>1 DEF WriteReady, QuietHost
<1>5. attached' \in BOOLEAN /\ b = IF attached' THEN 1 ELSE 0
  BY <1>4
<1> HIDE DEF b, p
<1>6. toMega = <<>> /\ idx = 0 /\ ~ready /\ handling = 0 /\ idxTX = 0
  BY <1>4 DEF MegaQuiet, IInv, TakeTurns
<1>7. /\ toMega' \in Seq(0..255)
      /\ Len(toMega') = 4
      /\ toMega' # <<>>
      /\ toMega'[1] = VALID_PACKET /\ toMega'[2] = USB_READY /\ toMega'[3] = 4
      /\ toMega'[4] = b
  <2>1. /\ toMega' \in Seq(0..255)
        /\ Len(toMega') = HeaderLen + Len(p) /\ Len(p) \in Nat
        /\ toMega' # <<>>
        /\ toMega'[1] = VALID_PACKET /\ toMega'[2] = USB_READY /\ toMega'[3] = HeaderLen + Len(p)
        /\ Len(p) >= 1 => toMega'[4] = p[1]
    <3>1. HeaderLen + Len(p) <= BufSize /\ USB_READY \in 0..255
      BY <1>0, <1>3, IdsAreBytes
    <3> QED
      BY <3>1, <1>t, <1>3, <1>4, <1>6, PacketSent
  <2>2. HeaderLen + Len(p) = 4 /\ Len(p) >= 1
    BY <1>0, <1>3
  <2> QED
    BY <2>1, <2>2, <1>3
<1>8. /\ UNCHANGED <<type, left, buf, idx, ready, handling, idxTX, bufTX, uart,
                    consoleType, should_reload_usb, usb_ready, answer>>
      /\ idx' = 0 /\ ~ready' /\ handling' = 0 /\ idxTX' = 0 /\ pc8' = "idle"
  BY <1>4, <1>6 DEF rxVars, txVars, detectVars
<1>9. ~MegaQuiet'
  BY <1>7 DEF MegaQuiet
<1>10. TypeOK'
  <2>1. UNCHANGED <<pc8, cur, setup, hstate, type, left, configured, toHost, seen>>
    BY <1>4
  <2>2. suspends' \in 0..MaxSuspends
    BY <1>1
  <2> QED
    BY <1>t, <1>5, <1>7, <1>8, <2>1, <2>2 DEF TypeOK
<1>11. TakeTurns'
  BY <1>8, <1>9 DEF TakeTurns, REQUEST, TRANSMIT
<1>12. \A i \in 0..4 : Byte(i)' = toMega'[i + 1]
  BY <1>8 DEF Byte
<1>13. Byte(0)' = VALID_PACKET /\ Byte(1)' = USB_READY /\ Byte(2)' = 4 /\ Byte(3)' = b
  BY <1>7, <1>12
<1>14. Framed'
  <2>1. idx' + Len(toMega') = 4 /\ HeaderLen <= 4 /\ 4 <= BufSize /\ 4 > 3
    BY <1>0, <1>7, <1>8
  <2>2. pc8' # "parse"
    BY <1>8
  <2> QED
    BY <2>1, <2>2, <1>13 DEF Framed
<1>15. Carried'
  BY <1>5, <1>8, <1>13 DEF Carried
<1>16. Answered' /\ Reading'
  BY <1>9 DEF Answered, Reading
<1>17. Harmless'
  BY <1>4, <1>8 DEF IInv, Harmless, Out
<1>18. KeepsLoading' /\ DescriptorsRead' /\ UpToDate'
  BY <1>4, <1>8, <1>9 DEF IInv, KeepsLoading, DescriptorsRead, UpToDate
<1> QED
  BY <1>10, <1>11, <1>14, <1>15, <1>16, <1>17, <1>18 DEF IInv

-----------------------------------------------------------------------------
(* Steps that leave the exchange alone. *)

\* The invariant is about the two processors' talk, not about what the 328p detects.
LEMMA FrameStep ==
  ASSUME IInv, TypeOK',
         UNCHANGED <<pc8, cur, setup, hstate, type, left, attached, toMega, toHost, rxVars,
                     handling, txVars, usb_ready, answer>>
  PROVE  IInv'
<1> USE DEF rxVars, txVars
<1>1. UNCHANGED <<MegaQuiet, Inbound, Out, Strays, Taken, InControl>>
  BY DEF MegaQuiet, Inbound, Out, Strays, Taken, InControl
<1>2. \A i \in 0..4 : Byte(i)' = Byte(i)
  BY DEF Byte
<1>3. TakeTurns'
  BY <1>1 DEF IInv, TakeTurns
<1>4. Framed'
  BY <1>1, <1>2 DEF IInv, Framed
<1>5. Carried'
  BY <1>1, <1>2 DEF IInv, Carried
<1>6. Answered'
  BY <1>1 DEF IInv, Answered
<1>7. Reading'
  BY <1>1 DEF IInv, Reading
<1>8. Harmless' /\ KeepsLoading' /\ DescriptorsRead' /\ UpToDate'
  BY <1>1 DEF IInv, Harmless, KeepsLoading, DescriptorsRead, UpToDate
<1> QED
  BY <1>3, <1>4, <1>5, <1>6, <1>7, <1>8 DEF IInv

LEMMA StutterStep ==
  ASSUME IInv, UNCHANGED vars
  PROVE  IInv'
<1> USE DEF vars, vars8, rxVars, txVars, detectVars
<1>1. TypeOK'
  BY SMTT(30) DEF IInv, TypeOK
<1> QED
  BY <1>1, FrameStep

LEMMA BusResetStep ==
  ASSUME IInv, BusReset
  PROVE  IInv'
<1>1. TypeOK'
  <2>1. configured' \in BOOLEAN /\ seen' \subseteq Consoles
    BY DEF BusReset
  <2>2. UNCHANGED <<pc8, cur, setup, hstate, type, left, attached, suspends, toMega, toHost,
                    rxVars, handling, txVars, detectVars, answer>>
    BY DEF BusReset
  <2> QED
    BY <2>1, <2>2 DEF IInv, TypeOK, rxVars, txVars, detectVars
<1> QED
  BY <1>1, FrameStep DEF BusReset, detectVars

LEMMA DetectStep ==
  ASSUME IInv, NEW c \in Consoles, Detect(c)
  PROVE  IInv'
<1>1. TypeOK'
  BY DEF IInv, TypeOK, Detect, rest3, vars8, rxVars, txVars
<1> QED
  BY <1>1, FrameStep DEF Detect, rest3, vars8

\* The 8u2 goes back to its main loop when the answer has been sent in full.
LEMMA ToIdleStep ==
  ASSUME IInv, TypeOK', MegaQuiet, idxTX = 0, pc8 = "parse",
         pc8' = "idle", toMega' = <<>>, attached' => attached,
         \A i \in 1..Len(Out') : Out'[i] # VALID_PACKET,
         UNCHANGED <<cur, setup, rxVars, handling, txVars, usb_ready>>
  PROVE  IInv'
<1>1. /\ toMega' = <<>> /\ idx' = 0 /\ ~ready' /\ handling' = 0 /\ idxTX' = 0
      /\ UNCHANGED <<usb_ready, cur, setup>>
  BY DEF MegaQuiet, rxVars, txVars
<1>2. MegaQuiet' /\ ~Inbound'
  BY <1>1 DEF MegaQuiet, Inbound
<1>3. TakeTurns'
  BY <1>1, <1>2 DEF TakeTurns, REQUEST, TRANSMIT
<1>4. Framed' /\ Carried'
  BY <1>2 DEF Framed, Carried
<1>5. Answered' /\ Reading'
  BY DEF Answered, Reading
<1>6. Harmless'
  BY DEF Harmless
<1>7. KeepsLoading' /\ DescriptorsRead'
  BY <1>1 DEF IInv, KeepsLoading, DescriptorsRead
<1>8. UpToDate'
  BY <1>1 DEF IInv, UpToDate
<1> QED
  BY <1>3, <1>4, <1>5, <1>6, <1>7, <1>8 DEF IInv

\* A reboot of both leaves nothing under way.
LEMMA RebootStep ==
  ASSUME BufFits, IInv, Reboot
  PROVE  IInv'
<1>1. /\ pc8' = "idle" /\ attached' = FALSE /\ UNCHANGED <<cur, setup>>
      /\ toMega' = <<>> /\ toHost' = <<>> /\ uart' = <<>>
      /\ idx' = 0 /\ ready' = FALSE /\ handling' = 0 /\ idxTX' = 0 /\ bufTX' = 0
  BY DEF Reboot
<1>2. BufSize \in 6..255
  BY DEF BufFits
<1>3. TypeOK'
  <2>1. <<>> \in Seq(0..255) /\ Len(<<>>) = 0
    BY EmptySeq
  <2>2. buf' \in [0..BufSize - 1 -> 0..255]
    BY DEF Reboot
  <2>3. 0 \in 0..255 /\ 0 \in 0..BufSize /\ {} \subseteq Consoles /\ Universal \in Consoles
    BY <1>2, LinkAssumption
  <2>4. UNCHANGED <<pc8, suspends, answer>> /\ hstate' = "NO_PACKET" /\ type' = 0 /\ left' = 0
        /\ configured' = FALSE /\ seen' = {}
        /\ consoleType' = Universal /\ should_reload_usb' = FALSE /\ usb_ready' = FALSE
    BY DEF Reboot
  <2>5. toMega' \in Seq(0..255) /\ toHost' \in Seq(0..255) /\ uart' \in Seq(0..255) /\ Len(uart') <= 2
    BY <1>1, <2>1
  <2> QED
    BY <1>1, <2>2, <2>3, <2>4, <2>5 DEF IInv, TypeOK
<1>4. MegaQuiet' /\ ~Inbound'
  BY <1>1 DEF MegaQuiet, Inbound
<1>5. TakeTurns'
  BY <1>1, <1>4 DEF TakeTurns, REQUEST, TRANSMIT
<1>6. Framed' /\ Carried' /\ Answered' /\ Reading'
  BY <1>1, <1>4 DEF Framed, Carried, Answered, Reading
<1>7. Harmless'
  <2>1. Out' = <<>> /\ Len(<<>>) = 0
    BY <1>1, EmptySeq, ConcatEmptySeq DEF Out
  <2> QED
    BY <2>1 DEF Harmless
<1>8. KeepsLoading' /\ DescriptorsRead' /\ UpToDate'
  BY <1>1 DEF IInv, KeepsLoading, DescriptorsRead, UpToDate
<1> QED
  BY <1>3, <1>5, <1>6, <1>7, <1>8 DEF IInv

-----------------------------------------------------------------------------
(* The 8u2 reads. *)

\* What is on the way to the 8u2 is a sequence of bytes.
LEMMA OutShape ==
  ASSUME TypeOK
  PROVE  /\ Out \in Seq(0..255) /\ Len(Out) = Len(toHost) + Len(uart)
         /\ Len(toHost) \in Nat /\ Len(uart) \in Nat
         /\ \A i \in 1..Len(toHost) : Out[i] = toHost[i]
<1>1. toHost \in Seq(0..255) /\ uart \in Seq(0..255)
  BY DEF TypeOK
<1>2. Len(toHost) \in Nat /\ Len(uart) \in Nat
  BY <1>1
<1>3. /\ toHost \o uart \in Seq(0..255) /\ Len(toHost \o uart) = Len(toHost) + Len(uart)
      /\ \A i \in 1..Len(toHost) + Len(uart) :
           (toHost \o uart)[i] = IF i <= Len(toHost) THEN toHost[i] ELSE uart[i - Len(toHost)]
  BY <1>1, ConcatProperties
<1>4. \A i \in 1..Len(toHost) : i \in 1..Len(toHost) + Len(uart) /\ i <= Len(toHost)
  BY <1>2
<1> QED
  BY <1>2, <1>3, <1>4 DEF Out

\* The parser's position in the answer.
LEMMA TakenShape ==
  /\ Taken \in {0, 1, 2, 3}
  /\ hstate = "NO_PACKET" <=> Taken = 0
  /\ hstate = "READ_PACKET_TYPE" <=> Taken = 1
  /\ hstate = "READ_LENGTH" <=> Taken = 2
  /\ hstate \notin {"NO_PACKET", "READ_PACKET_TYPE", "READ_LENGTH"} <=> Taken = 3
<1>1. CASE hstate = "NO_PACKET"
  BY <1>1 DEF Taken, HeaderLen
<1>2. CASE hstate = "READ_PACKET_TYPE"
  BY <1>2 DEF Taken, HeaderLen
<1>3. CASE hstate = "READ_LENGTH"
  BY <1>3 DEF Taken, HeaderLen
<1>4. CASE hstate \notin {"NO_PACKET", "READ_PACKET_TYPE", "READ_LENGTH"}
  BY <1>4 DEF Taken, HeaderLen
<1> QED
  BY <1>1, <1>2, <1>3, <1>4

\* Reading a byte: the first of what is on its way is gone.
LEMMA OutRead ==
  ASSUME TypeOK, toHost # <<>>, toHost' = Tail(toHost), uart' = uart
  PROVE  /\ Head(toHost) = Out[1] /\ Head(toHost) \in 0..255
         /\ toHost' \in Seq(0..255)
         /\ Len(Out) \in Nat /\ Len(Out) >= 1 /\ Len(Out') = Len(Out) - 1
         /\ \A i \in 1..Len(Out') : i + 1 \in 1..Len(Out) /\ Out'[i] = Out[i + 1]
<1>1. toHost \in Seq(0..255) /\ uart \in Seq(0..255)
  BY DEF TypeOK
<1>2. /\ Head(toHost) = (toHost \o uart)[1]
      /\ Tail(toHost) \o uart \in Seq(0..255)
      /\ Len(toHost \o uart) >= 1
      /\ Len(Tail(toHost) \o uart) = Len(toHost \o uart) - 1
      /\ \A i \in 1..Len(toHost \o uart) - 1 : (Tail(toHost) \o uart)[i] = (toHost \o uart)[i + 1]
  BY <1>1, ReadOut
<1>3. Out = toHost \o uart /\ Out' = Tail(toHost) \o uart
  BY DEF Out
<1>4. Len(Out) \in Nat
  BY OutShape
<1>5. /\ Len(Out) >= 1 /\ Len(Out') = Len(Out) - 1 /\ Head(toHost) = Out[1]
      /\ \A i \in 1..Len(Out) - 1 : Out'[i] = Out[i + 1]
  BY <1>2, <1>3
<1>6. \A i \in 1..Len(Out) - 1 : i + 1 \in 1..Len(Out)
  BY <1>4
<1>7. Head(toHost) \in 0..255 /\ Tail(toHost) \in Seq(0..255)
  BY TakeByte
<1> QED
  BY <1>4, <1>5, <1>6, <1>7

\* The byte read is a left-over one, which is skipped, or the answer's next one.
LEMMA NextByte ==
  ASSUME IInv, pc8 = "parse", MegaQuiet, toHost # <<>>, toHost' = Tail(toHost), uart' = uart
  PROVE  /\ Strays \in Nat /\ Len(Out) \in Nat /\ bufTX \in Nat
         /\ Strays = Len(Out) - (bufTX - Taken)
         /\ Strays > 0 => Taken = 0 /\ Head(toHost) # VALID_PACKET
         /\ Strays = 0 => Head(toHost) = buf[Taken]
         /\ \A i \in 1..Len(Out') : IF i + 1 <= Strays THEN Out'[i] # VALID_PACKET
                                    ELSE Out'[i] = buf[i - Strays + Taken]
<1>t. TypeOK
  BY DEF IInv
<1>1. /\ Head(toHost) = Out[1] /\ Head(toHost) \in 0..255
      /\ Len(Out) \in Nat /\ Len(Out) >= 1 /\ Len(Out') = Len(Out) - 1
      /\ \A i \in 1..Len(Out') : i + 1 \in 1..Len(Out) /\ Out'[i] = Out[i + 1]
  BY <1>t, OutRead
<1>2. /\ Strays >= 0
      /\ Taken > 0 => Strays = 0
      /\ \A i \in 1..Len(Out) : IF i <= Strays THEN Out[i] # VALID_PACKET
                                ELSE Out[i] = buf[i - 1 - Strays + Taken]
  BY DEF IInv, Reading
<1>3. Taken \in {0, 1, 2, 3} /\ bufTX \in Nat
  BY <1>t, TakenShape DEF TypeOK
<1>4. Strays = Len(Out) - (bufTX - Taken)
  BY DEF Strays
<1>5. Strays \in Nat
  BY <1>1, <1>2, <1>3, <1>4
<1>6. 1 \in 1..Len(Out)
  BY <1>1
<1>7. Strays > 0 => Taken = 0 /\ Head(toHost) # VALID_PACKET
  BY <1>1, <1>2, <1>3, <1>5, <1>6
<1>8. Strays = 0 => Head(toHost) = buf[Taken]
  <2>1. Strays = 0 => ~(1 <= Strays) /\ 1 - 1 - Strays + Taken = Taken
    BY <1>3
  <2> QED
    BY <2>1, <1>1, <1>2, <1>6
<1>9. ASSUME NEW i \in 1..Len(Out')
      PROVE  IF i + 1 <= Strays THEN Out'[i] # VALID_PACKET ELSE Out'[i] = buf[i - Strays + Taken]
  <2>1. i + 1 \in 1..Len(Out) /\ Out'[i] = Out[i + 1]
    BY <1>1
  <2>2. (i + 1) - 1 - Strays + Taken = i - Strays + Taken
    BY <1>1, <1>3, <1>5
  <2> QED
    BY <2>1, <2>2, <1>2
<1> QED
  BY <1>1, <1>3, <1>4, <1>5, <1>7, <1>8, <1>9

\* A byte of the answer is read and the 8u2 goes on reading.
LEMMA ParseStep ==
  ASSUME IInv, TypeOK', pc8 = "parse",
         ~MegaQuiet => hstate' = "NO_PACKET", Reading', Harmless',
         UNCHANGED <<pc8, cur, setup, attached, toMega, rxVars, handling, txVars, usb_ready, answer>>
  PROVE  IInv'
<1> USE DEF rxVars, txVars
<1>1. UNCHANGED <<MegaQuiet, Inbound>>
  BY DEF MegaQuiet, Inbound
<1>2. \A i \in 0..4 : Byte(i)' = Byte(i)
  BY DEF Byte
<1>3. TakeTurns'
  BY <1>1 DEF IInv, TakeTurns
<1>4. Framed'
  BY <1>1, <1>2 DEF IInv, Framed
<1>5. Carried'
  BY <1>1, <1>2 DEF IInv, Carried
<1>6. Answered'
  BY <1>1 DEF IInv, Answered
<1>7. KeepsLoading' /\ DescriptorsRead' /\ UpToDate'
  BY <1>1 DEF IInv, KeepsLoading, DescriptorsRead, UpToDate
<1> QED
  BY <1>3, <1>4, <1>5, <1>6, <1>7 DEF IInv

\* The 8u2 reads past what is left over and finds the answer's first byte.
LEMMA ReadMagicStep ==
  ASSUME IInv, ReadMagic
  PROVE  IInv'
<1>t. TypeOK
  BY DEF IInv
<1>1. /\ pc8 = "parse" /\ hstate = "NO_PACKET" /\ toHost # <<>> /\ toHost' = Tail(toHost)
      /\ hstate' = IF Head(toHost) = VALID_PACKET THEN "READ_PACKET_TYPE" ELSE "NO_PACKET"
      /\ UNCHANGED <<pc8, cur, setup, type, left, configured, attached, suspends, toMega,
                     seen, rest8>>
  BY DEF ReadMagic, ReadByte
<1>2. UNCHANGED <<rxVars, handling, txVars, detectVars, answer, usb_ready>>
  BY <1>1 DEF rest8, detectVars
<1>3. uart' = uart /\ buf' = buf /\ bufTX' = bufTX /\ UNCHANGED MegaQuiet
  BY <1>1, <1>2 DEF txVars, rxVars, MegaQuiet
<1>4. TypeOK'
  <2>1. toHost' \in Seq(0..255)
    BY <1>t, <1>1, TakeByte
  <2> QED
    BY <1>t, <1>1, <1>2, <2>1 DEF TypeOK, rxVars, txVars, detectVars
<1>5. CASE ~MegaQuiet
  <2>1. \A i \in 1..Len(Out) : Out[i] # VALID_PACKET
    BY <1>5 DEF IInv, Harmless
  <2>2. /\ Head(toHost) = Out[1] /\ Len(Out) \in Nat /\ Len(Out) >= 1
        /\ \A i \in 1..Len(Out') : i + 1 \in 1..Len(Out) /\ Out'[i] = Out[i + 1]
    BY <1>t, <1>1, <1>3, OutRead
  <2>3. Head(toHost) # VALID_PACKET
    BY <2>1, <2>2
  <2>4. Harmless'
    BY <2>1, <2>2 DEF Harmless
  <2>5. Reading'
    BY <1>3, <1>5 DEF Reading
  <2> QED
    BY <1>1, <1>2, <1>4, <2>3, <2>4, <2>5, ParseStep
<1>6. CASE MegaQuiet
  <2>1. /\ Strays \in Nat /\ Len(Out) \in Nat /\ bufTX \in Nat
        /\ Strays = Len(Out) - (bufTX - Taken)
        /\ Strays > 0 => Taken = 0 /\ Head(toHost) # VALID_PACKET
        /\ Strays = 0 => Head(toHost) = buf[Taken]
        /\ \A i \in 1..Len(Out') : IF i + 1 <= Strays THEN Out'[i] # VALID_PACKET
                                   ELSE Out'[i] = buf[i - Strays + Taken]
    BY <1>1, <1>3, <1>6, NextByte
  <2>2. Taken = 0
    BY <1>1, TakenShape
  <2>3. Len(Out') = Len(Out) - 1 /\ Len(Out) >= 1
    BY <1>t, <1>1, <1>3, OutRead
  <2>4. Strays' = Len(Out') - (bufTX - Taken')
    BY <1>3 DEF Strays
  <2>5. Harmless'
    BY <1>1, <1>3, <1>6 DEF Harmless
  <2>6. CASE Strays > 0
    <3>1. hstate' = "NO_PACKET"
      BY <1>1, <2>1, <2>6
    <3>2. Taken' = 0
      BY <3>1 DEF Taken
    <3>3. Strays' = Strays - 1 /\ Strays' >= 0
      BY <2>1, <2>2, <2>3, <2>4, <2>6, <3>2
    <3>4. ASSUME NEW i \in 1..Len(Out')
          PROVE  IF i <= Strays' THEN Out'[i] # VALID_PACKET
                 ELSE Out'[i] = buf'[i - 1 - Strays' + Taken']
      <4>1. i <= Strays' <=> i + 1 <= Strays
        BY <2>1, <3>3
      <4>2. i - 1 - Strays' + Taken' = i - Strays + Taken
        BY <2>1, <2>2, <3>2, <3>3
      <4> QED
        BY <1>3, <2>1, <4>1, <4>2
    <3>5. Reading'
      BY <3>1, <3>2, <3>3, <3>4 DEF Reading
    <3> QED
      BY <1>1, <1>2, <1>4, <2>5, <3>1, <3>5, ParseStep
  <2>7. CASE Strays = 0
    <3>1. hstate' = "READ_PACKET_TYPE"
      <4>1. buf[0] = VALID_PACKET
        BY <1>1, <1>6 DEF IInv, Answered
      <4> QED
        BY <1>1, <2>1, <2>2, <2>7, <4>1
    <3>2. Taken' = 1
      BY <3>1 DEF Taken
    <3>3. Strays' = 0
      BY <2>1, <2>2, <2>3, <2>4, <2>7, <3>2
    <3>4. ASSUME NEW i \in 1..Len(Out')
          PROVE  IF i <= Strays' THEN Out'[i] # VALID_PACKET
                 ELSE Out'[i] = buf'[i - 1 - Strays' + Taken']
      <4>1. ~(i <= Strays') /\ ~(i + 1 <= Strays)
        BY <2>7, <3>3
      <4>2. i - 1 - Strays' + Taken' = i - Strays + Taken
        BY <2>2, <2>7, <3>2, <3>3
      <4> QED
        BY <1>3, <2>1, <4>1, <4>2
    <3>5. Reading'
      BY <3>1, <3>2, <3>3, <3>4 DEF Reading
    <3> QED
      BY <1>1, <1>2, <1>4, <1>6, <2>5, <3>5, ParseStep
  <2> QED
    BY <2>1, <2>6, <2>7
<1> QED
  BY <1>5, <1>6

\* In the middle of an answer nothing is left over.
LEMMA NextOfAnswer ==
  ASSUME IInv, pc8 = "parse", hstate # "NO_PACKET",
         toHost # <<>>, toHost' = Tail(toHost), uart' = uart
  PROVE  /\ MegaQuiet /\ Strays = 0
         /\ Head(toHost) = buf[Taken] /\ Head(toHost) \in 0..255 /\ toHost' \in Seq(0..255)
         /\ Taken \in {1, 2, 3} /\ Len(Out) \in Nat /\ Len(Out) >= 1
         /\ bufTX = Len(Out) + Taken
         /\ Len(Out') = Len(Out) - 1
         /\ \A i \in 1..Len(Out') : Out'[i] = buf[i + Taken]
<1>t. TypeOK
  BY DEF IInv
<1>1. MegaQuiet
  BY DEF IInv, TakeTurns
<1>2. Taken \in {1, 2, 3}
  BY TakenShape
<1>3. Strays = 0
  BY <1>1, <1>2 DEF IInv, Reading
<1>4. /\ Len(Out) \in Nat /\ bufTX \in Nat
      /\ Strays = Len(Out) - (bufTX - Taken)
      /\ Strays = 0 => Head(toHost) = buf[Taken]
      /\ \A i \in 1..Len(Out') : IF i + 1 <= Strays THEN Out'[i] # VALID_PACKET
                                 ELSE Out'[i] = buf[i - Strays + Taken]
  BY <1>1, NextByte
<1>5. /\ Head(toHost) \in 0..255 /\ toHost' \in Seq(0..255)
      /\ Len(Out) >= 1 /\ Len(Out') = Len(Out) - 1
  BY <1>t, OutRead
<1>6. bufTX = Len(Out) + Taken
  BY <1>2, <1>3, <1>4
<1>7. ASSUME NEW i \in 1..Len(Out') PROVE Out'[i] = buf[i + Taken]
  <2>1. ~(i + 1 <= Strays) /\ i - Strays + Taken = i + Taken
    BY <1>2, <1>3
  <2> QED
    BY <2>1, <1>4
<1> QED
  BY <1>1, <1>2, <1>3, <1>4, <1>5, <1>6, <1>7

\* The reader goes one byte further into the answer.
LEMMA DeeperStep ==
  ASSUME IInv, TypeOK', pc8 = "parse", hstate # "NO_PACKET",
         toHost # <<>>, toHost' = Tail(toHost), Taken' = Taken + 1,
         Taken' >= 2 => type' = buf[1],
         Taken' >= 3 => left' = buf[2],
         hstate' = "READ_AND_RETURN" => InControl /\ type' \in {VALIDATION, DEVICE},
         hstate' = "DATA" /\ InControl => type' \notin {VALIDATION, DEVICE, RESTART},
         UNCHANGED <<pc8, cur, setup, attached, toMega, rxVars, handling, txVars, usb_ready, answer>>
  PROVE  IInv'
<1>1. uart' = uart /\ buf' = buf /\ bufTX' = bufTX /\ UNCHANGED <<MegaQuiet, InControl>>
  BY DEF txVars, rxVars, MegaQuiet, InControl
<1>2. /\ MegaQuiet /\ Strays = 0
      /\ Taken \in {1, 2, 3} /\ Len(Out) \in Nat /\ Len(Out) >= 1
      /\ bufTX = Len(Out) + Taken
      /\ Len(Out') = Len(Out) - 1
      /\ \A i \in 1..Len(Out') : Out'[i] = buf[i + Taken]
  BY <1>1, NextOfAnswer
<1>3. Strays' = Len(Out') - (bufTX - Taken')
  BY <1>1 DEF Strays
<1>4. Strays' = 0
  BY <1>2, <1>3
<1>5. ASSUME NEW i \in 1..Len(Out')
      PROVE  IF i <= Strays' THEN Out'[i] # VALID_PACKET
             ELSE Out'[i] = buf'[i - 1 - Strays' + Taken']
  <2>1. ~(i <= Strays') /\ i - 1 - Strays' + Taken' = i + Taken
    BY <1>2, <1>4
  <2> QED
    BY <2>1, <1>1, <1>2
<1>6. Reading'
  BY <1>1, <1>4, <1>5 DEF Reading
<1>7. Harmless'
  BY <1>1, <1>2 DEF Harmless
<1> QED
  BY <1>2, <1>6, <1>7, ParseStep

LEMMA ReadTypeStep ==
  ASSUME IInv, ReadType
  PROVE  IInv'
<1>t. TypeOK
  BY DEF IInv
<1>1. /\ pc8 = "parse" /\ hstate = "READ_PACKET_TYPE" /\ toHost # <<>> /\ toHost' = Tail(toHost)
      /\ type' = Head(toHost) /\ hstate' = "READ_LENGTH"
      /\ UNCHANGED <<pc8, cur, setup, left, configured, attached, suspends, toMega, seen>>
      /\ UNCHANGED <<rxVars, handling, txVars, detectVars, answer>>
  BY DEF ReadType, ReadByte, rest8
<1>2. Head(toHost) = buf[Taken] /\ Head(toHost) \in 0..255 /\ toHost' \in Seq(0..255)
  BY <1>1, NextOfAnswer DEF txVars
<1>3. Taken = 1 /\ Taken' = 2
  BY <1>1 DEF Taken
<1>4. TypeOK'
  BY <1>t, <1>1, <1>2 DEF TypeOK, rxVars, txVars, detectVars
<1> QED
  BY <1>1, <1>2, <1>3, <1>4, DeeperStep DEF detectVars

LEMMA ReadLengthStep ==
  ASSUME IInv, ReadLength
  PROVE  IInv'
<1>t. TypeOK
  BY DEF IInv
<1>1. /\ pc8 = "parse" /\ hstate = "READ_LENGTH" /\ toHost # <<>> /\ toHost' = Tail(toHost)
      /\ left' = Head(toHost) /\ hstate' \in {"READ_AND_RETURN", "DATA"}
      /\ hstate' = "READ_AND_RETURN" => InControl /\ type \in {VALIDATION, DEVICE}
      /\ hstate' = "DATA" /\ InControl => type \notin {VALIDATION, DEVICE, RESTART}
      /\ UNCHANGED <<pc8, cur, setup, type, configured, attached, suspends, toMega, seen>>
      /\ UNCHANGED <<rxVars, handling, txVars, detectVars, answer>>
  BY DEF ReadLength, ReadByte, rest8
<1>2. MegaQuiet /\ Head(toHost) = buf[Taken] /\ Head(toHost) \in 0..255 /\ toHost' \in Seq(0..255)
  BY <1>1, NextOfAnswer DEF txVars
<1>3. Taken = 2 /\ Taken' = 3
  BY <1>1 DEF Taken, HeaderLen
<1>4. type = buf[1]
  BY <1>1, <1>2, <1>3 DEF IInv, Reading
<1>5. TypeOK'
  BY <1>t, <1>1, <1>2 DEF TypeOK, rxVars, txVars, detectVars
<1> QED
  BY <1>1, <1>2, <1>3, <1>4, <1>5, DeeperStep DEF detectVars

\* The last byte of an answer that has no more than the reader wants has been sent,
\* unless its payload is a single byte of a control request.
LEMMA AnswerEnds ==
  ASSUME IInv, pc8 = "parse", hstate # "NO_PACKET",
         toHost # <<>>, toHost' = Tail(toHost), uart' = uart,
         buf[2] \in {0, 1}, Taken = 2 \/ (Taken = 3 /\ buf[2] = 1)
  PROVE  /\ idxTX = 0
         /\ Len(Out') = buf[2] + 2 - Taken
         /\ \A i \in 1..Len(Out') : Out'[i] = buf[i + Taken]
<1>t. TypeOK
  BY DEF IInv
<1>1. /\ MegaQuiet
      /\ Len(Out) \in Nat /\ Len(Out) >= 1
      /\ bufTX = Len(Out) + Taken
      /\ Len(Out') = Len(Out) - 1
      /\ \A i \in 1..Len(Out') : Out'[i] = buf[i + Taken]
  BY NextOfAnswer
<1>2. idxTX + bufTX = HeaderLen + buf[2] /\ HeaderLen = 3
  BY <1>1 DEF IInv, Answered, HeaderLen
<1>3. idxTX \in Nat
  BY <1>t DEF TypeOK
<1>4. idxTX = 0
  <2>1. SUFFICES ASSUME idxTX > 0 PROVE FALSE
    BY <1>3
  <2>2. bufTX > 0
    BY <1>1
  <2>3. uart # <<>>
    BY <2>1, <2>2 DEF IInv, KeepsLoading
  <2>4. Len(toHost) >= 1 /\ Len(uart) >= 1
    BY <1>t, <2>3, EmptySeq DEF TypeOK
  <2>5. Len(Out) >= 2
    BY <1>t, <2>4, OutShape
  <2> QED
    BY <1>1, <1>2, <1>3, <2>1, <2>5
<1>5. Len(Out') = buf[2] + 2 - Taken
  BY <1>1, <1>2, <1>4
<1> QED
  BY <1>1, <1>4, <1>5

\* A packet nothing more is expected of: its length byte was the last, or a byte
\* that SET_REPORT claims and does not write follows, which is the direction.
LEMMA LengthEnds ==
  ASSUME IInv, pc8 = "parse", hstate = "READ_LENGTH",
         toHost # <<>>, toHost' = Tail(toHost), uart' = uart,
         \/ InControl /\ HostToDev /\ type \notin {VALIDATION, DEVICE, RESTART}
         \/ type \in {TRANSMIT, RESTART}
  PROVE  MegaQuiet /\ idxTX = 0 /\ \A i \in 1..Len(Out') : Out'[i] # VALID_PACKET
<1>t. TypeOK
  BY DEF IInv
<1>1. MegaQuiet /\ Taken = 2 /\ type = buf[1]
  <2>1. MegaQuiet
    BY NextOfAnswer
  <2>2. Taken = 2
    BY DEF Taken
  <2> QED
    BY <2>1, <2>2 DEF IInv, Reading
<1>2. /\ buf[1] \in {cur, RESTART}
      /\ buf[1] \in {RESTART, TRANSMIT} => buf[2] = 0
      /\ buf[1] = CONTROL => buf[2] <= 1 /\ (setup[1] = H2D => buf[3] = H2D)
  BY <1>1 DEF IInv, Answered
<1>3. CASE type \in {TRANSMIT, RESTART}
  <2>1. buf[2] = 0
    BY <1>1, <1>2, <1>3
  <2>2. idxTX = 0 /\ Len(Out') = 0
    BY <2>1, <1>1, AnswerEnds
  <2> QED
    BY <1>1, <2>2
<1>4. CASE InControl /\ HostToDev /\ type \notin {VALIDATION, DEVICE, RESTART}
  <2>1. cur \in Requests /\ cur \notin {REQUEST, TRANSMIT, VALIDATION, DEVICE} /\ buf[1] = cur
    BY <1>t, <1>1, <1>2, <1>4 DEF InControl, TypeOK
  <2>2. cur # DESCRIPTOR /\ setup[1] = H2D
    BY <1>4 DEF HostToDev, IInv, DescriptorsRead, H2D, D2H
  <2>3. buf[1] = CONTROL
    BY <2>1, <2>2 DEF Requests
  <2>4. buf[2] <= 1 /\ buf[3] = H2D
    BY <1>2, <2>2, <2>3
  <2>5. buf[2] \in {0, 1}
    <3>1. buf \in [0..BufSize - 1 -> 0..255] /\ 2 \in 0..BufSize - 1
      <4>1. bufTX <= BufSize /\ bufTX = Len(Out) + 2 /\ Len(Out) \in Nat /\ Len(Out) >= 1
            /\ BufSize \in Nat
        BY <1>t, <1>1, NextOfAnswer, LinkAssumption DEF TypeOK
      <4> QED
        BY <1>t, <4>1 DEF TypeOK
    <3>2. buf[2] \in 0..255
      BY <3>1
    <3> DEFINE n == buf[2]
    <3>3. n \in 0..255 /\ n <= 1
      BY <2>4, <3>2
    <3> HIDE DEF n
    <3>4. n \in {0, 1}
      BY <3>3
    <3> QED
      BY <3>4 DEF n
  <2>6. /\ idxTX = 0
        /\ Len(Out') = buf[2] + 2 - 2
        /\ \A i \in 1..Len(Out') : Out'[i] = buf[i + 2]
    BY <1>1, <2>5, AnswerEnds
  <2>7. ASSUME NEW i \in 1..Len(Out') PROVE Out'[i] # VALID_PACKET
    <3>1. i = 1
      BY <2>5, <2>6
    <3> QED
      BY <2>4, <2>6, <3>1 DEF VALID_PACKET, H2D
  <2> QED
    BY <1>1, <2>6, <2>7
<1> QED
  BY <1>3, <1>4

LEMMA ReadLengthDoneStep ==
  ASSUME IInv, ReadLengthDone
  PROVE  IInv'
<1>t. TypeOK
  BY DEF IInv
<1>1. /\ pc8 = "parse" /\ hstate = "READ_LENGTH" /\ toHost # <<>> /\ toHost' = Tail(toHost)
      /\ pc8' = "idle"
      /\ \/ InControl /\ HostToDev /\ type \notin {VALIDATION, DEVICE, RESTART}
         \/ type \in {TRANSMIT, RESTART}
      /\ UNCHANGED <<cur, setup, hstate, type, left, configured, attached, suspends,
                     toMega, seen>>
      /\ UNCHANGED <<rxVars, handling, txVars, detectVars, answer>>
  BY DEF ReadLengthDone, ReadByte, rest8
<1>2. MegaQuiet /\ idxTX = 0 /\ \A i \in 1..Len(Out') : Out'[i] # VALID_PACKET
  BY <1>1, LengthEnds DEF txVars
<1>3. toMega' = <<>>
  BY <1>1, <1>2 DEF MegaQuiet
<1>4. TypeOK'
  <2>1. toHost' \in Seq(0..255)
    BY <1>t, <1>1, TakeByte
  <2> QED
    BY <1>t, <1>1, <2>1 DEF TypeOK, rxVars, txVars, detectVars
<1> QED
  BY <1>1, <1>2, <1>3, <1>4, ToIdleStep DEF detectVars

LEMMA ReadLengthRestartStep ==
  ASSUME IInv, ReadLengthRestart
  PROVE  IInv'
<1>t. TypeOK
  BY DEF IInv
<1>1. /\ pc8 = "parse" /\ hstate = "READ_LENGTH" /\ toHost # <<>> /\ toHost' = Tail(toHost)
      /\ pc8' = "idle" /\ type = RESTART
      /\ hstate' = "NO_PACKET" /\ type' = 0 /\ left' = 0
      /\ configured' = FALSE /\ attached' = FALSE /\ seen' = {}
      /\ toMega' = <<>>
      /\ UNCHANGED <<cur, setup, suspends>>
      /\ UNCHANGED <<rxVars, handling, txVars, detectVars, answer>>
  BY DEF ReadLengthRestart, ReadByte, rest8
<1>2. MegaQuiet /\ idxTX = 0 /\ \A i \in 1..Len(Out') : Out'[i] # VALID_PACKET
  BY <1>1, LengthEnds DEF txVars
<1>3. toMega' = toMega
  BY <1>1, <1>2 DEF MegaQuiet
<1>4. TypeOK'
  <2>1. toHost' \in Seq(0..255)
    BY <1>t, <1>1, TakeByte
  <2>2. 0 \in 0..255
    OBVIOUS
  <2> QED
    <3>1. /\ pc8' \in {"idle", "parse"} /\ cur' \in Requests /\ setup' \in {H2D, D2H} \X {0, 1}
          /\ hstate' \in {"NO_PACKET", "READ_PACKET_TYPE", "READ_LENGTH", "READ_AND_RETURN", "DATA"}
      BY <1>t, <1>1 DEF TypeOK
    <3>2. configured' \in BOOLEAN /\ attached' \in BOOLEAN /\ seen' \subseteq Consoles
      BY <1>1
    <3>3. /\ type' \in 0..255 /\ left' \in 0..255 /\ suspends' \in 0..MaxSuspends
          /\ toMega' \in Seq(0..255)
      BY <1>t, <1>1, <1>3, <2>2 DEF TypeOK
    <3>4. UNCHANGED <<buf, idx, ready, handling, idxTX, bufTX, uart, consoleType,
                      should_reload_usb, usb_ready, answer>>
      BY <1>1 DEF rxVars, txVars, detectVars
    <3> QED
      BY <1>t, <2>1, <3>1, <3>2, <3>3, <3>4 DEF TypeOK
<1> QED
  BY <1>1, <1>2, <1>4, ToIdleStep DEF detectVars

\* One byte is the whole of a verdict or of the device's console type.
LEMMA AnswerByte ==
  ASSUME IInv, pc8 = "parse", hstate = "READ_AND_RETURN",
         toHost # <<>>, toHost' = Tail(toHost), uart' = uart
  PROVE  /\ MegaQuiet /\ idxTX = 0 /\ Len(Out') = 0
         /\ type = buf[1] /\ type \in {VALIDATION, DEVICE}
         /\ Head(toHost) = buf[3] /\ toHost' \in Seq(0..255)
         /\ cur = type
<1>1. Taken = 3
  BY DEF Taken, HeaderLen
<1>2. MegaQuiet /\ Head(toHost) = buf[Taken] /\ toHost' \in Seq(0..255)
  BY NextOfAnswer
<1>3. type = buf[1] /\ type \in {VALIDATION, DEVICE}
  BY <1>1, <1>2 DEF IInv, Reading
<1>4. buf[2] = 1 /\ buf[1] \in {cur, RESTART}
  BY <1>2, <1>3 DEF IInv, Answered
<1>5. idxTX = 0 /\ Len(Out') = buf[2] + 2 - Taken
  BY <1>1, <1>4, AnswerEnds
<1>6. Len(Out') = 0
  BY <1>1, <1>4, <1>5
<1>7. cur = type
  BY <1>3, <1>4 DEF RESTART, VALIDATION, DEVICE
<1> QED
  BY <1>1, <1>2, <1>3, <1>5, <1>6, <1>7

LEMMA ReadAnswerStep ==
  ASSUME BufFits, IInv, ReadAnswer
  PROVE  IInv'
<1>t. TypeOK
  BY DEF IInv
<1>1. /\ pc8 = "parse" /\ hstate = "READ_AND_RETURN" /\ toHost # <<>> /\ toHost' = Tail(toHost)
      /\ UNCHANGED <<setup, type, left, attached, suspends>>
      /\ UNCHANGED <<rxVars, handling, txVars, detectVars, answer>>
  BY DEF ReadAnswer, ReadByte, rest8
<1>2. /\ MegaQuiet /\ idxTX = 0 /\ Len(Out') = 0
      /\ type = buf[1] /\ type \in {VALIDATION, DEVICE}
      /\ Head(toHost) = buf[3] /\ toHost' \in Seq(0..255)
      /\ cur = type
  BY <1>1, AnswerByte DEF txVars
<1>3. \A i \in 1..Len(Out') : Out'[i] # VALID_PACKET
  BY <1>2
<1>4. CASE cur = VALIDATION /\ Head(toHost) # 0
  <2>1. PICK d \in [1..(IF HostToDev THEN setup[2] ELSE 0) -> DataBytes] : Ask(CONTROL, setup \o d)
    BY <1>4 DEF ReadAnswer
  <2> DEFINE p == setup \o d
  <2>2. /\ p \in Seq(0..255)
        /\ Len(p) >= 2 /\ Len(p) <= 3
        /\ p[1] = setup[1] /\ p[2] = setup[2]
    BY <1>t, ControlShape
  <2>3. Ask(CONTROL, p)
    BY <2>1
  <2> HIDE DEF p
  <2>4. Fits(CONTROL, p)
    <3>1. HeaderLen + Len(p) <= BufSize
      <4> DEFINE n == Len(p)
      <4>1. n \in Nat /\ n <= 3 /\ BufSize \in Nat /\ BufSize >= 6
        BY <2>2 DEF BufFits
      <4> HIDE DEF n
      <4>2. 3 + n <= BufSize
        BY <4>1
      <4> QED
        BY <4>2 DEF n, HeaderLen
    <3>2. CONTROL \in Requests /\ CONTROL # DESCRIPTOR
      BY DEF Requests, CONTROL, DESCRIPTOR
    <3> QED
      BY <1>1, <2>2, <3>1, <3>2 DEF Fits
  <2>5. UNCHANGED <<configured, seen>>
    BY <1>4 DEF ReadAnswer
  <2>6. /\ setup' \in {H2D, D2H} \X {0, 1} /\ CONTROL # DESCRIPTOR
        /\ configured' \in BOOLEAN /\ seen' \subseteq Consoles
    BY <1>t, <1>1, <2>5 DEF TypeOK, CONTROL, DESCRIPTOR
  <2>7. attached => usb_ready
    BY <1>1 DEF IInv, UpToDate
  <2> QED
    BY <1>1, <1>2, <1>3, <2>3, <2>4, <2>6, <2>7, AskStep
<1>5. CASE ~(cur = VALIDATION /\ Head(toHost) # 0)
  <2>1. /\ pc8' = "idle"
        /\ configured' = (configured \/ cur = DEVICE)
        /\ seen' = IF cur = DEVICE THEN seen \cup {Head(toHost)} ELSE seen
        /\ UNCHANGED <<toMega, cur, hstate>>
    BY <1>5 DEF ReadAnswer
  <2>2. toMega' = <<>>
    BY <1>2, <2>1 DEF MegaQuiet
  <2>3. cur = DEVICE => Head(toHost) \in Consoles
    <3>1. cur = DEVICE => buf[3] = answer.console
      BY <1>1, <1>2 DEF IInv, Answered
    <3> QED
      BY <1>t, <1>2, <3>1 DEF TypeOK
  <2>4. seen' \subseteq Consoles /\ configured' \in BOOLEAN
    BY <1>t, <2>1, <2>3 DEF TypeOK
  <2>5. TypeOK'
    BY <1>t, <1>1, <1>2, <2>1, <2>4 DEF TypeOK, rxVars, txVars, detectVars
  <2> QED
    BY <1>1, <1>2, <1>3, <2>1, <2>2, <2>5, ToIdleStep DEF detectVars
<1> QED
  BY <1>4, <1>5

\* When the 8u2 has the bytes that the length byte announced, there are no others.
LEMMA PayloadEnds ==
  ASSUME IInv, pc8 = "parse", hstate = "DATA", Len(toHost) >= left
  PROVE  /\ MegaQuiet /\ idxTX = 0 /\ uart = <<>> /\ Len(toHost) = left /\ left \in Nat
         /\ type = buf[1] /\ left = buf[2]
         /\ left > 0 => toHost[1] = buf[3]
<1>t. TypeOK
  BY DEF IInv
<1>1. Taken = 3
  BY DEF Taken, HeaderLen
<1>2. MegaQuiet
  BY DEF IInv, TakeTurns
<1>3. /\ Strays = 0 /\ type = buf[1] /\ left = buf[2]
      /\ \A i \in 1..Len(Out) : IF i <= Strays THEN Out[i] # VALID_PACKET
                                ELSE Out[i] = buf[i - 1 - Strays + Taken]
  BY <1>1, <1>2 DEF IInv, Reading
<1>4. idxTX + bufTX = HeaderLen + buf[2] /\ HeaderLen = 3
  BY <1>2 DEF IInv, Answered, HeaderLen
<1>5. /\ Len(Out) = Len(toHost) + Len(uart) /\ Len(toHost) \in Nat /\ Len(uart) \in Nat
      /\ \A i \in 1..Len(toHost) : Out[i] = toHost[i]
  BY <1>t, OutShape
<1>6. idxTX \in Nat /\ left \in Nat /\ bufTX \in Nat
  BY <1>t DEF TypeOK
<1>7. Len(Out) = bufTX - 3
  BY <1>1, <1>3, <1>5, <1>6 DEF Strays
<1>8. Len(uart) = 0 /\ idxTX = 0 /\ Len(toHost) = left
  BY <1>3, <1>4, <1>5, <1>6, <1>7
<1>9. uart = <<>>
  BY <1>t, <1>8, EmptySeq DEF TypeOK
<1>10. left > 0 => toHost[1] = buf[3]
  <2>1. ASSUME left > 0 PROVE toHost[1] = buf[3]
    <3>1. 1 \in 1..Len(Out) /\ 1 \in 1..Len(toHost)
      BY <1>5, <1>6, <1>8, <2>1
    <3>2. ~(1 <= Strays) /\ 1 - 1 - Strays + Taken = 3
      BY <1>1, <1>3
    <3> QED
      BY <1>3, <1>5, <3>1, <3>2
  <2> QED
    BY <2>1
<1> QED
  BY <1>2, <1>3, <1>6, <1>8, <1>9, <1>10

LEMMA ReadPayloadStep ==
  ASSUME IInv, ReadPayload
  PROVE  IInv'
<1>t. TypeOK
  BY DEF IInv
<1>1. /\ pc8 = "parse" /\ hstate = "DATA" /\ Len(toHost) >= left
      /\ toHost' = SubSeq(toHost, left + 1, Len(toHost))
      /\ pc8' = "idle"
      /\ seen' = IF cur = DESCRIPTOR /\ left > 0 THEN seen \cup {toHost[1]} ELSE seen
      /\ UNCHANGED <<cur, setup, hstate, type, left, configured, attached, suspends, toMega>>
      /\ UNCHANGED <<rxVars, handling, txVars, detectVars, answer>>
  BY DEF ReadPayload, rest8
<1>2. /\ MegaQuiet /\ idxTX = 0 /\ uart = <<>> /\ Len(toHost) = left /\ left \in Nat
      /\ type = buf[1]
      /\ left > 0 => toHost[1] = buf[3]
  BY <1>1, PayloadEnds
<1>3. toHost' = <<>>
  <2>1. toHost' \in Seq(0..255) /\ Len(toHost') = 0
    BY <1>t, <1>1, <1>2, SubSeqProperties DEF TypeOK
  <2> QED
    BY <2>1, EmptySeq
<1>4. \A i \in 1..Len(Out') : Out'[i] # VALID_PACKET
  <2>1. Out' = <<>> \o <<>>
    BY <1>1, <1>2, <1>3 DEF Out, txVars
  <2>2. Len(<<>>) = 0 /\ <<>> \o <<>> = <<>>
    BY EmptySeq, ConcatEmptySeq
  <2> QED
    BY <2>1, <2>2
<1>5. cur = DESCRIPTOR /\ left > 0 => toHost[1] \in Consoles
  <2>1. SUFFICES ASSUME cur = DESCRIPTOR, left > 0 PROVE toHost[1] \in Consoles
    OBVIOUS
  <2>2. InControl
    BY <2>1 DEF InControl, DESCRIPTOR, REQUEST, TRANSMIT
  <2>3. type # RESTART
    BY <1>1, <1>2, <2>2 DEF IInv, Reading
  <2>4. buf[1] = DESCRIPTOR
    BY <1>1, <1>2, <2>1, <2>3 DEF IInv, Answered
  <2>5. buf[3] = answer.console
    BY <1>1, <1>2, <2>4 DEF IInv, Answered
  <2> QED
    BY <1>t, <1>2, <2>1, <2>5 DEF TypeOK
<1>6. TypeOK'
  <2>1. toHost' \in Seq(0..255)
    BY <1>3, EmptySeq
  <2>2. seen' \subseteq Consoles
    BY <1>t, <1>1, <1>5 DEF TypeOK
  <2>3. UNCHANGED <<cur, setup, hstate, type, left, configured, attached, suspends, toMega>>
        /\ UNCHANGED <<rxVars, handling, txVars, detectVars, answer>> /\ pc8' = "idle"
    BY <1>1
  <2> QED
    BY <1>t, <2>1, <2>2, <2>3 DEF TypeOK, rxVars, txVars, detectVars
<1>7. toMega' = <<>>
  BY <1>1, <1>2 DEF MegaQuiet
<1> QED
  BY <1>1, <1>2, <1>4, <1>6, <1>7, ToIdleStep DEF detectVars

-----------------------------------------------------------------------------
(* The 328p. *)

\* A byte the receive interrupt stores stays the packet's byte at its place, and the
\* packet is complete with the last one.
LEMMA ReceiveByte ==
  ASSUME BufFits, IInv, Receive
  PROVE  /\ ~ready /\ handling = 0 /\ Inbound /\ idx' \in 0..BufSize
         /\ toMega' \in Seq(0..255) /\ buf' \in [0..BufSize - 1 -> 0..255]
         /\ Byte(0)' = Byte(0) /\ Byte(1)' = Byte(1) /\ Byte(2)' = Byte(2)
         /\ idx + Len(toMega) > 3 => Byte(3)' = Byte(3)
         /\ idx + Len(toMega) > 4 => Byte(4)' = Byte(4)
         /\ \/ ready' = TRUE /\ idx' = 0 /\ toMega' = <<>>
            \/ /\ ready' = FALSE /\ toMega' # <<>>
               /\ idx' + Len(toMega') = idx + Len(toMega)
<1>t. TypeOK
  BY DEF IInv
<1>0. BufSize \in 6..255 /\ HeaderLen = 3
  BY DEF BufFits, HeaderLen
<1>1. toMega # <<>> /\ idx < BufSize /\ toMega' = Tail(toMega) /\ handling' = handling
  BY DEF Receive
<1>2. Inbound /\ ~ready /\ ready = FALSE /\ handling = 0
  BY <1>t, <1>1 DEF IInv, TakeTurns, Inbound, TypeOK
<1> DEFINE n == idx + Len(toMega)
<1>3. /\ toMega \in Seq(0..255) /\ Len(toMega) \in Nat /\ Len(toMega) >= 1 /\ idx \in Nat
      /\ Head(toMega) = toMega[1] /\ Head(toMega) \in 0..255
      /\ Tail(toMega) \in Seq(0..255) /\ Len(Tail(toMega)) = Len(toMega) - 1
      /\ \A i \in 1..Len(toMega) - 1 : Tail(toMega)[i] = toMega[i + 1]
  <2>1. toMega \in Seq(0..255) /\ idx \in 0..BufSize
    BY <1>t DEF TypeOK
  <2>2. /\ Head(toMega) \in 0..255 /\ Tail(toMega) \in Seq(0..255)
        /\ Len(Tail(toMega)) = Len(toMega) - 1
        /\ \A i \in 1..Len(Tail(toMega)) : Tail(toMega)[i] = toMega[i + 1]
    BY <1>1, <2>1, HeadTailProperties
  <2>3. Len(toMega) \in Nat /\ Len(toMega) >= 1 /\ Head(toMega) = toMega[1] /\ idx \in Nat
    BY <1>1, <2>1, EmptySeq
  <2> QED
    BY <2>1, <2>2, <2>3
<1>4. n \in Nat /\ n >= 3 /\ n <= BufSize /\ Byte(2) = n
  <2>1. /\ Byte(2) = idx + Len(toMega)
        /\ HeaderLen <= idx + Len(toMega) /\ idx + Len(toMega) <= BufSize
    BY <1>2 DEF IInv, Framed
  <2> QED
    BY <1>0, <1>3, <2>1
<1>5. Byte(0) = VALID_PACKET
  BY <1>1 DEF IInv, Carried, MegaQuiet
<1>6. \A i \in Nat : Byte(i) = IF i < idx THEN buf[i] ELSE toMega[i - idx + 1]
  BY <1>2 DEF Byte
<1> DEFINE stored == [buf EXCEPT ![idx] = Head(toMega)]
<1>7. /\ stored \in [0..BufSize - 1 -> 0..255]
      /\ stored[idx] = Head(toMega)
      /\ \A i \in 0..BufSize - 1 : i # idx => stored[i] = buf[i]
  <2>1. buf \in [0..BufSize - 1 -> 0..255] /\ idx \in 0..BufSize - 1
    BY <1>t, <1>0, <1>1, <1>3 DEF TypeOK
  <2> QED
    BY <2>1, <1>3
<1> DEFINE complete == idx + 1 >= HeaderLen /\ stored[2] = idx + 1
<1>8. /\ buf' = stored
      /\ idx' = IF complete THEN 0 ELSE idx + 1
      /\ ready' = (ready \/ complete)
  <2>1. idx > 0 \/ Head(toMega) = VALID_PACKET
    <3>1. CASE idx = 0
      BY <3>1, <1>3, <1>5, <1>6
    <3> QED
      BY <3>1, <1>3
  <2> QED
    BY <2>1 DEF Receive
<1>9. complete <=> Len(toMega) = 1
  <2>1. CASE idx < 2
    BY <2>1, <1>0, <1>3, <1>4
  <2>2. CASE idx = 2
    <3>1. stored[2] = Byte(2)
      BY <2>2, <1>3, <1>6, <1>7
    <3> QED
      BY <3>1, <2>2, <1>0, <1>3, <1>4
  <2>3. CASE idx > 2
    <3>1. stored[2] = buf[2] /\ Byte(2) = buf[2]
      BY <2>3, <1>0, <1>3, <1>6, <1>7
    <3> QED
      BY <3>1, <2>3, <1>0, <1>3, <1>4
  <2> QED
    BY <2>1, <2>2, <2>3, <1>3
<1> HIDE DEF stored, complete
<1>10. ASSUME NEW i \in 0..n - 1 PROVE Byte(i)' = Byte(i)
  <2>0. i \in Nat /\ i < n /\ i \in 0..BufSize - 1
    BY <1>0, <1>4
  <2>1. stored[i] = Byte(i) \/ i > idx
    <3>1. CASE i < idx
      BY <3>1, <2>0, <1>3, <1>6, <1>7
    <3>2. CASE i = idx
      BY <3>2, <2>0, <1>3, <1>6, <1>7
    <3> QED
      BY <3>1, <3>2, <2>0, <1>3
  <2>2. Byte(i)' = IF ready' \/ i < idx' THEN stored[i] ELSE Tail(toMega)[i - idx' + 1]
    BY <1>1, <1>2, <1>8 DEF Byte
  <2>3. CASE complete
    <3>0. ready'
      BY <2>3, <1>8
    <3>1. ready' /\ i <= idx
      <4>1. Len(toMega) = 1
        BY <2>3, <1>9
      <4>2. i <= idx
        BY <2>0, <4>1, <1>3
      <4> QED
        BY <3>0, <4>2
    <3>2. ~(i > idx)
      BY <3>1, <2>0, <1>3
    <3> QED
      BY <3>1, <3>2, <2>1, <2>2
  <2>4. CASE ~complete
    <3>1. ready' = FALSE /\ idx' = idx + 1
      BY <2>4, <1>2, <1>8
    <3>2. CASE i <= idx
      BY <3>1, <3>2, <2>0, <2>1, <2>2, <1>3
    <3>3. CASE i > idx
      <4>1. ~(i < idx') /\ ~(i < idx)
        BY <3>1, <3>3, <2>0, <1>3
      <4>2. i - idx' + 1 = i - idx /\ i - idx \in 1..Len(toMega) - 1
        BY <3>1, <3>3, <2>0, <1>3
      <4>3. Byte(i)' = toMega[i - idx + 1]
        BY <3>1, <4>1, <4>2, <2>2, <1>3
      <4> QED
        BY <4>1, <4>3, <2>0, <1>6
    <3> QED
      BY <3>2, <3>3, <2>0, <1>3
  <2> QED
    BY <2>3, <2>4
<1>b. /\ Byte(0)' = Byte(0) /\ Byte(1)' = Byte(1) /\ Byte(2)' = Byte(2)
      /\ n > 3 => Byte(3)' = Byte(3)
      /\ n > 4 => Byte(4)' = Byte(4)
  <2>1. /\ 0 \in 0..n - 1 /\ 1 \in 0..n - 1 /\ 2 \in 0..n - 1
        /\ n > 3 => 3 \in 0..n - 1
        /\ n > 4 => 4 \in 0..n - 1
    BY <1>4
  <2> QED
    BY <2>1, <1>10
<1>11. CASE complete
  <2>1. ready' = TRUE /\ idx' = 0
    BY <1>8, <1>11
  <2>2. toMega' = <<>>
    BY <1>1, <1>3, <1>9, <1>11, EmptySeq
  <2> QED
    BY <2>1, <2>2, <1>0, <1>1, <1>2, <1>3, <1>7, <1>8, <1>b
<1>12. CASE ~complete
  <2>1. ready' = FALSE /\ idx' = idx + 1
    BY <1>2, <1>8, <1>12
  <2>2. Len(toMega') = Len(toMega) - 1 /\ Len(toMega') > 0
    BY <1>1, <1>3, <1>9, <1>12
  <2>3. toMega' # <<>>
    BY <2>2, EmptySeq
  <2>4. idx' + Len(toMega') = idx + Len(toMega)
    BY <2>1, <2>2, <1>3
  <2>5. idx' \in 0..BufSize
    BY <2>1, <1>0, <1>1, <1>3
  <2> QED
    BY <2>1, <2>3, <2>4, <2>5, <1>1, <1>2, <1>3, <1>7, <1>8, <1>b
<1> QED
  BY <1>11, <1>12

LEMMA ReceiveStep ==
  ASSUME BufFits, IInv, Receive
  PROVE  IInv'
<1>t. TypeOK
  BY DEF IInv
<1>0. BufSize \in 6..255 /\ HeaderLen = 3
  BY DEF BufFits, HeaderLen
<1>1. /\ ~ready /\ handling = 0 /\ Inbound /\ idx' \in 0..BufSize
      /\ toMega' \in Seq(0..255) /\ buf' \in [0..BufSize - 1 -> 0..255]
      /\ \/ ready' = TRUE /\ idx' = 0 /\ toMega' = <<>>
         \/ /\ ready' = FALSE /\ toMega' # <<>>
            /\ idx' + Len(toMega') = idx + Len(toMega)
  BY ReceiveByte
<1>2. /\ UNCHANGED <<pc8, cur, setup, hstate, type, left, configured, attached, suspends,
                    toHost, seen, handling, txVars, detectVars, answer>>
      /\ UNCHANGED <<idxTX, bufTX, uart, consoleType, should_reload_usb, usb_ready>>
  BY DEF Receive, rest3, vars8, txVars, detectVars
<1>3. ~MegaQuiet /\ ~MegaQuiet'
  BY <1>1 DEF MegaQuiet, Inbound
<1>4. Len(toMega) \in Nat /\ idx \in Nat
  BY <1>t DEF TypeOK
<1>5. TypeOK'
  <2>1. ready' \in BOOLEAN
    BY <1>1
  <2> QED
    BY <1>t, <1>1, <1>2, <2>1 DEF TypeOK
<1>6. TakeTurns'
  <2>1. Inbound' => ready' = FALSE
    BY <1>1 DEF Inbound
  <2>2. idxTX = 0 /\ (pc8 = "parse" => hstate = "NO_PACKET")
    BY <1>3 DEF IInv, TakeTurns
  <2> QED
    BY <2>1, <2>2, <1>1, <1>2 DEF TakeTurns, REQUEST, TRANSMIT
<1> DEFINE n == idx + Len(toMega)
<1>7. /\ Byte(2) = n /\ 3 <= n /\ n <= BufSize /\ n \in Nat
      /\ pc8 = "idle" \/ cur = DESCRIPTOR => n > 3
      /\ pc8 = "parse" /\ cur \in {VALIDATION, CONTROL} => n > 4
  BY <1>0, <1>1, <1>4 DEF IInv, Framed
<1>8. /\ Byte(0) = VALID_PACKET
      /\ Byte(1) = IF pc8 = "idle" THEN USB_READY ELSE cur
      /\ pc8 = "idle" => Byte(3) = IF attached THEN 1 ELSE 0
      /\ pc8 = "parse" /\ cur = DESCRIPTOR => Byte(3) = 1
      /\ pc8 = "parse" /\ cur \in {VALIDATION, CONTROL} =>
           Byte(3) = setup[1] /\ Byte(4) = setup[2]
  BY <1>3 DEF IInv, Carried
<1>9. /\ Byte(0)' = Byte(0) /\ Byte(1)' = Byte(1) /\ Byte(2)' = Byte(2)
      /\ n > 3 => Byte(3)' = Byte(3)
      /\ n > 4 => Byte(4)' = Byte(4)
  BY ReceiveByte
<1>10. Inbound' => idx' + Len(toMega') = n
  BY <1>1 DEF Inbound
<1> HIDE DEF n
<1>12. Framed'
  BY <1>0, <1>2, <1>7, <1>10, <1>9 DEF Framed
<1>13. Carried'
  BY <1>2, <1>7, <1>8, <1>9 DEF Carried
<1>14. Answered' /\ Reading'
  BY <1>3 DEF Answered, Reading
<1>15. Harmless'
  BY <1>2, <1>3 DEF IInv, Harmless, Out
<1>16. KeepsLoading' /\ DescriptorsRead' /\ UpToDate'
  BY <1>2, <1>3 DEF IInv, KeepsLoading, DescriptorsRead, UpToDate
<1> QED
  BY <1>5, <1>6, <1>12, <1>13, <1>14, <1>15, <1>16 DEF IInv

\* loop() takes a packet: a USB_READY is over with, anything else is now handled.
LEMMA DispatchStep ==
  ASSUME BufFits, IInv, Dispatch
  PROVE  IInv'
<1>t. TypeOK
  BY DEF IInv
<1>0. BufSize \in 6..255 /\ buf \in [0..BufSize - 1 -> 0..255]
  BY <1>t DEF BufFits, TypeOK
<1>1. /\ ready /\ handling = 0 /\ ready' = FALSE
      /\ handling' = IF buf[1] \in Requests THEN buf[1] ELSE 0
      /\ usb_ready' = IF buf[1] = USB_READY THEN buf[3] # 0 ELSE usb_ready
      /\ buf' = IF buf[1] \in {REQUEST, TRANSMIT} THEN [buf EXCEPT ![2] = 0] ELSE buf
      /\ UNCHANGED <<pc8, cur, setup, hstate, type, left, configured, attached, suspends,
                     toHost, seen, toMega, idx, idxTX, bufTX, uart, consoleType,
                     should_reload_usb, answer>>
  BY DEF Dispatch, rest3, vars8, txVars
<1>2. ~Inbound /\ ~Inbound' /\ toMega = <<>> /\ idx = 0 /\ idxTX = 0 /\ ~MegaQuiet
  <2>1. ~Inbound
    BY <1>1 DEF IInv, TakeTurns
  <2>2. toMega = <<>> /\ idx = 0
    BY <1>t, <2>1 DEF Inbound, TypeOK
  <2>3. idxTX = 0 /\ ~MegaQuiet
    BY <1>1 DEF IInv, TakeTurns, MegaQuiet
  <2> QED
    BY <1>1, <2>1, <2>2, <2>3 DEF Inbound
<1>3. /\ buf[0] = VALID_PACKET
      /\ buf[1] = IF pc8 = "idle" THEN USB_READY ELSE cur
      /\ pc8 = "idle" => buf[3] = IF attached THEN 1 ELSE 0
      /\ pc8 = "parse" /\ cur = DESCRIPTOR => buf[3] = 1
      /\ pc8 = "parse" /\ cur \in {VALIDATION, CONTROL} =>
           buf[3] = setup[1] /\ buf[4] = setup[2]
  BY <1>1, <1>2 DEF IInv, Carried, Byte
<1>4. /\ buf' \in [0..BufSize - 1 -> 0..255]
      /\ \A i \in {0, 1, 3, 4} : buf'[i] = buf[i]
      /\ buf[1] \in {REQUEST, TRANSMIT} => buf'[2] = 0
  BY <1>0, <1>1, SMTT(30)
<1>5. pc8 \in {"idle", "parse"} /\ cur \in Requests
  BY <1>t DEF TypeOK
<1>6. TypeOK'
  <2>1. handling' \in {0} \cup Requests /\ usb_ready' \in BOOLEAN /\ ready' \in BOOLEAN
    BY <1>t, <1>1 DEF TypeOK
  <2> QED
    BY <1>t, <1>1, <1>4, <2>1 DEF TypeOK
<1>7. Framed'
  BY <1>2 DEF Framed
<1>8. KeepsLoading' /\ DescriptorsRead'
  BY <1>1, <1>2 DEF IInv, KeepsLoading, DescriptorsRead
<1>9. CASE pc8 = "idle"
  <2>1. buf[1] = USB_READY /\ handling' = 0 /\ usb_ready' = (buf[3] # 0)
    BY <1>1, <1>3, <1>9
       DEF Requests, REQUEST, TRANSMIT, DESCRIPTOR, VALIDATION, DEVICE, CONTROL, USB_READY
  <2>2. MegaQuiet'
    BY <1>1, <1>2, <2>1 DEF MegaQuiet
  <2>3. pc8' = "idle" /\ idxTX' = 0 /\ attached' = attached
    BY <1>1, <1>2, <1>9
  <2>4. TakeTurns'
    BY <1>1, <1>2, <2>1, <2>2, <2>3 DEF TakeTurns, REQUEST, TRANSMIT
  <2>5. Carried' /\ Answered' /\ Reading'
    BY <2>2, <2>3 DEF Carried, Answered, Reading
  <2>6. Harmless'
    BY <1>1, <1>9 DEF IInv, Harmless, Out
  <2>7. UpToDate'
    <3>1. ASSUME attached PROVE usb_ready'
      <4>1. buf[3] # 0
        BY <1>3, <1>9, <3>1
      <4> QED
        BY <2>1, <4>1
    <3> QED
      BY <2>3, <3>1 DEF UpToDate
  <2> QED
    BY <1>6, <1>7, <1>8, <2>4, <2>5, <2>6, <2>7 DEF IInv
<1>10. CASE pc8 = "parse"
  <2>1. buf[1] = cur /\ handling' = cur /\ usb_ready' = usb_ready
    BY <1>1, <1>3, <1>5, <1>10
       DEF Requests, REQUEST, TRANSMIT, DESCRIPTOR, VALIDATION, DEVICE, CONTROL, USB_READY
  <2>2. cur # 0
    BY <1>5, IdsAreBytes
  <2>3. ~MegaQuiet' /\ handling' # 0 /\ pc8' = "parse" /\ cur' = cur /\ setup' = setup
    BY <1>1, <1>10, <2>1, <2>2 DEF MegaQuiet
  <2>4. TakeTurns'
    <3>1. hstate = "NO_PACKET"
      BY <1>2, <1>10 DEF IInv, TakeTurns
    <3>2. handling' \in {REQUEST, TRANSMIT} => buf'[2] = 0
      BY <1>4, <2>1
    <3> QED
      BY <1>1, <1>2, <2>1, <2>3, <3>1, <3>2 DEF TakeTurns
  <2>5. Carried'
    <3>1. \A i \in {0, 1, 3, 4} : Byte(i)' = buf[i]
      BY <1>4, <2>3 DEF Byte
    <3>2. /\ Byte(0)' = buf[0] /\ Byte(1)' = buf[1] /\ Byte(3)' = buf[3] /\ Byte(4)' = buf[4]
      BY <3>1
    <3> QED
      BY <1>3, <1>10, <2>3, <3>2 DEF Carried
  <2>6. Answered' /\ Reading'
    BY <2>3 DEF Answered, Reading
  <2>7. Harmless'
    BY <1>1, <1>2 DEF IInv, Harmless, Out
  <2>8. UpToDate'
    <3>1. attached => usb_ready
      BY <1>10 DEF IInv, UpToDate
    <3>2. attached' = attached
      BY <1>1
    <3> QED
      BY <2>1, <3>1, <3>2 DEF UpToDate
  <2> QED
    BY <1>6, <1>7, <1>8, <2>4, <2>5, <2>6, <2>7, <2>8 DEF IInv
<1> QED
  BY <1>5, <1>9, <1>10

\* The answer is complete: from here on buf is the transmit interrupt's.
LEMMA CompleteStep ==
  ASSUME BufFits, IInv, Complete
  PROVE  IInv'
<1>t. TypeOK
  BY DEF IInv
<1>0. BufSize \in 6..255 /\ HeaderLen = 3
  BY DEF BufFits, HeaderLen
<1>1. PICK b \in HandlerResults :
        LET id == IF should_reload_usb THEN RESTART ELSE b[1] IN
        /\ buf' = IF should_reload_usb THEN [b EXCEPT ![1] = RESTART, ![2] = 0] ELSE b
        /\ answer' = [id |-> IF id \in Requests \cup {RESTART} THEN IdName(id) ELSE "unknown",
                      valid |-> handling = VALIDATION /\ b[3] # 0,
                      console |-> consoleType]
  BY DEF Complete
<1>2. /\ handling # 0 /\ handling' = 0 /\ should_reload_usb' = FALSE
      /\ idxTX' = (buf'[2] + HeaderLen) % 256 /\ bufTX' = 0
      /\ UNCHANGED <<pc8, cur, setup, hstate, type, left, configured, attached, suspends,
                     toHost, seen, toMega, idx, ready, uart, consoleType, usb_ready>>
  BY DEF Complete, rest3, vars8
<1>3. /\ b \in [0..BufSize - 1 -> 0..255]
      /\ b[0] = VALID_PACKET /\ b[1] = cur
      /\ b[2] <= BufSize - HeaderLen
      /\ cur = TRANSMIT => b[2] = 0
      /\ cur \in {VALIDATION, DEVICE, DESCRIPTOR} => b[2] = 1
      /\ cur = CONTROL => b[2] <= 1 /\ (setup[1] = H2D => b[3] = H2D)
      /\ cur \in {DEVICE, DESCRIPTOR} => b[3] = consoleType
  BY <1>2, HandlerAnswers DEF AnswerTo
<1>4. /\ pc8 = "parse" /\ handling = cur /\ cur \in Requests
      /\ ~ready /\ ~Inbound /\ toMega = <<>> /\ idx = 0 /\ hstate = "NO_PACKET" /\ ~MegaQuiet
  BY <1>t, <1>2 DEF IInv, TakeTurns, TypeOK, MegaQuiet, Inbound
<1>5. MegaQuiet' /\ ~Inbound' /\ pc8' = "parse"
  BY <1>2, <1>4 DEF MegaQuiet, Inbound
<1>6. /\ buf' \in [0..BufSize - 1 -> 0..255]
      /\ buf'[0] = VALID_PACKET
      /\ buf'[1] = (IF should_reload_usb THEN RESTART ELSE cur)
      /\ buf'[2] = (IF should_reload_usb THEN 0 ELSE b[2])
      /\ buf'[3] = b[3]
  <2>1. /\ RESTART \in 0..255 /\ 0 \in 0..255
        /\ 0 \in 0..BufSize - 1 /\ 1 \in 0..BufSize - 1
        /\ 2 \in 0..BufSize - 1 /\ 3 \in 0..BufSize - 1
    BY <1>0, IdsAreBytes
  <2>2. buf' = IF should_reload_usb THEN [b EXCEPT ![1] = RESTART, ![2] = 0] ELSE b
    BY <1>1
  <2>3. CASE should_reload_usb
    <3> DEFINE c == [b EXCEPT ![1] = RESTART]
    <3>1. /\ c \in [0..BufSize - 1 -> 0..255]
          /\ c[0] = b[0] /\ c[1] = RESTART /\ c[3] = b[3]
      BY <1>3, <2>1
    <3>2. buf' = [c EXCEPT ![2] = 0]
      BY <2>2, <2>3
    <3> HIDE DEF c
    <3> QED
      BY <1>3, <2>1, <2>3, <3>1, <3>2
  <2>4. CASE ~should_reload_usb
    BY <1>3, <2>2, <2>4
  <2> QED
    BY <2>3, <2>4
<1>7. buf'[2] \in Nat /\ buf'[2] <= BufSize - 3
  <2>1. b[2] \in 0..255
    BY <1>0, <1>3
  <2>2. b[2] \in Nat /\ b[2] <= BufSize - 3 /\ 0 <= BufSize - 3
    <3> DEFINE n == b[2]
    <3>1. n \in 0..255 /\ n <= BufSize - 3
      BY <1>0, <1>3, <2>1
    <3> HIDE DEF n
    <3>2. n \in Nat /\ n <= BufSize - 3 /\ 0 <= BufSize - 3
      BY <1>0, <3>1
    <3> QED
      BY <3>2 DEF n
  <2> QED
    BY <2>2, <1>6
<1>8. idxTX' = buf'[2] + 3 /\ idxTX' \in 0..255 /\ bufTX' = 0
  <2> DEFINE n == buf'[2]
  <2>1. n \in Nat /\ n <= BufSize - 3 /\ idxTX' = (n + 3) % 256
    BY <1>0, <1>2, <1>7
  <2> HIDE DEF n
  <2>2. n + 3 \in 0..255
    BY <2>1, <1>0
  <2>3. (n + 3) % 256 = n + 3
    BY <2>2
  <2> QED
    BY <1>2, <2>1, <2>2, <2>3 DEF n
<1>9. /\ answer'.id = IdName(buf'[1])
      /\ answer'.valid = (cur = VALIDATION /\ b[3] # 0)
      /\ answer'.console = consoleType
  <2> DEFINE id == IF should_reload_usb THEN RESTART ELSE b[1]
  <2>1. answer' = [id |-> IF id \in Requests \cup {RESTART} THEN IdName(id) ELSE "unknown",
                   valid |-> handling = VALIDATION /\ b[3] # 0,
                   console |-> consoleType]
    BY <1>1
  <2>2. id \in Requests \cup {RESTART} /\ id = buf'[1]
    BY <1>3, <1>4, <1>6
  <2> HIDE DEF id
  <2> QED
    BY <1>4, <2>1, <2>2
<1>10. TypeOK'
  <2>0. 0 \in 0..BufSize
    BY <1>0
  <2>1. handling' \in {0} \cup Requests /\ should_reload_usb' \in BOOLEAN /\ bufTX' \in 0..BufSize
    BY <1>2, <2>0
  <2>2. answer'.console \in Consoles
    BY <1>t, <1>9 DEF TypeOK
  <2> QED
    <3>1. /\ pc8' \in {"idle", "parse"} /\ cur' \in Requests /\ setup' \in {H2D, D2H} \X {0, 1}
          /\ hstate' \in {"NO_PACKET", "READ_PACKET_TYPE", "READ_LENGTH", "READ_AND_RETURN", "DATA"}
      BY <1>t, <1>2 DEF TypeOK
    <3>2. /\ configured' \in BOOLEAN /\ attached' \in BOOLEAN /\ seen' \subseteq Consoles
          /\ ready' \in BOOLEAN /\ usb_ready' \in BOOLEAN /\ consoleType' \in Consoles
      BY <1>t, <1>2 DEF TypeOK
    <3>3. /\ type' \in 0..255 /\ left' \in 0..255 /\ suspends' \in 0..MaxSuspends
          /\ toMega' \in Seq(0..255) /\ toHost' \in Seq(0..255)
          /\ idx' \in 0..BufSize /\ uart' \in Seq(0..255) /\ Len(uart') <= 2
      BY <1>t, <1>2 DEF TypeOK
    <3> QED
      BY <1>6, <1>8, <2>1, <2>2, <3>1, <3>2, <3>3 DEF TypeOK
<1>11. TakeTurns'
  BY <1>2, <1>4, <1>5 DEF TakeTurns, REQUEST, TRANSMIT
<1>12. Framed' /\ Carried'
  BY <1>5 DEF Framed, Carried
<1>13. Answered'
  <2>1. /\ RESTART \notin Requests /\ RESTART \notin {VALIDATION, DEVICE, DESCRIPTOR}
        /\ RESTART # CONTROL
    BY DEF Requests, RESTART, REQUEST, TRANSMIT, DESCRIPTOR, VALIDATION, DEVICE, CONTROL
  <2>2. cur' = cur /\ setup' = setup
    BY <1>2
  <2>3. /\ buf'[1] \in {cur, RESTART}
        /\ buf'[1] \in {RESTART, TRANSMIT} => buf'[2] = 0
        /\ buf'[1] \in {VALIDATION, DEVICE, DESCRIPTOR} => buf'[2] = 1
    BY <1>3, <1>4, <1>6, <2>1
  <2>4. buf'[1] = CONTROL => buf'[2] <= 1 /\ (setup[1] = H2D => buf'[3] = H2D)
    BY <1>3, <1>4, <1>6, <2>1
  <2>5. /\ buf'[1] \in {DEVICE, DESCRIPTOR} => buf'[3] = answer'.console
        /\ buf'[1] = VALIDATION => answer'.valid = (buf'[3] # 0)
    BY <1>3, <1>4, <1>6, <1>9, <2>1
  <2>6. idxTX' + bufTX' = HeaderLen + buf'[2]
    BY <1>0, <1>7, <1>8
  <2> QED
    BY <1>0, <1>6, <1>7, <1>9, <2>2, <2>3, <2>4, <2>5, <2>6 DEF Answered
<1>14. Reading'
  <2>1. Taken' = 0 /\ hstate' = "NO_PACKET" /\ Out' = Out
    BY <1>2, <1>4 DEF Taken, Out
  <2>2. Strays' = Len(Out) /\ Len(Out) \in Nat
    BY <1>t, <1>8, <2>1, OutShape DEF Strays
  <2>3. \A i \in 1..Len(Out) : Out[i] # VALID_PACKET
    BY <1>4 DEF IInv, Harmless
  <2> QED
    BY <2>1, <2>2, <2>3 DEF Reading
<1>15. Harmless' /\ KeepsLoading' /\ DescriptorsRead' /\ UpToDate'
  BY <1>2, <1>4, <1>5 DEF IInv, Harmless, KeepsLoading, DescriptorsRead, UpToDate
<1> QED
  BY <1>10, <1>11, <1>12, <1>13, <1>14, <1>15 DEF IInv

\* The transmit interrupt takes the next byte of the answer out of buf.
LEMMA LoadStep ==
  ASSUME BufFits, IInv, Load
  PROVE  IInv'
<1>t. TypeOK
  BY DEF IInv
<1>0. BufSize \in 6..255
  BY DEF BufFits
<1>1. /\ idxTX > 0 /\ Len(uart) < 2 /\ bufTX < BufSize
      /\ uart' = Append(uart, buf[bufTX])
      /\ idxTX' = idxTX - 1 /\ bufTX' = bufTX + 1
      /\ UNCHANGED <<pc8, cur, setup, hstate, type, left, configured, attached, suspends,
                     toHost, seen, toMega, buf, idx, ready, handling, consoleType,
                     should_reload_usb, usb_ready, answer>>
  BY DEF Load, rest3, vars8, rxVars, detectVars
<1>2. /\ toHost \in Seq(0..255) /\ uart \in Seq(0..255) /\ idxTX \in 0..255 /\ bufTX \in 0..BufSize
      /\ Len(uart) \in Nat /\ buf \in [0..BufSize - 1 -> 0..255]
  BY <1>t DEF TypeOK
<1>3. bufTX \in 0..BufSize - 1 /\ bufTX \in Nat /\ idxTX \in Nat /\ idxTX # 0
  BY <1>0, <1>1, <1>2
<1>4. buf[bufTX] \in 0..255
  BY <1>2, <1>3
<1>5. uart' \in Seq(0..255) /\ Len(uart') = Len(uart) + 1 /\ Len(uart') <= 2 /\ uart' # <<>>
  BY <1>1, <1>2, <1>4, EmptySeq
<1>6. pc8 = "parse" /\ MegaQuiet /\ pc8' = "parse" /\ MegaQuiet'
  <2>1. pc8 = "parse" /\ MegaQuiet
    BY <1>t, <1>3 DEF IInv, TakeTurns, TypeOK
  <2> QED
    BY <1>1, <2>1 DEF MegaQuiet
<1>7. idxTX' \in 0..255 /\ bufTX' \in 0..BufSize
  <2>1. idxTX' \in 0..255
    BY <1>1, <1>2, <1>3
  <2>2. bufTX' \in 0..BufSize
    BY <1>0, <1>1, <1>3
  <2> QED
    BY <2>1, <2>2
<1>8. TypeOK'
  BY <1>t, <1>1, <1>5, <1>7, SMTT(30) DEF TypeOK
<1>9. TakeTurns'
  <2>1. ~Inbound /\ ~ready /\ handling = 0
    BY <1>6 DEF MegaQuiet, Inbound
  <2> QED
    BY <1>1, <1>6, <2>1 DEF TakeTurns, REQUEST, TRANSMIT, Inbound
<1>10. Framed' /\ Carried'
  <2>1. ~Inbound'
    BY <1>6 DEF Inbound, MegaQuiet
  <2> QED
    BY <1>6, <2>1 DEF Framed, Carried
<1>11. Answered'
  <2>1. idxTX' + bufTX' = idxTX + bufTX
    BY <1>1, <1>3
  <2> QED
    BY <1>1, <1>6, <2>1 DEF IInv, Answered
<1>12. Reading'
  <2>1. /\ Len(Out') = Len(Out) + 1 /\ Len(Out) \in Nat
        /\ \A i \in 1..Len(Out) : Out'[i] = Out[i]
        /\ Out'[Len(Out) + 1] = buf[bufTX]
    <3> DEFINE c == buf[bufTX]
    <3>1. c \in 0..255 /\ Out' = toHost \o Append(uart, c)
      BY <1>1, <1>4 DEF Out
    <3> HIDE DEF c
    <3>2. /\ Len(toHost \o Append(uart, c)) = Len(toHost \o uart) + 1
          /\ \A i \in 1..Len(toHost \o uart) : (toHost \o Append(uart, c))[i] = (toHost \o uart)[i]
          /\ (toHost \o Append(uart, c))[Len(toHost \o uart) + 1] = c
      BY <3>1, <1>2, LoadOut
    <3>3. Out = toHost \o uart /\ Len(Out) \in Nat
      BY <1>t, OutShape DEF Out
    <3> QED
      BY <3>1, <3>2, <3>3 DEF c
  <2>2. /\ Strays >= 0
        /\ Taken > 0 => Strays = 0
        /\ \A i \in 1..Len(Out) : IF i <= Strays THEN Out[i] # VALID_PACKET
                                  ELSE Out[i] = buf[i - 1 - Strays + Taken]
        /\ Taken >= 2 => type = buf[1]
        /\ Taken >= 3 => left = buf[2]
        /\ hstate = "READ_AND_RETURN" => InControl /\ type \in {VALIDATION, DEVICE}
        /\ hstate = "DATA" /\ InControl => type \notin {VALIDATION, DEVICE, RESTART}
    BY <1>6 DEF IInv, Reading
  <2>3. Taken' = Taken /\ Taken \in {0, 1, 2, 3} /\ InControl' = InControl
    BY <1>1, TakenShape DEF Taken, InControl
  <2>4. Strays' = Len(Out') - (bufTX' - Taken') /\ Strays = Len(Out) - (bufTX - Taken)
    BY DEF Strays
  <2>5. Strays' = Strays /\ Strays \in Nat /\ Strays <= Len(Out)
    <3> DEFINE out1 == Len(Out')
               out0 == Len(Out)
    <3>1. out0 \in Nat /\ out1 = out0 + 1
      BY <2>1
    <3>2. /\ bufTX' = bufTX + 1 /\ bufTX \in Nat /\ Taken' = Taken /\ Taken \in 0..3
          /\ Taken <= bufTX
      BY <1>1, <1>3, <2>2, <2>3, <2>4
    <3> HIDE DEF out0, out1
    <3> QED
      BY <2>2, <2>4, <3>1, <3>2 DEF out0, out1
  <2>6. ASSUME NEW i \in 1..Len(Out')
        PROVE  IF i <= Strays' THEN Out'[i] # VALID_PACKET
               ELSE Out'[i] = buf'[i - 1 - Strays' + Taken']
    <3>1. CASE i \in 1..Len(Out)
      BY <3>1, <1>1, <2>1, <2>2, <2>3, <2>5
    <3>2. CASE i = Len(Out) + 1
      <4>1. ~(i <= Strays') /\ i - 1 - Strays' + Taken' = bufTX
        BY <3>2, <1>3, <2>1, <2>3, <2>4, <2>5
      <4> QED
        BY <3>2, <4>1, <1>1, <2>1
    <3> QED
      BY <3>1, <3>2, <2>1
  <2> QED
    BY <1>1, <2>2, <2>3, <2>5, <2>6 DEF Reading
<1>13. Harmless' /\ KeepsLoading' /\ DescriptorsRead' /\ UpToDate'
  BY <1>1, <1>5, <1>6 DEF IInv, Harmless, KeepsLoading, DescriptorsRead, UpToDate
<1> QED
  BY <1>8, <1>9, <1>10, <1>11, <1>12, <1>13 DEF IInv

\* A byte that arrives at the 8u2 stays where it is among those on their way.
LEMMA ShiftStep ==
  ASSUME IInv, Shift
  PROVE  IInv'
<1>t. TypeOK
  BY DEF IInv
<1>1. /\ uart # <<>>
      /\ Len(uart) = 2 \/ idxTX = 0
      /\ toHost' = Append(toHost, Head(uart)) /\ uart' = Tail(uart)
      /\ UNCHANGED <<pc8, cur, setup, hstate, type, left, configured, attached, suspends,
                     seen, toMega, buf, idx, ready, handling, idxTX, bufTX, consoleType,
                     should_reload_usb, usb_ready, answer>>
  BY DEF Shift, vars8, rxVars, detectVars
<1>n. uart # <<>>
  BY DEF Shift
<1>2. /\ toHost \in Seq(0..255) /\ uart \in Seq(0..255) /\ Len(uart) \in Nat /\ Len(uart) <= 2
  BY <1>t DEF TypeOK
<1>3. /\ Head(uart) \in 0..255 /\ uart' \in Seq(0..255) /\ Len(uart') = Len(uart) - 1
  BY <1>n, <1>1, <1>2, HeadTailProperties
<1>4. toHost' \in Seq(0..255)
  BY <1>1, <1>2, <1>3
<1>5. Out' = Out
  BY <1>n, <1>1, <1>2, ShiftOut DEF Out
<1>6. TypeOK'
  BY <1>t, <1>1, <1>2, <1>3, <1>4 DEF TypeOK
<1>7. UNCHANGED <<MegaQuiet, Inbound, Strays, Taken, InControl>>
  BY <1>1, <1>5 DEF MegaQuiet, Inbound, Strays, Taken, InControl
<1>8. \A i \in 0..4 : Byte(i)' = Byte(i)
  BY <1>1 DEF Byte
<1>9. TakeTurns'
  BY <1>1, <1>7 DEF IInv, TakeTurns
<1>10. Framed'
  BY <1>1, <1>7, <1>8 DEF IInv, Framed
<1>11. Carried'
  BY <1>1, <1>7, <1>8 DEF IInv, Carried
<1>12. Answered'
  BY <1>1, <1>7 DEF IInv, Answered
<1>13. Reading'
  BY <1>1, <1>5, <1>7 DEF IInv, Reading
<1>14. KeepsLoading'
  <2>1. idxTX' > 0 => uart' # <<>>
    <3>1. SUFFICES ASSUME idxTX > 0 PROVE uart' # <<>>
      BY <1>1
    <3>2. Len(uart) = 2
      BY <1>1, <3>1
    <3>3. Len(uart') = 1 /\ Len(<<>>) = 0
      BY <1>3, <3>2, EmptySeq
    <3> QED
      BY <3>3
  <2> QED
    BY <2>1 DEF KeepsLoading
<1>15. Harmless' /\ DescriptorsRead' /\ UpToDate'
  BY <1>1, <1>5, <1>7 DEF IInv, Harmless, DescriptorsRead, UpToDate
<1> QED
  BY <1>6, <1>9, <1>10, <1>11, <1>12, <1>13, <1>14, <1>15 DEF IInv

-----------------------------------------------------------------------------
(* The invariant. *)

LEMMA InitInv ==
  ASSUME BufFits, Init
  PROVE  IInv
<1>0. BufSize \in 6..255 /\ MaxSuspends \in Nat /\ Universal \in Consoles
  BY LinkAssumption DEF BufFits
<1>1. /\ pc8 = "idle" /\ cur = DESCRIPTOR /\ setup = <<D2H, 0>> /\ attached = FALSE
      /\ toMega = <<>> /\ toHost = <<>> /\ uart = <<>>
      /\ idx = 0 /\ ready = FALSE /\ handling = 0 /\ idxTX = 0 /\ bufTX = 0
  BY DEF Init
<1>2. MegaQuiet /\ ~Inbound
  BY <1>1 DEF MegaQuiet, Inbound
<1>3. TypeOK
  <2>1. <<>> \in Seq(0..255) /\ Len(<<>>) = 0
    BY EmptySeq
  <2>2. buf \in [0..BufSize - 1 -> 0..255]
    BY DEF Init
  <2>3. /\ 0 \in 0..255 /\ 0 \in 0..BufSize /\ 0 \in 0..MaxSuspends /\ {} \subseteq Consoles
        /\ DESCRIPTOR \in Requests
    BY <1>0 DEF Requests
  <2>4. setup \in {H2D, D2H} \X {0, 1}
    BY <1>1
  <2>5. /\ hstate = "NO_PACKET" /\ type = 0 /\ left = 0 /\ configured = FALSE /\ suspends = 0
        /\ consoleType = Universal /\ should_reload_usb = FALSE /\ usb_ready = FALSE /\ seen = {}
    BY DEF Init
  <2>6. answer.console = Universal
    BY DEF Init
  <2>7. /\ toMega \in Seq(0..255) /\ toHost \in Seq(0..255)
        /\ uart \in Seq(0..255) /\ Len(uart) <= 2
    BY <1>1, <2>1
  <2> QED
    BY <1>0, <1>1, <2>2, <2>3, <2>4, <2>5, <2>6, <2>7 DEF TypeOK
<1>4. TakeTurns /\ Framed /\ Carried
  BY <1>1, <1>2 DEF TakeTurns, Framed, Carried, REQUEST, TRANSMIT
<1>5. Answered /\ Reading
  BY <1>1 DEF Answered, Reading
<1>6. Harmless
  <2>1. Out = <<>> /\ Len(<<>>) = 0
    BY <1>1, EmptySeq, ConcatEmptySeq DEF Out
  <2> QED
    BY <2>1 DEF Harmless
<1>7. KeepsLoading /\ DescriptorsRead /\ UpToDate
  BY <1>1 DEF KeepsLoading, DescriptorsRead, UpToDate
<1> QED
  BY <1>3, <1>4, <1>5, <1>6, <1>7 DEF IInv

LEMMA InvStep ==
  ASSUME QuietHost, BufFits, IInv, [Next]_vars
  PROVE  IInv'
<1>1. CASE \/ RequestReport \/ \E d \in DataBytes : TransmitReport(d)
           \/ GetDescriptor \/ ConfigurationChanged
           \/ \E dir \in {H2D, D2H}, w \in {0, 1} : ControlRequest(dir, w)
  BY <1>1, RequestSteps
<1>2. CASE Connect \/ Disconnect
  BY <1>2, WriteReadyStep
<1>3. CASE BusReset
  BY <1>3, BusResetStep
<1>4. CASE Reboot
  BY <1>4, RebootStep
<1>5. CASE Reader
  BY <1>5, ReadMagicStep, ReadTypeStep, ReadLengthStep, ReadLengthDoneStep,
     ReadLengthRestartStep, ReadAnswerStep, ReadPayloadStep DEF Reader
<1>6. CASE Receive
  BY <1>6, ReceiveStep
<1>7. CASE Dispatch
  BY <1>7, DispatchStep
<1>8. CASE Complete
  BY <1>8, CompleteStep
<1>9. CASE Load
  BY <1>9, LoadStep
<1>10. CASE Shift
  BY <1>10, ShiftStep
<1>11. CASE \E c \in Consoles : Detect(c)
  BY <1>11, DetectStep
<1>12. CASE UNCHANGED vars
  BY <1>12, StutterStep
<1> QED
  BY <1>1, <1>2, <1>3, <1>4, <1>5, <1>6, <1>7, <1>8, <1>9, <1>10, <1>11, <1>12 DEF Next

\* The strengthening of all that follows holds in every behaviour.
THEOREM Invariant == QuietHost /\ BufFits => (Spec => []IInv)
<1> SUFFICES ASSUME QuietHost, BufFits PROVE Spec => []IInv
  OBVIOUS
<1>1. Init => IInv
  BY InitInv
<1>2. IInv /\ [Next]_vars => IInv'
  BY InvStep
<1> QED
  BY <1>1, <1>2, PTL DEF Spec

-----------------------------------------------------------------------------
(* What the runs check. *)

\* The types of the variables of both processors.
THEOREM TypeCorrect == QuietHost /\ BufFits => (Spec => []TypeOK)
<1>1. IInv => TypeOK
  BY DEF IInv
<1> QED
  BY <1>1, Invariant, PTL

\* handleControlRequest and handleControllerData compare the id they read with
\* nothing, and still only ever take the answer to what was asked, or a RESTART.
THEOREM RepliesArePaired == QuietHost /\ BufFits => (Spec => []PairedReply)
<1>1. IInv => PairedReply
  <2> SUFFICES ASSUME IInv, pc8 = "parse", hstate \in {"READ_LENGTH", "READ_AND_RETURN", "DATA"}
               PROVE  type \in {cur, RESTART}
    BY DEF PairedReply
  <2>1. MegaQuiet
    BY DEF IInv, TakeTurns
  <2>2. Taken >= 2
    BY DEF Taken, HeaderLen
  <2> QED
    BY <2>1, <2>2 DEF IInv, Reading, Answered
<1> QED
  BY <1>1, Invariant, PTL

\* buf has one user at a time, though two interrupts and loop() share it without a lock.
THEOREM BufferIsExclusive == QuietHost /\ BufFits => (Spec => []BufferExclusive)
<1>1. IInv => BufferExclusive
  <2> SUFFICES ASSUME IInv PROVE BufferExclusive
    OBVIOUS
  <2>1. idx \in Nat /\ idxTX \in Nat
    BY DEF IInv, TypeOK
  <2>2. (Inbound => ~ready /\ handling = 0) /\ (ready => handling = 0) /\ (~MegaQuiet => idxTX = 0)
    BY DEF IInv, TakeTurns
  <2>3. idx = 0 \/ Inbound
    BY <2>1 DEF Inbound
  <2>4. Inbound \/ ready => ~MegaQuiet
    BY <2>1 DEF Inbound, MegaQuiet
  <2> QED
    BY <2>1, <2>2, <2>3, <2>4 DEF BufferExclusive
<1> QED
  BY <1>1, Invariant, PTL

\* What an exchange leaves in the ring of the 8u2 is skipped by the next one.
THEOREM StraysAreHarmless == QuietHost /\ BufFits => (Spec => []StrayHarmless)
<1>1. IInv => StrayHarmless
  BY DEF IInv, Harmless, StrayHarmless, Out
<1> QED
  BY <1>1, Invariant, PTL

\* Whenever the 8u2 waits for nothing, the 328p knows of a host that is attached.
THEOREM AttachedIsKnown == QuietHost /\ BufFits => (Spec => []AttachedKnown)
<1>1. IInv => AttachedKnown
  BY DEF IInv, UpToDate, AttachedKnown
<1> QED
  BY <1>1, Invariant, PTL

-----------------------------------------------------------------------------
(* The exchange never stops halfway. *)

\* A packet of which the 328p has a part is still coming.
StillComing == idx > 0 => toMega # <<>>

\* While the 8u2 waits something can happen: a byte for the receive interrupt, a
\* packet for loop(), an answer to build, a byte to load or to shift out, or bytes
\* enough for the reader.  Its waits have no timeout.
NeverStuck ==
  pc8 = "parse" =>
    \/ toMega # <<>> /\ idx < BufSize
    \/ ready /\ handling = 0
    \/ handling # 0
    \/ idxTX > 0 /\ Len(uart) < 2 /\ bufTX < BufSize
    \/ uart # <<>> /\ (Len(uart) = 2 \/ idxTX = 0)
    \/ hstate # "DATA" /\ toHost # <<>>
    \/ hstate = "DATA" /\ Len(toHost) >= left

LEMMA StillComingStep ==
  ASSUME QuietHost, BufFits, IInv, StillComing, [Next]_vars
  PROVE  StillComing'
<1>0. EventsRace = FALSE
  BY DEF QuietHost
<1>1. CASE \/ RequestReport \/ \E d \in DataBytes : TransmitReport(d)
           \/ GetDescriptor \/ ConfigurationChanged
           \/ \E dir \in {H2D, D2H}, w \in {0, 1} : ControlRequest(dir, w)
  <2>1. Poll
    BY <1>1 DEF RequestReport, TransmitReport, GetDescriptor, ConfigurationChanged, ControlRequest
  <2>2. idx = 0 /\ idx' = idx
    BY <2>1, <1>0 DEF Poll, MegaQuiet, rxVars
  <2> QED
    BY <2>2 DEF StillComing
<1>2. CASE Connect \/ Disconnect
  <2>1. \E up \in BOOLEAN : WriteReady(up)
    BY <1>2 DEF Connect, Disconnect
  <2>2. idx = 0 /\ idx' = idx
    BY <2>1, <1>0 DEF WriteReady, MegaQuiet, rxVars
  <2> QED
    BY <2>2 DEF StillComing
<1>3. CASE Reboot
  BY <1>3 DEF Reboot, StillComing
<1>4. CASE ReadLengthRestart \/ ReadAnswer
  <2>1. pc8 = "parse" /\ hstate # "NO_PACKET" /\ idx' = idx
    BY <1>4 DEF ReadLengthRestart, ReadAnswer, ReadByte, rest8, rxVars
  <2>2. MegaQuiet
    BY <2>1 DEF IInv, TakeTurns
  <2> QED
    BY <2>1, <2>2 DEF MegaQuiet, StillComing
<1>5. CASE Receive
  <2>1. idx' = 0 \/ toMega' # <<>>
    BY <1>5, ReceiveByte
  <2> QED
    BY <2>1 DEF StillComing
<1>6. CASE \/ BusReset \/ ReadMagic \/ ReadType \/ ReadLength \/ ReadLengthDone \/ ReadPayload
           \/ Dispatch \/ Complete \/ Load \/ Shift
           \/ \E c \in Consoles : Detect(c)
           \/ UNCHANGED vars
  <2>1. UNCHANGED <<idx, toMega>>
    BY <1>6 DEF BusReset, ReadMagic, ReadType, ReadLength, ReadLengthDone, ReadPayload, rest8,
       Dispatch, Complete, Load, Shift, Detect, rest3, rxVars, vars
  <2> QED
    BY <2>1 DEF StillComing
<1> QED
  BY <1>1, <1>2, <1>3, <1>4, <1>5, <1>6 DEF Next, Reader

\* What the 328p has answered reaches the reader: it never waits for more bytes
\* than buf[2] promised.
LEMMA AnswerMoves ==
  ASSUME BufFits, IInv, pc8 = "parse", MegaQuiet
  PROVE  \/ idxTX > 0 /\ Len(uart) < 2 /\ bufTX < BufSize
         \/ uart # <<>> /\ (Len(uart) = 2 \/ idxTX = 0)
         \/ hstate # "DATA" /\ toHost # <<>>
         \/ hstate = "DATA" /\ Len(toHost) >= left
<1>t. TypeOK
  BY DEF IInv
<1>1. /\ BufSize \in 6..255 /\ idxTX \in 0..255 /\ bufTX \in 0..BufSize
      /\ uart \in Seq(0..255) /\ toHost \in Seq(0..255) /\ Len(uart) <= 2 /\ buf[2] \in 0..255
  BY <1>t DEF BufFits, TypeOK
<1>2. /\ Len(uart) \in Nat /\ Len(toHost) \in Nat
      /\ uart = <<>> => Len(uart) = 0
      /\ Len(toHost) > 0 => toHost # <<>>
      /\ Len(Out) = Len(toHost) + Len(uart)
  BY <1>t, <1>1, OutShape, EmptySeq
<1>3. /\ idxTX + bufTX = 3 + buf[2] /\ buf[2] <= BufSize - 3
      /\ buf[1] \in {VALIDATION, DEVICE} => buf[2] = 1
  BY DEF IInv, Answered, HeaderLen
<1> DEFINE len == buf[2]
           queued == Len(uart)
<1>n. /\ idxTX \in Nat /\ bufTX \in Nat /\ BufSize \in Nat /\ len \in Nat
      /\ idxTX + bufTX = 3 + len /\ len <= BufSize - 3
      /\ queued \in Nat /\ queued <= 2 /\ Len(toHost) \in Nat
  <2>1. len \in 0..255 /\ queued <= 2 /\ queued \in Nat
    BY <1>1, <1>2
  <2>2. idxTX + bufTX = 3 + len /\ len <= BufSize - 3
    BY <1>3
  <2> HIDE DEF len, queued
  <2> QED
    BY <1>1, <1>2, <2>1, <2>2
<1> HIDE DEF len, queued
<1>4. CASE idxTX > 0
  <2>1. bufTX < BufSize
    BY <1>n, <1>4
  <2>2. queued < 2 \/ queued = 2
    BY <1>n
  <2>3. Len(uart) = 2 => uart # <<>>
    BY <1>2
  <2> QED
    BY <1>4, <2>1, <2>2, <2>3 DEF queued
<1>5. CASE idxTX = 0 /\ uart # <<>>
  BY <1>5
<1>6. CASE idxTX = 0 /\ uart = <<>>
  <2>1. bufTX = 3 + len /\ Len(Out) = Len(toHost)
    BY <1>n, <1>2, <1>6
  <2>2. Taken \in {0, 1, 2, 3} /\ Len(Out) - (bufTX - Taken) >= 0
    BY TakenShape DEF IInv, Reading, Strays
  <2>3. Len(toHost) + Taken >= 3 + len
    BY <1>n, <2>1, <2>2
  <2>4. CASE hstate = "DATA"
    <3>1. Taken = 3
      BY <2>4, TakenShape
    <3>2. left = len
      BY <3>1 DEF IInv, Reading, len
    <3>3. Len(toHost) >= len
      BY <1>n, <2>3, <3>1
    <3> QED
      BY <2>4, <3>2, <3>3
  <2>5. CASE hstate = "READ_AND_RETURN"
    <3>1. Taken = 3
      BY <2>5, TakenShape
    <3>2. type = buf[1] /\ type \in {VALIDATION, DEVICE}
      BY <3>1, <2>5 DEF IInv, Reading
    <3>3. len = 1
      BY <1>3, <3>2 DEF len
    <3>4. Len(toHost) > 0
      BY <1>n, <2>3, <3>1, <3>3
    <3> QED
      BY <1>2, <2>5, <3>4
  <2>6. CASE hstate \in {"NO_PACKET", "READ_PACKET_TYPE", "READ_LENGTH"}
    <3>1. Taken \in {0, 1, 2}
      BY <2>6, TakenShape
    <3>2. Len(toHost) > 0
      BY <1>n, <2>3, <3>1
    <3> QED
      BY <1>2, <2>6, <3>2
  <2> QED
    BY <1>t, <2>4, <2>5, <2>6 DEF TypeOK
<1> QED
  BY <1>1, <1>4, <1>5, <1>6

\* handleControlRequest and handleControllerData spin until the answer is there,
\* with no timeout: at every moment of that wait one of the two processors, or the
\* wire between them, has a step to take.
THEOREM ExchangeNeverStuck == QuietHost /\ BufFits => (Spec => []NeverStuck)
<1> SUFFICES ASSUME QuietHost, BufFits PROVE Spec => []NeverStuck
  OBVIOUS
<1>1. Init => StillComing
  BY DEF Init, StillComing
<1>2. IInv /\ StillComing /\ [Next]_vars => StillComing'
  BY StillComingStep
<1>3. IInv /\ StillComing => NeverStuck
  <2> SUFFICES ASSUME IInv, StillComing, pc8 = "parse" PROVE NeverStuck
    BY DEF NeverStuck
  <2>1. CASE MegaQuiet
    BY <2>1, AnswerMoves DEF NeverStuck
  <2>2. CASE toMega # <<>>
    <3>1. idx + Len(toMega) <= BufSize
      BY <2>2 DEF IInv, Framed, Inbound
    <3>2. Len(toMega) \in Nat \ {0} /\ idx \in 0..BufSize /\ BufSize \in 6..255
      BY <2>2, EmptySeq DEF IInv, TypeOK, BufFits
    <3>3. idx < BufSize
      BY <3>1, <3>2
    <3> QED
      BY <2>2, <3>3 DEF NeverStuck
  <2>3. CASE toMega = <<>> /\ ~MegaQuiet
    <3>1. idx = 0
      BY <2>3 DEF StillComing, IInv, TypeOK
    <3>2. ready \/ handling # 0
      BY <2>3, <3>1 DEF MegaQuiet
    <3> QED
      BY <3>2 DEF NeverStuck
  <2> QED
    BY <2>1, <2>2, <2>3
<1> QED
  BY <1>1, <1>2, <1>3, Invariant, PTL DEF Spec

-----------------------------------------------------------------------------
(* The link implements the bridge. *)

\* The names of the packets.
LEMMA IdNames ==
  /\ IdName(VALIDATION) = "CONTROL_REQUEST_VALIDATION_ID"
  /\ IdName(CONTROL) = "CONTROL_REQUEST_ID"
  /\ IdName(DESCRIPTOR) = "DESCRIPTOR_ID"
  /\ IdName(DEVICE) = "DEVICE_ID"
  /\ IdName(REQUEST) = "CONTROLLER_DATA_REQUEST_ID"
  /\ IdName(TRANSMIT) = "CONTROLLER_DATA_TRANSMIT_ID"
  /\ IdName(RESTART) = Bridge!RESTART
BY DEF IdName, VALIDATION, CONTROL, DESCRIPTOR, DEVICE, REQUEST, TRANSMIT, RESTART, Bridge!RESTART

\* A packet's kind shows in its name.
LEMMA NameKinds ==
  ASSUME NEW id \in Requests
  PROVE  /\ IdName(id) \in Bridge!ControlIds \cup Bridge!DataIds
         /\ IdName(id) # Bridge!RESTART
         /\ IdName(id) \in Bridge!DataIds <=> id \in {REQUEST, TRANSMIT}
         /\ IdName(id) \in Bridge!ControlIds <=> id \notin {REQUEST, TRANSMIT}
         /\ IdName(id) \in Bridge!IdentityIds <=> id \in {DESCRIPTOR, DEVICE}
         /\ IdName(id) = "CONTROL_REQUEST_VALIDATION_ID" <=> id = VALIDATION
         /\ IdName(id) = "CONTROL_REQUEST_ID" <=> id = CONTROL
         /\ IdName(id) = "DEVICE_ID" <=> id = DEVICE
<1>1. id \in {VALIDATION, CONTROL, DESCRIPTOR, DEVICE, REQUEST, TRANSMIT}
  BY DEF Requests
<1> USE IdNames DEF Bridge!RESTART, Bridge!ControlIds, Bridge!DataIds, Bridge!IdentityIds
<1>2. CASE id = VALIDATION
  BY <1>2 DEF VALIDATION, CONTROL, DESCRIPTOR, DEVICE, REQUEST, TRANSMIT
<1>3. CASE id = CONTROL
  BY <1>3 DEF VALIDATION, CONTROL, DESCRIPTOR, DEVICE, REQUEST, TRANSMIT
<1>4. CASE id = DESCRIPTOR
  BY <1>4 DEF VALIDATION, CONTROL, DESCRIPTOR, DEVICE, REQUEST, TRANSMIT
<1>5. CASE id = DEVICE
  BY <1>5 DEF VALIDATION, CONTROL, DESCRIPTOR, DEVICE, REQUEST, TRANSMIT
<1>6. CASE id = REQUEST
  BY <1>6 DEF VALIDATION, CONTROL, DESCRIPTOR, DEVICE, REQUEST, TRANSMIT
<1>7. CASE id = TRANSMIT
  BY <1>7 DEF VALIDATION, CONTROL, DESCRIPTOR, DEVICE, REQUEST, TRANSMIT
<1> QED
  BY <1>1, <1>2, <1>3, <1>4, <1>5, <1>6, <1>7

\* A byte that moves, or a USB_READY, is none of the bridge's business.
LEMMA InvisibleStep ==
  ASSUME TypeOK, UNCHANGED <<pc8, cur, configured, seen, consoleType, should_reload_usb, answer>>,
         pc8 = "parse" => UNCHANGED MegaQuiet
  PROVE  UNCHANGED Bridge!vars
<1>1. pc8 = "idle" \/ pc8 = "parse"
  BY DEF TypeOK
<1>2. Phase' = Phase
  BY <1>1 DEF Phase
<1>3. Asked' = Asked
  BY DEF Asked, IdName
<1> QED
  BY <1>2, <1>3 DEF Bridge!vars

\* Every request of the host is one the bridge sends.
LEMMA AskImplements ==
  ASSUME QuietHost, NEW id \in Requests \ {CONTROL}, NEW p, Ask(id, p), Poll, toMega' # <<>>,
         id \in {REQUEST, TRANSMIT} => configured
  PROVE  Bridge!Next
<1>1. Phase = "idle" /\ Phase' = "requested"
  <2>1. pc8 = "idle" /\ pc8' = "parse" /\ ~MegaQuiet'
    BY DEF Poll, Ask, MegaQuiet
  <2> QED
    BY <2>1 DEF Phase
<1> DEFINE name == IdName(id)
<1>2. Asked' = name
  BY DEF Ask, Asked, IdName
<1>3. /\ name \in Bridge!ControlIds \cup Bridge!DataIds
      /\ name # "CONTROL_REQUEST_ID"
      /\ name \in Bridge!DataIds => configured
  BY NameKinds
<1> HIDE DEF name
<1>4. UNCHANGED <<answer, consoleType, should_reload_usb, configured, seen>>
  BY DEF Poll, detectVars
<1>5. Bridge!Send(name)
  BY <1>1, <1>2, <1>3, <1>4 DEF Bridge!Send
<1> QED
  BY <1>3, <1>5 DEF Bridge!Next

\* A packet written into the empty ring is one the 328p has to take.
LEMMA AskSends ==
  ASSUME BufFits, TypeOK, toMega = <<>>, NEW id \in 0..255, NEW p \in Seq(0..255),
         Len(p) <= 2, Ask(id, p)
  PROVE  toMega' # <<>>
<1>1. HeaderLen + Len(p) <= BufSize
  <2> DEFINE n == Len(p)
  <2>1. n \in Nat /\ n <= 2 /\ BufSize \in Nat /\ BufSize >= 6
    BY DEF BufFits
  <2> HIDE DEF n
  <2>2. 3 + n <= BufSize
    BY <2>1
  <2> QED
    BY <2>2 DEF n, HeaderLen
<1> QED
  BY <1>1, PacketSent DEF Ask

LEMMA RequestsImplement ==
  ASSUME QuietHost, BufFits, TypeOK,
         \/ RequestReport \/ \E d \in DataBytes : TransmitReport(d)
         \/ GetDescriptor \/ ConfigurationChanged
         \/ \E dir \in {H2D, D2H}, w \in {0, 1} : ControlRequest(dir, w)
  PROVE  Bridge!Next
<1>0. \A id \in {REQUEST, TRANSMIT, DESCRIPTOR, DEVICE, VALIDATION} : id \in Requests \ {CONTROL}
  BY DEF Requests, REQUEST, TRANSMIT, DESCRIPTOR, DEVICE, VALIDATION, CONTROL
<1>1. ASSUME NEW id \in {REQUEST, TRANSMIT, DESCRIPTOR, DEVICE, VALIDATION},
             NEW p \in Seq(0..255), Len(p) <= 2, Poll, Ask(id, p),
             id \in {REQUEST, TRANSMIT} => configured
      PROVE  Bridge!Next
  <2>0. id \in Requests \ {CONTROL}
    BY <1>0
  <2>1. id \in Requests \ {CONTROL} /\ id \in 0..255
    <3>1. id \in 1..255
      BY <2>0, IdsAreBytes
    <3> QED
      BY <2>0, <3>1
  <2>2. toMega = <<>>
    BY <1>1 DEF Poll, QuietHost, MegaQuiet
  <2>3. toMega' # <<>>
    BY <1>1, <2>1, <2>2, AskSends
  <2> QED
    BY <1>1, <2>1, <2>3, AskImplements
<1>e. <<>> \in Seq(0..255) /\ Len(<<>>) <= 2
  BY EmptySeq
<1>k. {DESCRIPTOR, DEVICE, VALIDATION} \cap {REQUEST, TRANSMIT} = {}
  BY DEF REQUEST, TRANSMIT, DESCRIPTOR, DEVICE, VALIDATION
<1>2. CASE RequestReport
  BY <1>1, <1>2, <1>e DEF RequestReport
<1>3. ASSUME NEW d \in DataBytes, TransmitReport(d) PROVE Bridge!Next
  <2> DEFINE p == <<d>>
  <2>1. p \in Seq(0..255) /\ Len(p) <= 2
    BY OneByte, LinkAssumption
  <2>2. Ask(TRANSMIT, p) /\ Poll /\ configured
    BY <1>3 DEF TransmitReport
  <2> HIDE DEF p
  <2> QED
    BY <1>1, <2>1, <2>2
<1>4. CASE GetDescriptor
  <2> DEFINE p == <<1>>
  <2>1. p \in Seq(0..255) /\ Len(p) <= 2
    BY OneByte
  <2>2. Ask(DESCRIPTOR, p) /\ Poll
    BY <1>4 DEF GetDescriptor
  <2> HIDE DEF p
  <2> QED
    BY <1>1, <1>k, <2>1, <2>2
<1>5. CASE ConfigurationChanged
  BY <1>1, <1>5, <1>e, <1>k DEF ConfigurationChanged
<1>6. ASSUME NEW dir \in {H2D, D2H}, NEW w \in {0, 1}, ControlRequest(dir, w) PROVE Bridge!Next
  <2> DEFINE p == <<dir, w>>
  <2>1. p \in {H2D, D2H} \X {0, 1}
    OBVIOUS
  <2>2. Ask(VALIDATION, p) /\ Poll
    BY <1>6 DEF ControlRequest
  <2> HIDE DEF p
  <2>3. p \in Seq(0..255) /\ Len(p) = 2
    BY <2>1, SetupShape
  <2>4. Len(p) <= 2
    BY <2>3
  <2> QED
    BY <1>1, <1>k, <2>2, <2>3, <2>4
<1> QED
  BY <1>2, <1>3, <1>4, <1>5, <1>6

\* The reader is past the header of the answer to what was asked.
LEMMA ReadingAnswer ==
  ASSUME IInv, pc8 = "parse", hstate \in {"READ_LENGTH", "READ_AND_RETURN", "DATA"}
  PROVE  /\ Phase = "answered"
         /\ type = buf[1] /\ type \in {cur, RESTART}
         /\ answer.id = IdName(type)
         /\ cur \in Requests /\ Asked = IdName(cur)
<1>1. MegaQuiet
  BY DEF IInv, TakeTurns
<1>2. Taken >= 2
  BY DEF Taken, HeaderLen
<1>3. type = buf[1]
  BY <1>1, <1>2 DEF IInv, Reading
<1>4. buf[1] \in {cur, RESTART} /\ answer.id = IdName(buf[1])
  BY <1>1 DEF IInv, Answered
<1>5. Phase = "answered"
  BY <1>1 DEF Phase
<1>6. cur \in Requests
  BY DEF IInv, TypeOK
<1> QED
  BY <1>3, <1>4, <1>5, <1>6 DEF Asked

\* The three ways to end an exchange.
LEMMA DataEnds ==
  ASSUME Phase = "answered", cur \in {REQUEST, TRANSMIT}, pc8' = "idle",
         UNCHANGED <<cur, configured, seen, consoleType, should_reload_usb, answer>>
  PROVE  Bridge!Next
<1>1. cur \in Requests
  BY DEF Requests
<1>2. Asked \in Bridge!DataIds
  BY <1>1, NameKinds DEF Asked
<1>3. Phase' = "idle" /\ Asked' = Asked
  BY DEF Phase, Asked, IdName
<1>4. Bridge!ReceiveData
  BY <1>2, <1>3 DEF Bridge!ReceiveData
<1> QED
  BY <1>4 DEF Bridge!Next

LEMMA ControlEnds ==
  ASSUME Phase = "answered", cur \in Requests, cur \notin {REQUEST, TRANSMIT}, pc8' = "idle",
         answer.id = IdName(cur), ~(cur = VALIDATION /\ answer.valid),
         seen' = IF cur \in {DESCRIPTOR, DEVICE} THEN seen \cup {answer.console} ELSE seen,
         configured' = (configured \/ cur = DEVICE),
         UNCHANGED <<cur, consoleType, should_reload_usb, answer>>
  PROVE  Bridge!Next
<1>1. /\ Asked \in Bridge!ControlIds /\ answer.id # Bridge!RESTART
      /\ Asked \in Bridge!IdentityIds <=> cur \in {DESCRIPTOR, DEVICE}
      /\ Asked = "CONTROL_REQUEST_VALIDATION_ID" <=> cur = VALIDATION
      /\ Asked = "DEVICE_ID" <=> cur = DEVICE
  BY NameKinds DEF Asked
<1>2. Phase' = "idle" /\ Asked' = Asked
  BY DEF Phase, Asked, IdName
<1>3. seen' = IF Asked \in Bridge!IdentityIds THEN seen \cup {answer.console} ELSE seen
  BY <1>1
<1>4. configured' = (configured \/ Asked = "DEVICE_ID")
  BY <1>1
<1>5. Bridge!ReceiveControl
  BY <1>1, <1>2, <1>3, <1>4 DEF Bridge!ReceiveControl
<1> QED
  BY <1>5 DEF Bridge!Next

LEMMA ReadLengthDoneImplements ==
  ASSUME IInv, ReadLengthDone
  PROVE  Bridge!Next
<1>1. /\ pc8 = "parse" /\ hstate = "READ_LENGTH" /\ pc8' = "idle"
      /\ \/ InControl /\ HostToDev /\ type \notin {VALIDATION, DEVICE, RESTART}
         \/ ~InControl /\ type = TRANSMIT
      /\ UNCHANGED <<cur, configured, seen, consoleType, should_reload_usb, answer>>
  BY DEF ReadLengthDone, ReadByte, rest8, detectVars
<1>2. /\ Phase = "answered" /\ type \in {cur, RESTART}
      /\ answer.id = IdName(type) /\ cur \in Requests
  BY <1>1, ReadingAnswer
<1>3. CASE InControl /\ HostToDev /\ type \notin {VALIDATION, DEVICE, RESTART}
  <2>1. type = cur /\ cur \notin {REQUEST, TRANSMIT}
    BY <1>2, <1>3 DEF InControl
  <2>2. cur # DESCRIPTOR
    BY <1>3 DEF HostToDev, IInv, DescriptorsRead, H2D, D2H
  <2>3. cur # VALIDATION /\ cur # DEVICE
    BY <1>3, <2>1
  <2>4. seen' = IF cur \in {DESCRIPTOR, DEVICE} THEN seen \cup {answer.console} ELSE seen
    BY <1>1, <2>2, <2>3
  <2>5. configured' = (configured \/ cur = DEVICE)
    <3>1. configured \in BOOLEAN
      BY DEF IInv, TypeOK
    <3> QED
      BY <1>1, <2>3, <3>1
  <2> QED
    BY <1>1, <1>2, <2>1, <2>3, <2>4, <2>5, ControlEnds
<1>4. CASE ~InControl /\ type = TRANSMIT
  BY <1>1, <1>2, <1>4, DataEnds DEF InControl
<1> QED
  BY <1>1, <1>3, <1>4

LEMMA ReadLengthRestartImplements ==
  ASSUME IInv, ReadLengthRestart
  PROVE  Bridge!Next
<1>1. /\ pc8 = "parse" /\ hstate = "READ_LENGTH" /\ pc8' = "idle" /\ InControl /\ type = RESTART
      /\ configured' = FALSE /\ seen' = {}
      /\ UNCHANGED <<cur, consoleType, should_reload_usb, answer>>
  BY DEF ReadLengthRestart, ReadByte, rest8, detectVars
<1>2. /\ Phase = "answered" /\ answer.id = IdName(type) /\ cur \in Requests /\ Asked = IdName(cur)
  BY <1>1, ReadingAnswer
<1>3. answer.id = Bridge!RESTART
  BY <1>1, <1>2, IdNames
<1>4. Asked \in Bridge!ControlIds
  BY <1>1, <1>2, NameKinds DEF InControl
<1>5. Phase' = "idle" /\ Asked' = Asked
  BY <1>1 DEF Phase, Asked, IdName
<1>6. Bridge!ReceiveControl
  BY <1>1, <1>2, <1>3, <1>4, <1>5 DEF Bridge!ReceiveControl, Bridge!RestartUsb
<1> QED
  BY <1>6 DEF Bridge!Next

LEMMA ReadAnswerImplements ==
  ASSUME BufFits, IInv, ReadAnswer
  PROVE  Bridge!Next
<1>t. TypeOK
  BY DEF IInv
<1>1. /\ pc8 = "parse" /\ hstate = "READ_AND_RETURN" /\ toHost # <<>> /\ toHost' = Tail(toHost)
      /\ UNCHANGED <<consoleType, should_reload_usb, answer, uart>>
  BY DEF ReadAnswer, ReadByte, rest8, detectVars, txVars
<1>2. /\ MegaQuiet /\ type = buf[1] /\ type \in {VALIDATION, DEVICE}
      /\ Head(toHost) = buf[3] /\ cur = type
  BY <1>1, AnswerByte
<1>3. /\ Phase = "answered" /\ answer.id = IdName(cur) /\ cur \in Requests /\ Asked = IdName(cur)
  BY <1>1, <1>2, ReadingAnswer
<1>4. cur \notin {REQUEST, TRANSMIT}
  BY <1>2 DEF VALIDATION, DEVICE, REQUEST, TRANSMIT
<1>5. /\ cur = DEVICE => answer.console = Head(toHost)
      /\ cur = VALIDATION => answer.valid = (Head(toHost) # 0)
  BY <1>1, <1>2 DEF IInv, Answered
<1>6. CASE cur = VALIDATION /\ Head(toHost) # 0
  <2>1. PICK d \in [1..(IF HostToDev THEN setup[2] ELSE 0) -> DataBytes] : Ask(CONTROL, setup \o d)
    BY <1>6 DEF ReadAnswer
  <2>2. UNCHANGED <<configured, seen>>
    BY <1>6 DEF ReadAnswer
  <2> DEFINE p == setup \o d
  <2>3. p \in Seq(0..255) /\ Len(p) <= 3
    BY <1>t, ControlShape
  <2>4. Ask(CONTROL, p)
    BY <2>1
  <2> HIDE DEF p
  <2>5. toMega' # <<>>
    <3>1. HeaderLen + Len(p) <= BufSize
      <4> DEFINE n == Len(p)
      <4>1. n \in Nat /\ n <= 3 /\ BufSize \in Nat /\ BufSize >= 6
        BY <2>3 DEF BufFits
      <4> HIDE DEF n
      <4>2. 3 + n <= BufSize
        BY <4>1
      <4> QED
        BY <4>2 DEF n, HeaderLen
    <3>2. CONTROL \in 0..255 /\ toMega = <<>>
      BY <1>2 DEF CONTROL, MegaQuiet
    <3> QED
      BY <1>t, <2>3, <2>4, <3>1, <3>2, PacketSent DEF Ask
  <2>6. Phase' = "requested" /\ Asked' = "CONTROL_REQUEST_ID"
    <3>1. pc8' = "parse" /\ cur' = CONTROL /\ ~MegaQuiet'
      BY <2>4, <2>5 DEF Ask, MegaQuiet
    <3>2. Asked' = IdName(CONTROL)
      BY <3>1 DEF Asked, IdName
    <3> QED
      BY <3>1, <3>2, IdNames DEF Phase
  <2>7. /\ Asked \in Bridge!ControlIds /\ answer.id # Bridge!RESTART
        /\ Asked = "CONTROL_REQUEST_VALIDATION_ID"
    BY <1>3, <1>4, <1>6, NameKinds
  <2>8. answer.valid
    BY <1>5, <1>6
  <2>9. Bridge!ReceiveControl
    BY <1>1, <1>3, <2>2, <2>6, <2>7, <2>8 DEF Bridge!ReceiveControl
  <2> QED
    BY <2>9 DEF Bridge!Next
<1>7. CASE ~(cur = VALIDATION /\ Head(toHost) # 0)
  <2>1. /\ pc8' = "idle" /\ cur' = cur
        /\ configured' = (configured \/ cur = DEVICE)
        /\ seen' = IF cur = DEVICE THEN seen \cup {Head(toHost)} ELSE seen
    BY <1>7 DEF ReadAnswer
  <2>2. cur # DESCRIPTOR
    BY <1>2 DEF VALIDATION, DEVICE, DESCRIPTOR
  <2>3. seen' = IF cur \in {DESCRIPTOR, DEVICE} THEN seen \cup {answer.console} ELSE seen
    BY <1>5, <2>1, <2>2
  <2>4. ~(cur = VALIDATION /\ answer.valid)
    BY <1>5, <1>7
  <2> QED
    BY <1>1, <1>3, <1>4, <2>1, <2>3, <2>4, ControlEnds
<1> QED
  BY <1>6, <1>7

LEMMA ReadPayloadImplements ==
  ASSUME IInv, ReadPayload
  PROVE  Bridge!Next
<1>1. /\ pc8 = "parse" /\ hstate = "DATA" /\ Len(toHost) >= left /\ pc8' = "idle"
      /\ seen' = IF cur = DESCRIPTOR /\ left > 0 THEN seen \cup {toHost[1]} ELSE seen
      /\ UNCHANGED <<cur, configured, consoleType, should_reload_usb, answer>>
  BY DEF ReadPayload, rest8, detectVars
<1>2. /\ Phase = "answered" /\ type \in {cur, RESTART}
      /\ answer.id = IdName(type) /\ cur \in Requests
  BY <1>1, ReadingAnswer
<1>3. /\ MegaQuiet /\ type = buf[1] /\ left = buf[2]
      /\ left > 0 => toHost[1] = buf[3]
  BY <1>1, PayloadEnds
<1>4. CASE InControl
  <2>1. type \notin {VALIDATION, DEVICE, RESTART}
    BY <1>1, <1>3, <1>4 DEF IInv, Reading
  <2>2. type = cur /\ cur \notin {REQUEST, TRANSMIT} /\ cur # VALIDATION /\ cur # DEVICE
    BY <1>2, <1>4, <2>1 DEF InControl
  <2>3. cur = DESCRIPTOR => left > 0 /\ toHost[1] = answer.console
    <3>1. cur = DESCRIPTOR => buf[2] = 1 /\ buf[3] = answer.console
      BY <1>1, <1>3, <2>2 DEF IInv, Answered
    <3> QED
      BY <1>3, <3>1
  <2>4. seen' = IF cur \in {DESCRIPTOR, DEVICE} THEN seen \cup {answer.console} ELSE seen
    BY <1>1, <2>2, <2>3
  <2>5. configured' = (configured \/ cur = DEVICE)
    <3>1. configured \in BOOLEAN
      BY DEF IInv, TypeOK
    <3> QED
      BY <1>1, <2>2, <3>1
  <2> QED
    BY <1>1, <1>2, <2>2, <2>4, <2>5, ControlEnds
<1>5. CASE ~InControl
  <2>1. cur \in {REQUEST, TRANSMIT} /\ cur # DESCRIPTOR
    BY <1>5 DEF InControl, REQUEST, TRANSMIT, DESCRIPTOR
  <2> QED
    BY <1>1, <1>2, <2>1, DataEnds
<1> QED
  BY <1>4, <1>5

\* The end of loop() is the bridge's answer.
LEMMA CompleteImplements ==
  ASSUME BufFits, IInv, Complete
  PROVE  Bridge!Next
<1>1. PICK b \in HandlerResults :
        LET id == IF should_reload_usb THEN RESTART ELSE b[1] IN
        answer' = [id |-> IF id \in Requests \cup {RESTART} THEN IdName(id) ELSE "unknown",
                   valid |-> handling = VALIDATION /\ b[3] # 0,
                   console |-> consoleType]
  BY DEF Complete
<1>2. /\ handling # 0 /\ handling' = 0 /\ should_reload_usb' = FALSE
      /\ UNCHANGED <<pc8, cur, configured, seen, toMega, idx, ready, consoleType>>
  BY DEF Complete, rest3, vars8
<1>3. pc8 = "parse" /\ cur \in Requests /\ ~ready /\ toMega = <<>> /\ idx = 0 /\ ~MegaQuiet
  BY <1>2 DEF IInv, TakeTurns, TypeOK, MegaQuiet, Inbound
<1>4. Phase = "requested" /\ Phase' = "answered" /\ Asked' = Asked
  <2>1. MegaQuiet'
    BY <1>2, <1>3 DEF MegaQuiet
  <2> QED
    BY <1>2, <1>3, <2>1 DEF Phase, Asked, IdName
<1>5. b[1] = cur
  BY <1>2, HandlerAnswers DEF AnswerTo
<1> DEFINE valid == handling = VALIDATION /\ b[3] # 0
<1>6. valid \in BOOLEAN
  OBVIOUS
<1>7. answer' = [id |-> IF should_reload_usb THEN Bridge!RESTART ELSE Asked,
                 valid |-> valid, console |-> consoleType]
  <2>1. CASE should_reload_usb
    BY <1>1, <2>1, IdNames
  <2>2. CASE ~should_reload_usb
    BY <1>1, <1>3, <1>5, <2>2 DEF Asked
  <2> QED
    BY <2>1, <2>2
<1> HIDE DEF valid
<1>8. Bridge!Answer(valid)
  BY <1>2, <1>4, <1>7 DEF Bridge!Answer
<1> QED
  BY <1>6, <1>8 DEF Bridge!Next

\* Steps of the host and of the 328p that the bridge makes too.
LEMMA BusResetImplements ==
  ASSUME IInv, BusReset
  PROVE  Bridge!Next
<1>1. /\ pc8 = "idle" \/ cur \in {REQUEST, TRANSMIT}
      /\ configured' = FALSE /\ seen' = {}
      /\ UNCHANGED <<pc8, cur, toMega, idx, ready, handling, answer, consoleType, should_reload_usb>>
  BY DEF BusReset, rxVars, detectVars
<1>2. cur \in {REQUEST, TRANSMIT} => Asked \in Bridge!DataIds
  BY NameKinds DEF Asked, IInv, TypeOK
<1>3. Phase = "idle" \/ Asked \in Bridge!DataIds
  BY <1>1, <1>2 DEF Phase
<1>4. Phase' = Phase /\ Asked' = Asked
  BY <1>1 DEF Phase, Asked, IdName, MegaQuiet
<1>5. Bridge!BusReset
  BY <1>1, <1>3, <1>4 DEF Bridge!BusReset
<1> QED
  BY <1>5 DEF Bridge!Next

LEMMA RebootImplements ==
  ASSUME Reboot
  PROVE  Bridge!Next
<1>1. Phase = "idle" /\ Phase' = "idle" /\ Asked' = Asked
  BY DEF Reboot, Phase, Asked, IdName
<1>2. Bridge!Reboot
  BY <1>1 DEF Reboot, Bridge!Reboot
<1> QED
  BY <1>2 DEF Bridge!Next

LEMMA DetectImplements ==
  ASSUME NEW c \in Consoles, Detect(c)
  PROVE  Bridge!Next
<1>1. /\ consoleType' = c /\ should_reload_usb' = TRUE
      /\ UNCHANGED <<pc8, cur, configured, seen, toMega, idx, ready, handling, answer>>
  BY DEF Detect, rest3, vars8, rxVars
<1>2. Phase' = Phase /\ Asked' = Asked
  BY <1>1 DEF Phase, Asked, IdName, MegaQuiet
<1>3. Bridge!Detect(c)
  BY <1>1, <1>2 DEF Bridge!Detect
<1> QED
  BY <1>3 DEF Bridge!Next

\* The steps in between.
LEMMA WiresImplement ==
  ASSUME QuietHost, BufFits, IInv,
         \/ Connect \/ Disconnect \/ ReadMagic \/ ReadType \/ ReadLength
         \/ Receive \/ Dispatch \/ Load \/ Shift \/ UNCHANGED vars
  PROVE  UNCHANGED Bridge!vars
<1>t. TypeOK
  BY DEF IInv
<1>1. ASSUME NEW up \in BOOLEAN, WriteReady(up) PROVE UNCHANGED Bridge!vars
  <2>1. UNCHANGED <<pc8, cur, configured, seen, consoleType, should_reload_usb, answer>>
        /\ pc8 = "idle"
    BY <1>1 DEF WriteReady, QuietHost, detectVars
  <2> QED
    BY <1>t, <2>1, InvisibleStep
<1>2. CASE Connect \/ Disconnect
  BY <1>1, <1>2 DEF Connect, Disconnect
<1>3. CASE ReadMagic \/ ReadType \/ ReadLength
  <2>1. UNCHANGED <<pc8, cur, configured, seen, consoleType, should_reload_usb, answer,
                    toMega, rxVars, handling>>
    BY <1>3 DEF ReadMagic, ReadType, ReadLength, rest8, detectVars
  <2>2. UNCHANGED MegaQuiet
    BY <2>1 DEF MegaQuiet, rxVars
  <2> QED
    BY <1>t, <2>1, <2>2, InvisibleStep
<1>4. CASE Receive
  <2>1. UNCHANGED <<pc8, cur, configured, seen, consoleType, should_reload_usb, answer>>
    BY <1>4 DEF Receive, rest3, vars8, detectVars
  <2>2. /\ ~ready /\ handling = 0 /\ Inbound
        /\ \/ ready' = TRUE
           \/ toMega' # <<>>
    BY <1>4, ReceiveByte
  <2>3. UNCHANGED MegaQuiet
    BY <2>2 DEF MegaQuiet, Inbound
  <2> QED
    BY <1>t, <2>1, <2>3, InvisibleStep
<1>5. CASE Dispatch
  <2>1. /\ ready /\ handling = 0
        /\ handling' = IF buf[1] \in Requests THEN buf[1] ELSE 0
        /\ UNCHANGED <<pc8, cur, configured, seen, consoleType, should_reload_usb, answer>>
    BY <1>5 DEF Dispatch, rest3, vars8
  <2>2. ~MegaQuiet
    BY <2>1 DEF MegaQuiet
  <2>3. ASSUME pc8 = "parse" PROVE ~MegaQuiet'
    <3>1. buf[1] = cur /\ cur \in Requests
      BY <1>t, <2>1, <2>2, <2>3 DEF IInv, Carried, Byte, TypeOK
    <3>2. cur # 0
      BY <3>1, IdsAreBytes
    <3> QED
      BY <2>1, <3>1, <3>2 DEF MegaQuiet
  <2>4. pc8 = "parse" => UNCHANGED MegaQuiet
    BY <2>1, <2>3 DEF MegaQuiet
  <2> QED
    BY <1>t, <2>1, <2>4, InvisibleStep
<1>6. CASE Load \/ Shift
  <2>1. UNCHANGED <<pc8, cur, configured, seen, consoleType, should_reload_usb, answer,
                    toMega, rxVars, handling>>
    BY <1>6 DEF Load, Shift, rest3, vars8, detectVars
  <2>2. UNCHANGED MegaQuiet
    BY <2>1 DEF MegaQuiet, rxVars
  <2> QED
    BY <1>t, <2>1, <2>2, InvisibleStep
<1>7. CASE UNCHANGED vars
  <2>1. UNCHANGED <<pc8, cur, configured, seen, consoleType, should_reload_usb, answer,
                    toMega, rxVars, handling>>
    BY <1>7 DEF vars, vars8, detectVars
  <2>2. UNCHANGED MegaQuiet
    BY <2>1 DEF MegaQuiet, rxVars
  <2> QED
    BY <1>t, <2>1, <2>2, InvisibleStep
<1> QED
  BY <1>2, <1>3, <1>4, <1>5, <1>6, <1>7

LEMMA StepImplements ==
  ASSUME QuietHost, BufFits, IInv, [Next]_vars
  PROVE  [Bridge!Next]_Bridge!vars
<1>1. CASE \/ RequestReport \/ \E d \in DataBytes : TransmitReport(d)
           \/ GetDescriptor \/ ConfigurationChanged
           \/ \E dir \in {H2D, D2H}, w \in {0, 1} : ControlRequest(dir, w)
  BY <1>1, RequestsImplement DEF IInv
<1>2. CASE \/ Connect \/ Disconnect \/ ReadMagic \/ ReadType \/ ReadLength
           \/ Receive \/ Dispatch \/ Load \/ Shift \/ UNCHANGED vars
  BY <1>2, WiresImplement
<1>3. CASE BusReset
  BY <1>3, BusResetImplements
<1>4. CASE Reboot
  BY <1>4, RebootImplements
<1>5. CASE ReadLengthDone \/ ReadLengthRestart \/ ReadAnswer \/ ReadPayload
  BY <1>5, ReadLengthDoneImplements, ReadLengthRestartImplements, ReadAnswerImplements,
     ReadPayloadImplements
<1>6. CASE Complete
  BY <1>6, CompleteImplements
<1>7. CASE \E c \in Consoles : Detect(c)
  BY <1>7, DetectImplements
<1> QED
  BY <1>1, <1>2, <1>3, <1>4, <1>5, <1>6, <1>7 DEF Next, Reader

\* Byte by byte, with both interrupts and loop() on one buffer, the link does what the
\* bridge promises packet by packet.
THEOREM LinkIsBridge == QuietHost /\ BufFits => (Spec => BridgeSpec)
<1> SUFFICES ASSUME QuietHost, BufFits PROVE Spec => BridgeSpec
  OBVIOUS
<1>1. Init => Bridge!Init
  <2> SUFFICES ASSUME Init PROVE Bridge!Init
    OBVIOUS
  <2>1. Phase = "idle" /\ Asked = "DESCRIPTOR_ID"
    BY IdNames DEF Init, Phase, Asked
  <2> QED
    BY <2>1 DEF Init, Bridge!Init
<1>2. IInv /\ [Next]_vars => [Bridge!Next]_Bridge!vars
  BY StepImplements
<1>3. Spec => []IInv
  BY Invariant
<1> QED
  BY <1>1, <1>2, <1>3, PTL DEF Spec, BridgeSpec, Bridge!Spec

-----------------------------------------------------------------------------
(* What is proved of the bridge holds of the link. *)

Proved == INSTANCE UnoBridge_proofs WITH phase <- Phase, req <- Asked, reply <- answer

\* Both instances are of one specification.
LEMMA SameStep == [Bridge!Next]_Bridge!vars => [Proved!Next]_Proved!vars
<1>1. /\ Bridge!ControlIds = Proved!ControlIds /\ Bridge!DataIds = Proved!DataIds
      /\ Bridge!IdentityIds = Proved!IdentityIds /\ Bridge!RESTART = Proved!RESTART
  BY DEF Bridge!ControlIds, Proved!ControlIds, Bridge!DataIds, Proved!DataIds,
         Bridge!IdentityIds, Proved!IdentityIds, Bridge!RESTART, Proved!RESTART
<1>2. ASSUME NEW id \in Bridge!ControlIds \cup Bridge!DataIds, Bridge!Send(id)
      PROVE  Proved!Next
  BY <1>1, <1>2 DEF Bridge!Send, Proved!Send, Proved!Next
<1>3. ASSUME Bridge!ReceiveControl PROVE Proved!Next
  BY <1>1, <1>3 DEF Bridge!ReceiveControl, Proved!ReceiveControl,
     Bridge!RestartUsb, Proved!RestartUsb, Proved!Next
<1>4. ASSUME Bridge!ReceiveData PROVE Proved!Next
  BY <1>1, <1>4 DEF Bridge!ReceiveData, Proved!ReceiveData, Proved!Next
<1>5. ASSUME Bridge!BusReset PROVE Proved!Next
  BY <1>1, <1>5 DEF Bridge!BusReset, Proved!BusReset, Proved!Next
<1>6. ASSUME Bridge!Reboot PROVE Proved!Next
  BY <1>6 DEF Bridge!Reboot, Proved!Reboot, Proved!Next
<1>7. ASSUME NEW c \in Consoles, Bridge!Detect(c) PROVE Proved!Next
  BY <1>7 DEF Bridge!Detect, Proved!Detect, Proved!Next
<1>8. ASSUME NEW valid \in BOOLEAN, Bridge!Answer(valid) PROVE Proved!Next
  BY <1>1, <1>8 DEF Bridge!Answer, Proved!Answer, Proved!Next
<1>9. Bridge!Next => Proved!Next
  BY <1>2, <1>3, <1>4, <1>5, <1>6, <1>7, <1>8 DEF Bridge!Next
<1>10. UNCHANGED Bridge!vars => UNCHANGED Proved!vars
  BY DEF Bridge!vars, Proved!vars
<1> QED
  BY <1>9, <1>10

LEMMA LinkIsProvedBridge ==
  ASSUME QuietHost, BufFits
  PROVE  Spec => Proved!Spec
<1>1. Bridge!Init => Proved!Init
  BY DEF Bridge!Init, Proved!Init
<1>2. Bridge!Spec => Proved!Spec
  BY <1>1, SameStep, PTL DEF Bridge!Spec, Proved!Spec
<1>3. Spec => Bridge!Spec
  BY LinkIsBridge DEF BridgeSpec
<1> QED
  BY <1>2, <1>3

\* The bridge's promise, of the bytes: whatever the wires, the shared buffer and the
\* interrupts do in between, until the endpoints are configured the host has been shown
\* the console in force or a RESTART is on its way, so no detection is forgotten.
THEOREM LinkDetectsSoundly == QuietHost /\ BufFits => (Spec => []Bridge!DetectionSound)
<1> SUFFICES ASSUME QuietHost, BufFits PROVE Spec => []Bridge!DetectionSound
  OBVIOUS
<1>1. Proved!ConsolesAssumption
  BY LinkAssumption DEF Proved!ConsolesAssumption
<1>2. Proved!Spec => []Proved!DetectionSound
  BY <1>1, Proved!DetectionIsSound
<1>3. Proved!DetectionSound => Bridge!DetectionSound
  BY DEF Proved!DetectionSound, Bridge!DetectionSound,
         Proved!RestartPending, Bridge!RestartPending, Proved!RESTART, Bridge!RESTART
<1> QED
  BY <1>2, <1>3, LinkIsProvedBridge, PTL

\* ... and the descriptors the host reads, with the layout the 8u2 takes from DEVICE_ID,
\* are of one console in one enumeration, however detection races their bytes.
THEOREM LinkShowsOneIdentity == QuietHost /\ BufFits => (Spec => Bridge!OneIdentity)
<1> SUFFICES ASSUME QuietHost, BufFits PROVE Spec => Bridge!OneIdentity
  OBVIOUS
<1>1. Proved!ConsolesAssumption
  BY LinkAssumption DEF Proved!ConsolesAssumption
<1>2. Proved!Spec => Proved!OneIdentity
  BY <1>1, Proved!IdentityIsOne
<1>3. Proved!OneIdentity => Bridge!OneIdentity
  BY DEF Proved!OneIdentity, Bridge!OneIdentity, Proved!vars, Bridge!vars
<1> QED
  BY <1>2, <1>3, LinkIsProvedBridge, PTL

=============================================================================
