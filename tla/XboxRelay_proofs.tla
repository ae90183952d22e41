--------------------------- MODULE XboxRelay_proofs ---------------------------
(***************************************************************************)
(* The handshake and the relay of an Xbox One's authentication, and the    *)
(* table of the devices in the host port, for every number of addresses,   *)
(* devices, reports and resets, whatever kinds of controller are plugged   *)
(* in.                                                                     *)
(*                                                                         *)
(* HandshakeInOrder is inductive once the number of packets shown is tied  *)
(* to the state (AtStep).  RelayInOrder needs that no number that is kept, *)
(* has been passed on or was reached at the last reset is above the        *)
(* counter it came from (Numbered).  Neither looks at what the host's      *)
(* table says.                                                             *)
(*                                                                         *)
(* KnownDevices is inductive with two facts: the entries are in the order  *)
(* of their addresses, with every address below the last one in use        *)
(* (TrueTable), which bounds the table and keeps an index from being the   *)
(* address of its own entry; and while a device is plugged in at address 1 *)
(* the count of interfaces is not zero (HostShape), or unplugging it would *)
(* leave the table as it was.                                              *)
(***************************************************************************)
EXTENDS XboxRelay, FiniteSetTheorems, TLAPS

\* How many packets of the handshake the console has been sent in each state.
Step ==
  [s \in States |->
     CASE s = "Announce" -> 0
       [] s \in {"Waiting1", "Ident1"} -> 1
       [] s \in {"Waiting2", "Ident2"} -> 2
       [] s = "Ident3" -> 3
       [] s = "Ident4" -> 4
       [] s \in {"Waiting5", "Ident5"} -> 5
       [] OTHER -> 6]

Names == {"announce", "identify_1", "identify_2", "identify_3", "identify_4", "identify_5"}

AtStep ==
  /\ xbox_one_state \in States
  /\ Len(shown) = Step[xbox_one_state]
  /\ shown \in Seq(Names)
  /\ \A i \in 1..Len(shown) : shown[i] = Handshake[i]
  /\ consoleSize \/ controllerSize => xbox_one_state \in {"Auth", "Ready"}

\* One direction of the relay: count numbers have been given, before of them
\* when the device was last reset; kept is the number in the buffer, full whether
\* it waits, out what was passed on since the reset.
Ordered(before, count, kept, full, out) ==
  /\ count \in Nat /\ before \in 0..count /\ kept \in 0..count /\ out \in Seq(Nat)
  /\ Increasing(out)
  /\ \A i \in 1..Len(out) : out[i] <= count /\ out[i] > before
  /\ full => kept > before /\ \A i \in 1..Len(out) : out[i] < kept

Numbered ==
  /\ Ordered(consoleBefore, nConsole, fromConsole, consoleSize, delivered)
  /\ Ordered(controllerBefore, nController, fromController, controllerSize, relayed)

-----------------------------------------------------------------------------
(* The handshake.                                                          *)

LEMMA StepMeans ==
  /\ Step["Announce"] = 0 /\ Step["Waiting1"] = 1 /\ Step["Ident1"] = 1
  /\ Step["Waiting2"] = 2 /\ Step["Ident2"] = 2 /\ Step["Ident3"] = 3
  /\ Step["Ident4"] = 4 /\ Step["Waiting5"] = 5 /\ Step["Ident5"] = 5
  /\ Step["Auth"] = 6 /\ Step["Ready"] = 6
BY DEF Step, States

LEMMA HandshakeMeans ==
  /\ Len(Handshake) = 6
  /\ Handshake[1] = "announce" /\ Handshake[2] = "identify_1"
  /\ Handshake[3] = "identify_2" /\ Handshake[4] = "identify_3"
  /\ Handshake[5] = "identify_4" /\ Handshake[6] = "identify_5"
BY DEF Handshake

\* A packet that is due is the next of the handshake, and the state it leads
\* to has one packet more.
LEMMA DueIsNext ==
  ASSUME NEW s \in {"Announce", "Ident1", "Ident2", "Ident3", "Ident4", "Ident5"}
  PROVE  /\ Due(s)[2] \in States
         /\ Step[Due(s)[2]] = Step[s] + 1
         /\ Step[s] \in 0..5
         /\ Due(s)[1] \in Names /\ Due(s)[1] = Handshake[Step[s] + 1]
<1>1. CASE s = "Announce"
  <2>1. Due(s)[1] = "announce" /\ Due(s)[2] = "Waiting1"
    BY <1>1 DEF Due
  <2> QED
    BY <1>1, <2>1, StepMeans, HandshakeMeans DEF States, Names
<1>2. CASE s = "Ident1"
  <2>1. Due(s)[1] = "identify_1" /\ Due(s)[2] = "Waiting2"
    BY <1>2 DEF Due
  <2> QED
    BY <1>2, <2>1, StepMeans, HandshakeMeans DEF States, Names
<1>3. CASE s = "Ident2"
  <2>1. Due(s)[1] = "identify_2" /\ Due(s)[2] = "Ident3"
    BY <1>3 DEF Due
  <2> QED
    BY <1>3, <2>1, StepMeans, HandshakeMeans DEF States, Names
<1>4. CASE s = "Ident3"
  <2>1. Due(s)[1] = "identify_3" /\ Due(s)[2] = "Ident4"
    BY <1>4 DEF Due
  <2> QED
    BY <1>4, <2>1, StepMeans, HandshakeMeans DEF States, Names
<1>5. CASE s = "Ident4"
  <2>1. Due(s)[1] = "identify_4" /\ Due(s)[2] = "Waiting5"
    BY <1>5 DEF Due
  <2> QED
    BY <1>5, <2>1, StepMeans, HandshakeMeans DEF States, Names
<1>6. CASE s = "Ident5"
  <2>1. Due(s)[1] = "identify_5" /\ Due(s)[2] = "Auth"
    BY <1>6 DEF Due
  <2> QED
    BY <1>6, <2>1, StepMeans, HandshakeMeans DEF States, Names
<1> QED
  BY <1>1, <1>2, <1>3, <1>4, <1>5, <1>6

\* Steps that are not of the handshake.
LEMMA HostSteps ==
  ASSUME \/ BusReset \/ Polled \/ ConsoleRumbles \/ ConsoleLeds \/ ConsoleRequest
         \/ Request83
         \/ \E a \in Addrs, k \in Kinds : Connect(a, k)
         \/ \E a \in Addrs : Disconnect(a) \/ Drain(a)
         \/ UNCHANGED vars
  PROVE  UNCHANGED <<consoleType, xbox_one_state, fromConsole, consoleSize, fromController,
                     controllerSize, nConsole, nController, consoleBefore, controllerBefore,
                     shown, relayed, delivered>>
BY DEF BusReset, Polled, ConsoleRumbles, ConsoleLeds, ConsoleRequest, Request83, Connect,
       Disconnect, Drain, vars, relayVars, marks

LEMMA InductiveHandshake == Spec => []AtStep
<1>1. Init => AtStep
  BY StepMeans DEF Init, AtStep, States
<1>2. AtStep /\ [Next]_vars => AtStep'
  <2> SUFFICES ASSUME AtStep, [Next]_vars PROVE AtStep'
    OBVIOUS
  <2>1. CASE \/ BusReset \/ Polled \/ ConsoleRumbles \/ ConsoleLeds \/ ConsoleRequest
             \/ Request83
             \/ \E a \in Addrs, k \in Kinds : Connect(a, k)
             \/ \E a \in Addrs : Disconnect(a) \/ Drain(a)
             \/ UNCHANGED vars
    BY <2>1, HostSteps DEF AtStep
  <2>2. CASE Configure
    BY <2>2, StepMeans DEF Configure, AtStep, States
  <2>3. CASE ConsoleAnswers
    <3>1. /\ xbox_one_state' \in States
          /\ Step[xbox_one_state'] = Step[xbox_one_state]
      BY <2>3, StepMeans DEF ConsoleAnswers, Advance, States
    <3>2. ~ consoleSize' /\ ~ controllerSize'
      BY <2>3 DEF ConsoleAnswers, AtStep
    <3> QED
      BY <2>3, <3>1, <3>2 DEF ConsoleAnswers, AtStep
  <2>4. CASE ConsoleAuth
    BY <2>4, StepMeans DEF ConsoleAuth, AtStep, States
  <2>5. ASSUME NEW a \in Addrs, NEW input \in BOOLEAN, ControllerReport(a, input)
        PROVE  AtStep'
    BY <2>5 DEF ControllerReport, AtStep
  <2>6. CASE Tick
    <3>1. CASE HandshakeDue
      <4>1. /\ shown' = Append(shown, Due(xbox_one_state)[1])
            /\ xbox_one_state' = Due(xbox_one_state)[2]
            /\ consoleSize' = FALSE /\ controllerSize' = controllerSize
        BY <2>6, <3>1 DEF Tick, ToController
      <4>2. xbox_one_state \in {"Announce", "Ident1", "Ident2", "Ident3", "Ident4", "Ident5"}
        BY <3>1 DEF HandshakeDue
      <4>3. ~ controllerSize
        BY <4>2 DEF AtStep
      <4>4. /\ shown' \in Seq(Names) /\ Len(shown') = Len(shown) + 1
            /\ \A i \in 1..Len(shown) : shown'[i] = shown[i]
            /\ shown'[Len(shown) + 1] = Handshake[Len(shown) + 1]
        BY <4>1, <4>2, DueIsNext DEF AtStep
      <4>5. \A i \in 1..Len(shown') : shown'[i] = Handshake[i]
        <5>1. Len(shown) \in Nat
          BY DEF AtStep
        <5> QED
          BY <4>4, <5>1 DEF AtStep
      <4>6. /\ xbox_one_state' \in States
            /\ Len(shown') = Step[xbox_one_state']
        BY <4>1, <4>2, <4>4, DueIsNext DEF AtStep
      <4> QED
        BY <4>1, <4>3, <4>4, <4>5, <4>6 DEF AtStep
    <3>2. CASE ~ HandshakeDue
      BY <2>6, <3>2 DEF Tick, ToController, AtStep
    <3> QED
      BY <3>1, <3>2
  <2> QED
    BY <2>1, <2>2, <2>3, <2>4, <2>5, <2>6 DEF Next
<1> QED
  BY <1>1, <1>2, PTL DEF Spec

\* The console is sent the packets of the handshake in order and each once,
\* and the authentication is relayed only after all of them.
THEOREM HandshakeIsInOrder == Spec => []HandshakeInOrder
<1>1. AtStep => HandshakeInOrder
  <2> SUFFICES ASSUME AtStep PROVE HandshakeInOrder
    OBVIOUS
  <2>1. Step[xbox_one_state] \in 0..6
    BY DEF AtStep, Step, States
  <2>2. Len(shown) <= Len(Handshake)
    BY <2>1, HandshakeMeans DEF AtStep
  <2>3. Handshake \in Seq(Names)
    BY DEF Handshake, Names
  <2>4. shown = SubSeq(Handshake, 1, Len(shown))
    <3>1. Len(shown) \in 0..6 /\ shown \in Seq(Names)
      BY <2>1 DEF AtStep
    <3>2. \A n \in 0..6 : SubSeq(Handshake, 1, n) = [i \in 1..n |-> Handshake[i]]
      BY <2>3, HandshakeMeans
    <3>3. shown = [i \in 1..Len(shown) |-> shown[i]]
      BY <3>1
    <3>4. [i \in 1..Len(shown) |-> shown[i]] = [i \in 1..Len(shown) |-> Handshake[i]]
      BY DEF AtStep
    <3> QED
      BY <3>1, <3>2, <3>3, <3>4
  <2>5. xbox_one_state \in {"Auth", "Ready"} => shown = Handshake
    <3> SUFFICES ASSUME xbox_one_state \in {"Auth", "Ready"} PROVE shown = Handshake
      OBVIOUS
    <3>1. Len(shown) = 6
      BY StepMeans DEF AtStep
    <3> QED
      BY <3>1, <2>3, HandshakeMeans DEF AtStep
  <2> QED
    BY <2>2, <2>4, <2>5 DEF HandshakeInOrder, AtStep
<1> QED
  BY <1>1, InductiveHandshake, PTL

-----------------------------------------------------------------------------
(* The relay.                                                              *)

\* A report is kept: it has the next number, above every one passed on.
LEMMA KeptInOrder ==
  ASSUME NEW before, NEW count, NEW kept, NEW full, NEW out,
         Ordered(before, count, kept, full, out)
  PROVE  Ordered(before, count + 1, count + 1, TRUE, out)
BY DEF Ordered

\* The report that waits is passed on, and waits no longer.
LEMMA PassedInOrder ==
  ASSUME NEW before, NEW count, NEW kept, NEW out, Ordered(before, count, kept, TRUE, out)
  PROVE  Ordered(before, count, kept, FALSE, Append(out, kept))
<1>1. /\ out \in Seq(Nat) /\ kept \in Nat /\ kept <= count /\ count \in Nat
      /\ Len(out) \in Nat
      /\ \A i \in 1..Len(out) : out[i] \in Nat /\ out[i] < kept
      /\ before \in 0..count /\ kept > before
  BY DEF Ordered
<1> DEFINE t == Append(out, kept)
<1>2. /\ t \in Seq(Nat) /\ Len(t) = Len(out) + 1
      /\ t[Len(out) + 1] = kept
      /\ \A i \in 1..Len(out) : t[i] = out[i]
  BY <1>1
<1> HIDE DEF t
<1>3. Increasing(t)
  <2> SUFFICES ASSUME NEW i \in 1..Len(t), NEW j \in 1..Len(t), i < j
               PROVE  t[i] < t[j]
    BY DEF Increasing
  <2>1. CASE j = Len(out) + 1
    <3> DEFINE n == Len(out)
    <3> HIDE DEF n
    <3>1. n \in Nat /\ i \in 1..n + 1 /\ j = n + 1
      BY <1>1, <1>2, <2>1 DEF n
    <3>2. i \in 1..n
      BY <3>1
    <3>3. out[i] < kept
      BY <1>1, <3>2 DEF n
    <3>4. t[i] = out[i] /\ t[j] = kept
      BY <1>2, <2>1, <3>2 DEF n
    <3> QED
      BY <3>3, <3>4
  <2>2. CASE j # Len(out) + 1
    <3>1. i \in 1..Len(out) /\ j \in 1..Len(out)
      <4> DEFINE n == Len(out)
      <4> HIDE DEF n
      <4>1. n \in Nat /\ i \in 1..n + 1 /\ j \in 1..n + 1 /\ j # n + 1
        BY <1>1, <1>2, <2>2 DEF n
      <4>2. i \in 1..n /\ j \in 1..n
        BY <4>1
      <4> QED
        BY <4>2 DEF n
    <3>2. out[i] < out[j]
      BY <3>1 DEF Ordered, Increasing
    <3> QED
      BY <1>2, <3>1, <3>2
  <2> QED
    BY <2>1, <2>2
<1>4. \A i \in 1..Len(t) : t[i] <= count /\ t[i] > before
  <2> SUFFICES ASSUME NEW i \in 1..Len(t) PROVE t[i] <= count /\ t[i] > before
    OBVIOUS
  <2>1. CASE i = Len(out) + 1
    BY <1>1, <1>2, <2>1
  <2>2. CASE i # Len(out) + 1
    <3>1. i \in 1..Len(out)
      BY <1>1, <1>2, <2>2
    <3>2. out[i] <= count /\ out[i] > before
      BY <3>1 DEF Ordered
    <3> QED
      BY <1>2, <3>1, <3>2
  <2> QED
    BY <2>1, <2>2
<1>5. Ordered(before, count, kept, FALSE, t)
  BY <1>1, <1>2, <1>3, <1>4 DEF Ordered
<1> QED
  BY <1>5 DEF t

\* The report that waits is dropped.
LEMMA DroppedInOrder ==
  ASSUME NEW before, NEW count, NEW kept, NEW full, NEW out,
         Ordered(before, count, kept, full, out)
  PROVE  Ordered(before, count, kept, FALSE, out)
BY DEF Ordered

\* The device is reset: nothing waits, and nothing has been passed on since.
LEMMA ResetInOrder ==
  ASSUME NEW before, NEW count, NEW kept, NEW full, NEW out,
         Ordered(before, count, kept, full, out)
  PROVE  Ordered(count, count, kept, FALSE, <<>>)
BY DEF Ordered, Increasing

LEMMA InductiveRelay == Spec => []Numbered
<1>1. Init => Numbered
  BY DEF Init, Numbered, Ordered, Increasing
<1>2. Numbered /\ [Next]_vars => Numbered'
  <2> SUFFICES ASSUME Numbered, [Next]_vars PROVE Numbered'
    OBVIOUS
  <2> USE DEF Numbered
  <2>1. CASE \/ BusReset \/ Polled \/ ConsoleRumbles \/ ConsoleLeds \/ ConsoleRequest
             \/ Request83
             \/ \E a \in Addrs, k \in Kinds : Connect(a, k)
             \/ \E a \in Addrs : Disconnect(a) \/ Drain(a)
             \/ UNCHANGED vars
    BY <2>1, HostSteps
  <2>2. CASE Configure
    BY <2>2, ResetInOrder DEF Configure
  <2>3. CASE ConsoleAnswers
    BY <2>3 DEF ConsoleAnswers, marks
  <2>4. CASE ConsoleAuth
    BY <2>4, KeptInOrder DEF ConsoleAuth, marks
  <2>5. ASSUME NEW a \in Addrs, NEW input \in BOOLEAN, ControllerReport(a, input)
        PROVE  Numbered'
    BY <2>5, KeptInOrder DEF ControllerReport, marks
  <2>6. CASE Tick
    <3>1. Ordered(consoleBefore, nConsole, fromConsole, consoleSize, delivered)'
      <4>1. CASE consoleSize /\ Accepts(xone)
        BY <2>6, <4>1, PassedInOrder DEF Tick, ToController, marks
      <4>2. CASE ~ (consoleSize /\ Accepts(xone))
        BY <2>6, <4>2, DroppedInOrder DEF Tick, ToController, marks
      <4> QED
        BY <4>1, <4>2
    <3>2. Ordered(controllerBefore, nController, fromController, controllerSize, relayed)'
      <4>1. CASE ~ HandshakeDue /\ RelayDue
        BY <2>6, <4>1, PassedInOrder DEF Tick, RelayDue, marks
      <4>2. CASE HandshakeDue \/ ~ RelayDue
        BY <2>6, <4>2 DEF Tick, marks
      <4> QED
        BY <4>1, <4>2
    <3> QED
      BY <3>1, <3>2
  <2> QED
    BY <2>1, <2>2, <2>3, <2>4, <2>5, <2>6 DEF Next
<1> QED
  BY <1>1, <1>2, PTL DEF Spec

\* Nothing is relayed twice or late in either direction, and nothing that was kept
\* before the console reset the device is relayed after it.
THEOREM RelayIsInOrder == Spec => []RelayInOrder
<1>1. Numbered => RelayInOrder
  BY DEF Numbered, Ordered, RelayInOrder
<1> QED
  BY <1>1, InductiveRelay, PTL

-----------------------------------------------------------------------------
(* The table of devices.                                                   *)

\* The state of the host port, with the count of interfaces that decides whether
\* the table is told of a device that has gone.
HostShape ==
  /\ HostTypeOK
  /\ slots = [a \in Addrs |-> IF bus[a] = "none" THEN <<>> ELSE Interfaces(bus[a])]
  /\ inst_count <= 3 * plugs
  /\ bus[1] # "none" => inst_count > 0

\* An entry's address is not below its position, and every address below it is in use.
InPlace(addr, i, plugged) ==
  /\ i <= addr
  /\ \A b \in Addrs : b < addr => plugged[b] # "none"

\* What the table says, with the fact that the entries are in the order of the
\* addresses, the lowest free one of which is given to the next device.
TrueTable ==
  /\ KnownDevices
  /\ lost \subseteq {1} => \A i \in 1..total : InPlace(devices[i].addr, i, bus)

\* The interfaces of each kind of device, and the entry they leave: one of the
\* device's own type, except for the kind the device knows nothing of.
LEMMA InterfacesMeans ==
  ASSUME NEW k \in Kinds
  PROVE  /\ k \in {"x360", "xone", "ps4", "ps3", "hid"}
         /\ Len(Interfaces(k)) \in 1..3
         /\ Entered(k) = IF k = "hid" THEN {} ELSE {1}
         /\ k # "hid" => EntryType(k, Interfaces(k)[1]) = k
<1>1. k \in {"x360", "xone", "ps4", "ps3", "hid"}
  BY HostAssumption
<1>2. CASE k = "x360"
  <2>1. Interfaces(k) = <<Itf("x360", TRUE, TRUE), Itf("x360", TRUE, FALSE),
                          Itf("x360", FALSE, FALSE)>>
    BY <1>2 DEF Interfaces
  <2>2. /\ Len(Interfaces(k)) = 3
        /\ Interfaces(k)[1] = Itf("x360", TRUE, TRUE)
        /\ Interfaces(k)[2] = Itf("x360", TRUE, FALSE)
        /\ Interfaces(k)[3] = Itf("x360", FALSE, FALSE)
    BY <2>1
  <2>3. /\ EntryType(k, Interfaces(k)[1]) = "x360"
        /\ EntryType(k, Interfaces(k)[2]) = "none"
        /\ EntryType(k, Interfaces(k)[3]) = "none"
    BY <2>2 DEF EntryType, Itf
  <2> QED
    BY <1>1, <1>2, <2>2, <2>3 DEF Entered
<1>3. CASE k \in {"xone", "ps4", "ps3", "hid"}
  <2>1. Interfaces(k) = <<Itf(IF k \in {"xone", "ps4"} THEN k ELSE "unknown", TRUE, FALSE)>>
    BY <1>3 DEF Interfaces
  <2>2. /\ Len(Interfaces(k)) = 1
        /\ Interfaces(k)[1] = Itf(IF k \in {"xone", "ps4"} THEN k ELSE "unknown", TRUE, FALSE)
    BY <2>1
  <2>3. EntryType(k, Interfaces(k)[1]) = IF k = "hid" THEN "none" ELSE k
    BY <1>3, <2>2 DEF EntryType, Itf, TypeByIds
  <2>4. 1..Len(Interfaces(k)) = {1}
    BY <2>2
  <2>5. Entered(k) = {j \in {1} : EntryType(k, Interfaces(k)[j]) # "none"}
    BY <2>4 DEF Entered
  <2>6. Entered(k) = IF k = "hid" THEN {} ELSE {1}
    BY <1>3, <2>3, <2>5
  <2>7. Len(Interfaces(k)) \in 1..3
    BY <2>2
  <2> QED
    BY <1>1, <1>3, <2>3, <2>6, <2>7
<1> QED
  BY <1>1, <1>2, <1>3

LEMMA EntriesMeans ==
  ASSUME NEW k \in Kinds
  PROVE  /\ Len(Entries(k)) = IF k = "hid" THEN 0 ELSE 1
         /\ k # "hid" => EntryType(k, Entries(k)[1]) = k
<1>1. CASE k = "hid"
  <2>1. Cardinality(Entered(k)) = 0
    BY <1>1, InterfacesMeans, FS_EmptySet
  <2> QED
    BY <1>1, <2>1 DEF Entries
<1>2. CASE k # "hid"
  <2>1. Entered(k) = {1}
    BY <1>2, InterfacesMeans
  <2>2. Cardinality({1}) = 1
    BY FS_Singleton
  <2>3. {h \in {1} : h <= 1} = {1}
    OBVIOUS
  <2>4. (CHOOSE j \in {1} : Cardinality({h \in {1} : h <= j}) = 1) = 1
    BY <2>2, <2>3
  <2>5. Entries(k) = [n \in 1..1 |->
          Interfaces(k)[CHOOSE j \in {1} : Cardinality({h \in {1} : h <= j}) = n]]
    BY <2>1, <2>2 DEF Entries
  <2>6. Entries(k)[1]
          = Interfaces(k)[CHOOSE j \in {1} : Cardinality({h \in {1} : h <= j}) = 1]
    <3>1. 1 \in 1..1
      OBVIOUS
    <3> QED
      BY <2>5, <3>1, Zenon
  <2>7. Len(Entries(k)) = 1
    BY <2>5
  <2> QED
    BY <1>2, <2>4, <2>6, <2>7, InterfacesMeans
<1> QED
  BY <1>1, <1>2

\* An entry of the table.
Entry == [addr : Addrs, type : Kinds, own : BOOLEAN]

\* The positions of the table, and what is in them.
LEMMA TableMeans ==
  ASSUME HostShape
  PROVE  /\ devices \in Seq(Entry) /\ total \in Nat
         /\ \A i \in 1..total : /\ devices[i].addr \in Addrs
                               /\ devices[i].addr \in 1..DeviceMax
                               /\ devices[i].type \in Kinds /\ devices[i].type # "none"
<1>1. devices \in Seq(Entry)
  BY DEF HostShape, HostTypeOK, Entry
<1>2. total \in Nat /\ \A i \in 1..total : devices[i] \in Entry
  BY <1>1 DEF total
<1> QED
  BY <1>1, <1>2, HostAssumption DEF Entry

LEMMA HostInitShape == HostInit => HostShape /\ TrueTable
<1> SUFFICES ASSUME HostInit PROVE HostShape /\ TrueTable
  OBVIOUS
<1>1. HostTypeOK
  BY HostAssumption DEF HostInit, HostTypeOK
<1>2. HostShape
  BY <1>1, HostAssumption DEF HostInit, HostShape
<1>3. total = 0
  BY DEF HostInit, total
<1>4. TrueTable
  BY <1>3, HostAssumption DEF HostInit, TrueTable, KnownDevices, Expected
<1> QED
  BY <1>2, <1>4

-----------------------------------------------------------------------------
(* A device is plugged in.                                                 *)

\* The table after it: what it was, and one entry for a device with a type.
LEMMA PlugMeans ==
  ASSUME HostShape, NEW a \in Addrs, NEW k \in Kinds, Plug(a, k)
  PROVE  /\ k = "hid" => devices' = devices
         /\ k # "hid" => devices' = Append(devices, [addr |-> a, type |-> k, own |-> FALSE])
<1> DEFINE new == [n \in 1..Len(Entries(k)) |->
                    [addr |-> a, type |-> EntryType(k, Entries(k)[n]), own |-> FALSE]]
<1>1. devices' = devices \o new
  BY DEF Plug
<1>2. devices \in Seq(Entry)
  BY TableMeans
<1>3. CASE k = "hid"
  <2>1. Len(Entries(k)) = 0
    BY <1>3, EntriesMeans
  <2>2. new = <<>>
    BY <2>1
  <2> HIDE DEF new
  <2> QED
    BY <1>1, <1>2, <1>3, <2>2
<1>4. CASE k # "hid"
  <2> DEFINE e == [addr |-> a, type |-> k, own |-> FALSE]
  <2>1. Len(Entries(k)) = 1 /\ EntryType(k, Entries(k)[1]) = k
    BY <1>4, EntriesMeans
  <2>2. new = <<e>>
    <3>1. new = [n \in 1..1 |-> [addr |-> a, type |-> EntryType(k, Entries(k)[n]),
                                 own |-> FALSE]]
      BY <2>1
    <3>2. \A n \in 1..1 : EntryType(k, Entries(k)[n]) = k
      BY <2>1
    <3>3. new = [n \in 1..1 |-> e]
      BY <3>1, <3>2
    <3> HIDE DEF new, e
    <3> QED
      BY <3>3
  <2>3. e \in Entry
    BY DEF Entry
  <2> HIDE DEF new, e
  <2>4. devices \o <<e>> = Append(devices, e)
    BY <1>2, <2>3
  <2>5. devices' = Append(devices, e)
    BY <1>1, <2>2, <2>4
  <2> QED
    BY <1>4, <2>5 DEF e
<1> QED
  BY <1>3, <1>4

LEMMA PlugShape ==
  ASSUME HostShape, NEW a \in Addrs, NEW k \in Kinds, Plug(a, k)
  PROVE  HostShape'
<1>1. devices \in Seq(Entry)
  BY TableMeans
<1>2. Len(Interfaces(k)) \in 1..3
  BY InterfacesMeans
<1>3. k # "none"
  BY HostAssumption
<1>4. HostTypeOK
  BY DEF HostShape
<1>5. /\ bus' = [bus EXCEPT ![a] = k] /\ bus' \in [Addrs -> Kinds \cup {"none"}]
      /\ slots' = [b \in Addrs |-> IF bus'[b] = "none" THEN <<>> ELSE Interfaces(bus'[b])]
  <2>1. bus' = [bus EXCEPT ![a] = k] /\ slots' = [slots EXCEPT ![a] = Interfaces(k)]
    BY DEF Plug
  <2>2. bus \in [Addrs -> Kinds \cup {"none"}]
    BY <1>4 DEF HostTypeOK
  <2>3. slots = [b \in Addrs |-> IF bus[b] = "none" THEN <<>> ELSE Interfaces(bus[b])]
    BY DEF HostShape
  <2>4. \A b \in Addrs : bus'[b] = IF b = a THEN k ELSE bus[b]
    BY <2>1, <2>2
  <2>5. bus' \in [Addrs -> Kinds \cup {"none"}]
    BY <2>1, <2>2
  <2> QED
    BY <1>3, <2>1, <2>3, <2>4, <2>5
<1>6. /\ plugs' \in 0..MaxPlugs /\ inst_count' \in Nat /\ inst_count' > 0
      /\ inst_count' <= 3 * plugs' /\ inst_count' \in 0..3 * MaxPlugs
  <2>1. /\ plugs' = plugs + 1 /\ plugs < MaxPlugs
        /\ inst_count' = inst_count + Len(Interfaces(k))
    BY DEF Plug
  <2>2. plugs \in 0..MaxPlugs /\ inst_count \in 0..3 * MaxPlugs /\ MaxPlugs \in Nat
    BY <1>4, HostAssumption DEF HostTypeOK
  <2>3. inst_count <= 3 * plugs
    BY DEF HostShape
  <2> DEFINE n == Len(Interfaces(k))
  <2>4. n \in 1..3 /\ inst_count' = inst_count + n
    BY <1>2, <2>1, Zenon
  <2> HIDE DEF n
  <2>5. /\ plugs' \in Nat /\ plugs' <= MaxPlugs /\ plugs' = plugs + 1
        /\ inst_count' \in Nat
    BY <2>1, <2>2, <2>4
  <2>6. inst_count' > 0 /\ inst_count' <= 3 * plugs'
    BY <2>1, <2>2, <2>3, <2>4
  <2>7. inst_count' <= 3 * MaxPlugs
    BY <2>2, <2>5, <2>6
  <2> QED
    BY <2>2, <2>5, <2>6, <2>7
<1>7. devices' \in Seq(Entry)
  <2>1. [addr |-> a, type |-> k, own |-> FALSE] \in Entry
    BY DEF Entry
  <2> QED
    BY <1>1, <2>1, PlugMeans
<1>8. /\ armed' \subseteq Addrs /\ busy' \subseteq Addrs /\ lost' \subseteq Addrs
      /\ {xone', x360', ps4'} \subseteq Addrs \cup {0}
  BY <1>4 DEF HostTypeOK, Plug
<1>9. HostTypeOK'
  BY <1>5, <1>6, <1>7, <1>8 DEF HostTypeOK, Entry
<1> QED
  BY <1>5, <1>6, <1>9 DEF HostShape

\* A device that is plugged in has an address above those of all the entries.
LEMMA PlugIsLast ==
  ASSUME HostShape, TrueTable, lost \subseteq {1}, NEW a \in Addrs, NEW k \in Kinds, Plug(a, k)
  PROVE  /\ \A i \in 1..total : devices[i].addr < a
         /\ InPlace(a, total + 1, bus)
<1>1. /\ bus[a] = "none" /\ \A b \in Addrs : b < a => bus[b] # "none"
  BY DEF Plug
<1>2. /\ total \in Nat /\ Addrs \subseteq Nat /\ a \in Nat /\ a >= 1
      /\ \A i \in 1..total : /\ devices[i].addr \in Addrs
                            /\ devices[i].type # "none"
  BY TableMeans, HostAssumption
<1>3. ASSUME NEW i \in 1..total PROVE devices[i].addr < a
  <2>1. /\ Expected(bus[devices[i].addr]) = devices[i].type
        /\ InPlace(devices[i].addr, i, bus)
    BY DEF TrueTable, KnownDevices
  <2>2. devices[i].addr # a
    BY <1>1, <1>2, <2>1 DEF Expected
  <2>3. ~ (a < devices[i].addr)
    BY <1>1, <2>1 DEF InPlace
  <2> DEFINE d == devices[i].addr
  <2>4. d \in Nat /\ a \in Nat /\ d # a /\ ~ (a < d)
    BY <1>2, <2>2, <2>3
  <2> HIDE DEF d
  <2>5. d < a
    BY <2>4
  <2> QED
    BY <2>5 DEF d
<1>4. total + 1 <= a
  <2>1. CASE total = 0
    BY <1>2, <2>1
  <2>2. CASE total # 0
    <3>1. total \in 1..total
      BY <1>2, <2>2
    <3>2. total <= devices[total].addr
      BY <3>1 DEF TrueTable, InPlace
    <3>3. devices[total].addr < a /\ devices[total].addr \in Nat
      BY <1>2, <1>3, <3>1
    <3> DEFINE d == devices[total].addr
               n == total
    <3>4. n \in Nat /\ d \in Nat /\ a \in Nat /\ n <= d /\ d < a
      BY <1>2, <3>2, <3>3
    <3> HIDE DEF d, n
    <3>5. n + 1 <= a
      BY <3>4
    <3> QED
      BY <3>5 DEF n
  <2> QED
    BY <2>1, <2>2
<1> QED
  BY <1>1, <1>3, <1>4 DEF InPlace

LEMMA PlugTruth ==
  ASSUME HostShape, TrueTable, NEW a \in Addrs, NEW k \in Kinds, Plug(a, k)
  PROVE  TrueTable'
<1> SUFFICES ASSUME lost' \subseteq {1}
             PROVE  TrueTable'
  BY DEF TrueTable, KnownDevices
<1>1. lost' = lost /\ lost \subseteq {1}
  BY DEF Plug
<1>2. /\ total \in Nat /\ total' = IF k = "hid" THEN total ELSE total + 1
      /\ \A i \in 1..total : devices'[i] = devices[i]
      /\ k # "hid" => devices'[total + 1] = [addr |-> a, type |-> k, own |-> FALSE]
  <2>1. total \in Nat /\ devices \in Seq(Entry)
    BY TableMeans
  <2>2. [addr |-> a, type |-> k, own |-> FALSE] \in Entry
    BY DEF Entry
  <2>3. CASE k = "hid"
    BY <2>1, <2>3, PlugMeans DEF total
  <2>4. CASE k # "hid"
    BY <2>1, <2>2, <2>4, PlugMeans DEF total
  <2> QED
    BY <2>1, <2>3, <2>4
<1>3. /\ bus[a] = "none" /\ bus' = [bus EXCEPT ![a] = k]
      /\ bus \in [Addrs -> Kinds \cup {"none"}]
  BY DEF Plug, HostShape, HostTypeOK
<1>4. \A b \in Addrs : bus'[b] = IF b = a THEN k ELSE bus[b]
  BY <1>3
<1>5. \A i \in 1..total : /\ devices[i].addr \in Addrs
                          /\ Expected(bus[devices[i].addr]) = devices[i].type
                          /\ InPlace(devices[i].addr, i, bus)
  BY <1>1, TableMeans DEF TrueTable, KnownDevices
<1>6. \A i \in 1..total : devices[i].addr < a
  BY <1>1, PlugIsLast
<1>7. \A i \in 1..total : devices'[i] = devices[i]
  BY <1>2
<1>8. k # "hid" => devices'[total + 1].addr = a /\ devices'[total + 1].type = k
  BY <1>2
<1>9. \A i \in 1..total' : i \in 1..total \/ (k # "hid" /\ i = total + 1)
  BY <1>2
<1>10. k # "none" /\ Addrs \subseteq Nat /\ a \in Nat
  BY HostAssumption
<1>11. \A i \in 1..total' : /\ Expected(bus'[devices'[i].addr]) = devices'[i].type
                            /\ InPlace(devices'[i].addr, i, bus')
  <2> SUFFICES ASSUME NEW i \in 1..total'
               PROVE  /\ Expected(bus'[devices'[i].addr]) = devices'[i].type
                      /\ InPlace(devices'[i].addr, i, bus')
    OBVIOUS
  <2>1. CASE i \in 1..total
    <3>1. devices[i].addr # a
      BY <2>1, <1>5, <1>6, <1>10
    <3>2. bus'[devices'[i].addr] = bus[devices[i].addr]
      BY <2>1, <1>4, <1>5, <1>7, <3>1
    <3>3. InPlace(devices[i].addr, i, bus')
      BY <2>1, <1>4, <1>5, <1>10 DEF InPlace
    <3> QED
      BY <2>1, <3>2, <3>3, <1>5, <1>7
  <2>2. CASE k # "hid" /\ i = total + 1
    <3>1. bus'[devices'[i].addr] = k
      BY <2>2, <1>4, <1>8
    <3>2. InPlace(a, total + 1, bus)
      BY <1>1, PlugIsLast
    <3>3. InPlace(a, total + 1, bus')
      BY <3>2, <1>4, <1>10 DEF InPlace
    <3> QED
      BY <2>2, <3>1, <3>3, <1>8, <1>10 DEF Expected
  <2> QED
    BY <2>1, <2>2, <1>9
<1>12. total' <= DeviceMax
  <2>1. CASE k = "hid"
    BY <1>1, <1>2, <2>1 DEF TrueTable, KnownDevices
  <2>2. CASE k # "hid"
    <3>1. total + 1 <= a
      BY <1>1, PlugIsLast DEF InPlace
    <3>2. a <= DeviceMax /\ DeviceMax \in Nat
      BY HostAssumption
    <3> QED
      BY <1>2, <1>10, <2>2, <3>1, <3>2
  <2> QED
    BY <2>1, <2>2
<1>13. \A i, j \in 1..total' : devices'[i].addr = devices'[j].addr => i = j
  <2>1. \A i, j \in 1..total : devices[i].addr = devices[j].addr => i = j
    BY <1>1 DEF TrueTable, KnownDevices
  <2> SUFFICES ASSUME NEW i \in 1..total', NEW j \in 1..total',
                      devices'[i].addr = devices'[j].addr
               PROVE  i = j
    OBVIOUS
  <2>2. CASE i \in 1..total /\ j \in 1..total
    BY <2>1, <2>2, <1>7
  <2>3. CASE k # "hid" /\ (i = total + 1 \/ j = total + 1)
    <3>1. \A n \in 1..total : devices[n].addr # a
      BY <1>5, <1>6, <1>10
    <3> QED
      BY <2>3, <3>1, <1>7, <1>8, <1>9
  <2> QED
    BY <2>2, <2>3, <1>9
<1>14. /\ xone' # 0 => bus'[xone'] = "xone"
       /\ x360' # 0 => bus'[x360'] = "x360"
       /\ ps4' # 0 => bus'[ps4'] = "ps4"
  <2>1. /\ xone # 0 => bus[xone] = "xone"
        /\ x360 # 0 => bus[x360] = "x360"
        /\ ps4 # 0 => bus[ps4] = "ps4"
    BY <1>1 DEF TrueTable, KnownDevices
  <2>2. {xone, x360, ps4} \subseteq Addrs \cup {0}
    BY DEF HostShape, HostTypeOK
  <2>3. /\ xone' = IF k = "xone" THEN a ELSE xone
        /\ x360' = IF k = "x360" THEN a ELSE x360
        /\ ps4' = IF k = "ps4" /\ ps4 = 0 THEN a ELSE ps4
    BY DEF Plug
  <2>4. /\ xone' # 0 => bus'[xone'] = "xone"
    BY <2>1, <2>2, <2>3, <1>3, <1>4
  <2>5. /\ x360' # 0 => bus'[x360'] = "x360"
    BY <2>1, <2>2, <2>3, <1>3, <1>4
  <2>6. /\ ps4' # 0 => bus'[ps4'] = "ps4"
    BY <2>1, <2>2, <2>3, <1>3, <1>4
  <2> QED
    BY <2>4, <2>5, <2>6
<1>15. outputs' = {}
  BY DEF Plug
<1>16. lost' = {} => \A b \in Addrs : Expected(bus'[b]) # "none" =>
                       \E i \in 1..total' : devices'[i].addr = b
  <2> SUFFICES ASSUME lost' = {}, NEW b \in Addrs, Expected(bus'[b]) # "none"
               PROVE  \E i \in 1..total' : devices'[i].addr = b
    OBVIOUS
  <2>1. CASE b = a
    <3>1. k # "hid"
      BY <2>1, <1>4 DEF Expected
    <3>2. total + 1 \in 1..total'
      BY <3>1, <1>2
    <3> QED
      BY <2>1, <3>1, <3>2, <1>8
  <2>2. CASE b # a
    <3>1. PICK i \in 1..total : devices[i].addr = b
      BY <2>2, <1>1, <1>4 DEF TrueTable, KnownDevices
    <3>2. i \in 1..total'
      BY <1>2
    <3> QED
      BY <3>1, <3>2, <1>7
  <2> QED
    BY <2>1, <2>2
<1> QED
  BY <1>11, <1>13, <1>14, <1>15, <1>16, <1>12 DEF TrueTable, KnownDevices

-----------------------------------------------------------------------------
(* A device is unplugged.                                                  *)

LEMMA UnplugShape ==
  ASSUME HostShape, NEW a \in Addrs, Unplug(a)
  PROVE  HostShape'
<1>1. HostTypeOK
  BY DEF HostShape
<1>2. /\ bus' = [bus EXCEPT ![a] = "none"] /\ slots' = [slots EXCEPT ![a] = <<>>]
      /\ inst_count' = IF a = 1 THEN 0 ELSE inst_count
      /\ plugs' = plugs
      /\ armed' = armed \ {a} /\ busy' = busy \ {a} /\ lost' = lost \cup {a}
  BY DEF Unplug
<1>3. /\ bus' \in [Addrs -> Kinds \cup {"none"}]
      /\ slots' = [b \in Addrs |-> IF bus'[b] = "none" THEN <<>> ELSE Interfaces(bus'[b])]
  <2>1. bus \in [Addrs -> Kinds \cup {"none"}]
    BY <1>1 DEF HostTypeOK
  <2>2. slots = [b \in Addrs |-> IF bus[b] = "none" THEN <<>> ELSE Interfaces(bus[b])]
    BY DEF HostShape
  <2>3. \A b \in Addrs : bus'[b] = IF b = a THEN "none" ELSE bus[b]
    BY <1>2, <2>1
  <2> QED
    BY <1>2, <2>1, <2>2, <2>3
<1>4. /\ inst_count' \in 0..3 * MaxPlugs /\ inst_count' <= 3 * plugs'
      /\ bus'[1] # "none" => inst_count' > 0
  <2>1. /\ plugs \in 0..MaxPlugs /\ inst_count \in 0..3 * MaxPlugs /\ MaxPlugs \in Nat
        /\ bus \in [Addrs -> Kinds \cup {"none"}] /\ 1 \in Addrs
    BY <1>1, HostAssumption DEF HostTypeOK
  <2>2. inst_count <= 3 * plugs /\ (bus[1] # "none" => inst_count > 0)
    BY DEF HostShape
  <2>3. CASE a = 1
    BY <1>2, <2>1, <2>2, <2>3
  <2>4. CASE a # 1
    BY <1>2, <2>1, <2>2, <2>4
  <2> QED
    BY <2>3, <2>4
<1>5. /\ devices' \in Seq(Entry)
      /\ {xone', x360', ps4'} \subseteq Addrs \cup {0}
  <2>1. devices \in Seq(Entry) /\ <<>> \in Seq(Entry)
    BY TableMeans
  <2>2. CASE a = 1 /\ inst_count > 0
    <3>1. Umount(a)
      BY <2>2 DEF Unplug
    <3> QED
      BY <1>1, <2>1, <3>1 DEF HostTypeOK, Umount
  <2>3. CASE ~ (a = 1 /\ inst_count > 0)
    <3>1. UNCHANGED <<xone, x360, ps4, devices>>
      BY <2>3 DEF Unplug
    <3> QED
      BY <1>1, <2>1, <3>1 DEF HostTypeOK
  <2> QED
    BY <2>2, <2>3
<1>6. HostTypeOK'
  BY <1>1, <1>2, <1>3, <1>4, <1>5 DEF HostTypeOK, Entry
<1> QED
  BY <1>3, <1>4, <1>6 DEF HostShape

\* While only the device at address 1 is unplugged the table is told, and forgets
\* everything it held.
LEMMA UnplugTruth ==
  ASSUME HostShape, TrueTable, NEW a \in Addrs, Unplug(a)
  PROVE  TrueTable'
<1> SUFFICES ASSUME lost' \subseteq {1} PROVE TrueTable'
  BY DEF TrueTable, KnownDevices
<1>1. /\ bus[a] # "none" /\ bus' = [bus EXCEPT ![a] = "none"]
      /\ lost' = lost \cup {a} /\ outputs' = {}
  BY DEF Unplug
<1>2. a = 1 /\ lost \subseteq {1}
  BY <1>1
<1>3. inst_count > 0
  BY <1>1, <1>2 DEF HostShape
<1>4. /\ total' = 0
      /\ xone' = IF xone = 1 THEN 0 ELSE xone
      /\ x360' = IF x360 = 1 THEN 0 ELSE x360
      /\ ps4' = IF ps4 = 1 THEN 0 ELSE ps4
  BY <1>2, <1>3 DEF Unplug, Umount, total
<1>5. /\ xone # 0 => bus[xone] = "xone"
      /\ x360 # 0 => bus[x360] = "x360"
      /\ ps4 # 0 => bus[ps4] = "ps4"
  BY <1>2 DEF TrueTable, KnownDevices
<1>6. /\ bus \in [Addrs -> Kinds \cup {"none"}]
      /\ {xone, x360, ps4} \subseteq Addrs \cup {0}
  BY DEF HostShape, HostTypeOK
<1>7. \A b \in Addrs \ {1} : bus'[b] = bus[b]
  BY <1>1, <1>2, <1>6
<1>8. xone' # 0 => bus'[xone'] = "xone"
  BY <1>4, <1>5, <1>6, <1>7
<1>9. x360' # 0 => bus'[x360'] = "x360"
  BY <1>4, <1>5, <1>6, <1>7
<1>10. ps4' # 0 => bus'[ps4'] = "ps4"
  BY <1>4, <1>5, <1>6, <1>7
<1>11. \A i : i \notin 1..total'
  BY <1>4
<1>12. lost' # {}
  BY <1>1
<1>13. total' <= DeviceMax
  BY <1>4, HostAssumption
<1> QED
  BY <1>1, <1>8, <1>9, <1>10, <1>11, <1>12, <1>13 DEF TrueTable, KnownDevices

-----------------------------------------------------------------------------
(* What leaves the table as it is.                                         *)

\* Where a report or a request may go (the last part but one of KnownDevices).
Reaches(o) ==
  IF o.by = "index" THEN o.to # o.entry.addr
  ELSE o.to = o.entry.addr /\ (o.to # 0 => bus[o.to] = o.entry.type)

\* Reports that are stored, drained or sent, and requests that are relayed: no device
\* comes or goes, and no entry changes but for whose report it holds.
LEMMA SameTable ==
  ASSUME HostShape, TrueTable,
         UNCHANGED <<bus, plugs, slots, inst_count, xone, x360, ps4, lost>>,
         armed' \subseteq Addrs, busy' \subseteq Addrs,
         devices' \in Seq(Entry), total' = total,
         \A i \in 1..total : /\ devices'[i].addr = devices[i].addr
                            /\ devices'[i].type = devices[i].type,
         lost \subseteq {1} => \A o \in outputs' : Reaches(o)
  PROVE  HostShape' /\ TrueTable'
<1>1. HostShape'
  BY DEF HostShape, HostTypeOK, Entry
<1>2. bus' = bus /\ lost' = lost
  OBVIOUS
<1>3. TrueTable'
  <2> SUFFICES ASSUME lost \subseteq {1} PROVE TrueTable'
    BY <1>2 DEF TrueTable, KnownDevices
  <2>1. \A i \in 1..total' : /\ Expected(bus'[devices'[i].addr]) = devices'[i].type
                             /\ InPlace(devices'[i].addr, i, bus')
    BY <1>2 DEF TrueTable, KnownDevices
  <2>2. \A i, j \in 1..total' : devices'[i].addr = devices'[j].addr => i = j
    BY DEF TrueTable, KnownDevices
  <2>3. /\ xone' # 0 => bus'[xone'] = "xone"
        /\ x360' # 0 => bus'[x360'] = "x360"
        /\ ps4' # 0 => bus'[ps4'] = "ps4"
    BY DEF TrueTable, KnownDevices
  <2>4. lost' = {} => \A b \in Addrs : Expected(bus'[b]) # "none" =>
                        \E i \in 1..total' : devices'[i].addr = b
    BY <1>2 DEF TrueTable, KnownDevices
  <2>5. total' <= DeviceMax
    BY DEF TrueTable, KnownDevices
  <2>6. \A o \in outputs' :
          IF o.by = "index" THEN o.to # o.entry.addr
          ELSE o.to = o.entry.addr /\ (o.to # 0 => bus'[o.to] = o.entry.type)
    BY <1>2 DEF Reaches
  <2> QED
    BY <2>1, <2>2, <2>3, <2>4, <2>5, <2>6 DEF TrueTable, KnownDevices
<1> QED
  BY <1>1, <1>3

\* What is sent to the address of an entry reaches a controller of the type it was
\* made for; what is sent to its index does not reach it.
LEMMA OutputKeeps ==
  ASSUME HostShape, TrueTable, NEW types, Output(types)
  PROVE  HostShape' /\ TrueTable'
<1>1. HostTypeOK /\ devices \in Seq(Entry)
  BY TableMeans DEF HostShape
<1>2. ASSUME lost \subseteq {1}, NEW o \in outputs'
      PROVE  Reaches(o)
  <2>1. PICK i \in Targets(types) :
          o = [entry |-> devices[i], by |-> By(i), to |-> Destination(i)]
    BY DEF Output
  <2>2. i \in 1..total
    BY <2>1 DEF Targets
  <2>3. /\ Expected(bus[devices[i].addr]) = devices[i].type
        /\ devices[i].type # "none"
        /\ i <= devices[i].addr /\ devices[i].addr \in Nat /\ i \in Nat
    BY <1>2, <2>2, TableMeans DEF TrueTable, KnownDevices, InPlace
  <2>4. o.entry = devices[i] /\ o.by = By(i) /\ o.to = Destination(i)
    BY <2>1
  <2>5. CASE By(i) = "index"
    <3>1. o.to = i - 1
      BY <2>4, <2>5 DEF Destination
    <3>2. i - 1 # devices[i].addr
      BY <2>3
    <3> QED
      BY <2>4, <2>5, <3>1, <3>2 DEF Reaches
  <2>6. CASE By(i) # "index"
    <3>1. o.to = devices[i].addr
      BY <2>4, <2>6 DEF Destination
    <3>2. bus[devices[i].addr] = devices[i].type
      BY <2>3 DEF Expected
    <3> QED
      BY <2>4, <2>6, <3>1, <3>2 DEF Reaches
  <2> QED
    BY <2>5, <2>6
<1>3. /\ UNCHANGED <<bus, plugs, slots, inst_count, armed, devices, xone, x360, ps4, lost>>
      /\ busy' \subseteq Addrs
  BY <1>1 DEF Output, HostTypeOK
<1>4. devices' = devices /\ total' = total
  BY <1>3 DEF total
<1>5. armed' \subseteq Addrs
  BY <1>1, <1>3 DEF HostTypeOK
<1> QED
  BY <1>1, <1>2, <1>3, <1>4, <1>5, SameTable

\* A request is relayed to the controller that is known for its type, or to none.
LEMMA RelayKeeps ==
  ASSUME HostShape, TrueTable, NEW type \in {"x360", "ps4"}, Relay(type)
  PROVE  HostShape' /\ TrueTable'
<1>1. HostTypeOK /\ devices \in Seq(Entry)
  BY TableMeans DEF HostShape
<1> DEFINE to == IF type = "x360" THEN x360 ELSE ps4
<1>2. /\ outputs' = {[entry |-> [addr |-> to, type |-> type, own |-> FALSE],
                      by |-> "address", to |-> to]}
      /\ UNCHANGED <<bus, plugs, slots, inst_count, armed, busy, devices, xone, x360,
                     ps4, lost>>
  BY DEF Relay
<1>3. lost \subseteq {1} /\ to # 0 => bus[to] = type
  BY DEF TrueTable, KnownDevices
<1> HIDE DEF to
<1>4. lost \subseteq {1} => \A o \in outputs' : Reaches(o)
  BY <1>2, <1>3 DEF Reaches
<1>5. devices' = devices /\ total' = total /\ armed' \subseteq Addrs /\ busy' \subseteq Addrs
  BY <1>1, <1>2 DEF total, HostTypeOK
<1> QED
  BY <1>1, <1>2, <1>4, <1>5, SameTable

\* A controller's report is kept in the entry that is the device's.
LEMMA StoreKeeps ==
  ASSUME HostShape, TrueTable, NEW a \in Addrs, NEW input \in BOOLEAN, StoreReport(a, input)
  PROVE  HostShape' /\ TrueTable'
<1>1. HostTypeOK /\ devices \in Seq(Entry)
  BY TableMeans DEF HostShape
<1> DEFINE n == Min({i \in 1..total : devices[i].addr = a})
<1>2. /\ devices' = devices \/ devices' = [devices EXCEPT ![n].own = TRUE]
      /\ UNCHANGED <<bus, plugs, slots, inst_count, armed, busy, xone, x360, ps4,
                     outputs, lost>>
  BY DEF StoreReport
<1> HIDE DEF n
<1>3. /\ devices' \in Seq(Entry) /\ total' = total
      /\ \A i \in 1..total : /\ devices'[i].addr = devices[i].addr
                             /\ devices'[i].type = devices[i].type
  <2>1. CASE devices' = devices
    BY <1>1, <2>1 DEF total
  <2>2. CASE devices' = [devices EXCEPT ![n].own = TRUE]
    <3> DEFINE e == [devices[n] EXCEPT !.own = TRUE]
    <3>1. devices' = [devices EXCEPT ![n] = e]
      BY <2>2
    <3>2. CASE n \in 1..total
      <4>1. devices[n] \in Entry
        BY <1>1, <3>2 DEF total
      <4>2. e \in Entry /\ e.addr = devices[n].addr /\ e.type = devices[n].type
        BY <4>1 DEF Entry
      <4> HIDE DEF e
      <4>3. /\ devices' \in Seq(Entry) /\ Len(devices') = Len(devices)
            /\ \A i \in 1..Len(devices) : devices'[i] = IF i = n THEN e ELSE devices[i]
        BY <1>1, <3>1, <3>2, <4>2 DEF total
      <4> QED
        BY <4>2, <4>3 DEF total
    <3>3. CASE n \notin 1..total
      <4> HIDE DEF e
      <4>1. n \notin DOMAIN devices
        BY <1>1, <3>3 DEF total
      <4>2. devices' = devices
        BY <1>1, <3>1, <4>1
      <4> QED
        BY <1>1, <4>2 DEF total
    <3> QED
      BY <3>2, <3>3
  <2> QED
    BY <1>2, <2>1, <2>2
<1>4. lost \subseteq {1} => \A o \in outputs' : Reaches(o)
  BY <1>2 DEF TrueTable, KnownDevices, Reaches
<1>5. armed' \subseteq Addrs /\ busy' \subseteq Addrs
  BY <1>1, <1>2 DEF HostTypeOK
<1> QED
  BY <1>2, <1>3, <1>4, <1>5, SameTable

\* Only the endpoints that are busy change.
LEMMA BusyKeeps ==
  ASSUME HostShape, TrueTable, busy' \subseteq Addrs,
         UNCHANGED <<bus, plugs, slots, inst_count, armed, devices, xone, x360, ps4,
                     outputs, lost>>
  PROVE  HostShape' /\ TrueTable'
<1>1. HostTypeOK /\ devices \in Seq(Entry)
  BY TableMeans DEF HostShape
<1>2. lost \subseteq {1} => \A o \in outputs' : Reaches(o)
  BY DEF TrueTable, KnownDevices, Reaches
<1>3. devices' \in Seq(Entry) /\ total' = total /\ armed' \subseteq Addrs
  BY <1>1 DEF total, HostTypeOK
<1> QED
  BY <1>2, <1>3, SameTable

-----------------------------------------------------------------------------
LEMMA InductiveTable == Spec => [](HostShape /\ TrueTable)
<1>1. Init => HostShape /\ TrueTable
  BY HostInitShape DEF Init
<1>2. (HostShape /\ TrueTable) /\ [Next]_vars => (HostShape /\ TrueTable)'
  <2> SUFFICES ASSUME HostShape, TrueTable, [Next]_vars PROVE HostShape' /\ TrueTable'
    OBVIOUS
  <2>1. HostTypeOK
    BY DEF HostShape
  <2>2. CASE BusReset \/ Configure \/ Polled \/ ConsoleAnswers \/ ConsoleAuth \/ Request83
             \/ UNCHANGED vars
    <3>1. UNCHANGED hostVars
      BY <2>2 DEF BusReset, Configure, Polled, ConsoleAnswers, ConsoleAuth, Request83, vars
    <3> QED
      BY <2>1, <3>1, BusyKeeps DEF hostVars, HostTypeOK
  <2>3. CASE ConsoleRumbles \/ ConsoleLeds
    BY <2>3, OutputKeeps DEF ConsoleRumbles, ConsoleLeds, Rumble, PlayerLeds
  <2>4. CASE ConsoleRequest
    BY <2>4, RelayKeeps DEF ConsoleRequest
  <2>5. ASSUME NEW a \in Addrs, NEW k \in Kinds, Connect(a, k)
        PROVE  HostShape' /\ TrueTable'
    BY <2>5, PlugShape, PlugTruth DEF Connect
  <2>6. ASSUME NEW a \in Addrs, Disconnect(a)
        PROVE  HostShape' /\ TrueTable'
    BY <2>6, UnplugShape, UnplugTruth DEF Disconnect
  <2>7. ASSUME NEW a \in Addrs, Drain(a)
        PROVE  HostShape' /\ TrueTable'
    BY <2>1, <2>7, BusyKeeps DEF Drain, OutDone, HostTypeOK
  <2>8. ASSUME NEW a \in Addrs, NEW input \in BOOLEAN, ControllerReport(a, input)
        PROVE  HostShape' /\ TrueTable'
    BY <2>8, StoreKeeps DEF ControllerReport
  <2>9. CASE Tick
    <3>1. busy' \subseteq Addrs
      BY <2>1, <2>9 DEF Tick, ToController, Accepts, Mounted, HostTypeOK
    <3>2. UNCHANGED <<bus, plugs, slots, inst_count, armed, devices, xone, x360, ps4,
                      outputs, lost>>
      BY <2>9 DEF Tick
    <3> QED
      BY <3>1, <3>2, BusyKeeps
  <2> QED
    BY <2>2, <2>3, <2>4, <2>5, <2>6, <2>7, <2>8, <2>9 DEF Next
<1> QED
  BY <1>1, <1>2, PTL DEF Spec

\* The state of the host port has its types in every reachable state, with as many
\* addresses, devices and kinds of device as there may be, however long the table
\* grows: an entry is always of a kind of device, at an address there is.
THEOREM HostTypeCorrect == Spec => []HostTypeOK
<1>1. HostShape => HostTypeOK
  BY DEF HostShape
<1> QED
  BY <1>1, InductiveTable, PTL

\* Until a device behind a hub is unplugged the table of devices tells the truth and
\* stays in its array; what is sent to the address of a controller reaches one of the
\* type it was made for, what is sent to the index of an entry never its own.
THEOREM DevicesAreKnown == Spec => []KnownDevices
<1>1. TrueTable => KnownDevices
  BY DEF TrueTable
<1> QED
  BY <1>1, InductiveTable, PTL
=============================================================================
