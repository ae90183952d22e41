---------------------------- MODULE BtLink_proofs ----------------------------
(***************************************************************************)
(* NothingElseLost for every set of inputs, room for notifications, and    *)
(* number of faults and changes.  It speaks of the moments when nothing is *)
(* under way; the invariant that proves it, Conveyed, says where the       *)
(* newest report is at every other moment: the last of the notifications   *)
(* (InAir), the mailbox (InBox), the copy of a reader whom no report has   *)
(* overtaken (InCopy), or last_report_usb (InUsb), which is what the       *)
(* console has or is about to be given (Shown) - a keystroke of the guide  *)
(* button in between changes neither.                                      *)
(***************************************************************************)
EXTENDS BtLink, TLAPS

InAir == ~taken /\ air # <<>> => air[Len(air)] = last_bt

InBox ==
  ~taken /\ air = <<>> /\ last_bt # None /\ (received \/ reader # "nobody")
    => box = Whole(last_bt)

InCopy ==
  /\ reader = "nobody" => copied = 0
  /\ reader # "nobody" /\ ~received =>
       /\ copied \in {1, 2} => input[1] = box[1]
       /\ copied = 2 => input[2] = box[2]

InUsb ==
  ~taken /\ air = <<>> /\ last_bt # None /\ ~received /\ reader = "nobody"
    => last_usb = Whole(last_bt)

Shown ==
  /\ reader = "usb" => endpoint = <<>>
  /\ IF endpoint = <<>> \/ endpoint[1] = Keystroke
       THEN view = last_usb
       ELSE endpoint[1] = last_usb

Conveyed == InAir /\ InBox /\ InCopy /\ InUsb /\ Shown

-----------------------------------------------------------------------------
LEMMA ReportsPairs ==
  /\ \A v \in Inputs \cup {None} : Whole(v) \in Reports
  /\ \A r, s \in Reports : <<r[1], s[2]>> \in Reports
  /\ \A r, s \in Reports : r[1] = s[1] /\ r[2] = s[2] => r = s
  /\ Keystroke \notin Reports
BY BtAssumption DEF Reports, Whole, Keystroke, None

LEMMA Counting ==
  /\ MaxAir \in Nat /\ MaxFaults \in Nat /\ MaxChanges \in Nat
  /\ \A n \in 0..MaxFaults : n < MaxFaults => n + 1 \in 0..MaxFaults
BY BtAssumption

LEMMA EmptyTyped ==
  /\ <<>> \in Seq(Inputs) /\ Len(<<>>) <= MaxAir
  /\ <<>> \in Seq(Reports \cup {Keystroke}) /\ Len(<<>>) <= 1
BY Counting

\* Actions of the connection that neither restart the receiver nor break the
\* link.
LEMMA LinkStepTyped ==
  ASSUME TypeOK, UNCHANGED dataVars,
         \/ Working \/ Timeout \/ ConnectionComplete \/ ConnectionFailed
         \/ PairingComplete \/ DeviceInformation \/ HidConnected
  PROVE  TypeOK'
<1>1. UNCHANGED <<held, last_bt, air, received, box, reader, copied, input, guide,
                  last_usb, endpoint, view, taken, changes>>
  BY DEF dataVars, readerVars
<1>2. /\ app_state' \in {"W4_WORKING", "W4_CONNECTED", "W4_ENCRYPTED",
                         "W4_HID_CLIENT_CONNECTED", "READY", "W4_TIMEOUT_THEN_RECONNECT"}
      /\ timer' \in {"off", "connect", "reconnect"}
      /\ request' \in {"none", "connect", "pair", "query", "hids"}
      /\ link' \in BOOLEAN /\ con_handle' \in BOOLEAN /\ cancelled' \in BOOLEAN
  BY
  DEF TypeOK, Working, Timeout, HogConnect, ConnectionComplete, PairingComplete,
      DeviceInformation, HidConnected, Reboot, ConnectionFailed
<1>3. txType' \in TxTypes /\ consoleType' \in RxTypes \cup TxTypes
  BY DEF TypeOK, Working, Timeout, ConnectionComplete, PairingComplete,
         DeviceInformation, HidConnected, ConnectionFailed
<1>4. faults' \in 0..MaxFaults
  BY Counting
  DEF TypeOK, Working, Timeout, ConnectionComplete, PairingComplete, DeviceInformation,
      HidConnected, ConnectionFailed
<1>5. misled' \in BOOLEAN
  <2>1. CASE misled' = (misled \/ ~link)
    BY <2>1, Zenon DEF TypeOK
  <2>2. CASE misled' = misled \/ misled' = TRUE \/ misled' = FALSE
    BY <2>2, Zenon DEF TypeOK
  <2> QED
    BY <2>1, <2>2
    DEF Working, Timeout, ConnectionComplete, ConnectionFailed, PairingComplete,
        DeviceInformation, HidConnected, Reboot
<1> QED
  BY <1>1, <1>2, <1>3, <1>4, <1>5 DEF TypeOK

LEMMA RebootTyped ==
  ASSUME TypeOK, Reboot, consoleType' = txType,
         UNCHANGED <<txType, held, last_bt, changes, faults>>
  PROVE  TypeOK'
<1>1. /\ air' = <<>> /\ endpoint' = <<>> /\ reader' = "nobody" /\ copied' = 0
      /\ {box', input', last_usb', view'} \subseteq Reports
  BY ReportsPairs DEF Reboot
<1>2. /\ app_state' = "W4_WORKING" /\ timer' = "off" /\ request' = "none"
      /\ link' = FALSE /\ con_handle' = FALSE /\ received' = FALSE /\ taken' = TRUE
      /\ cancelled' = FALSE /\ misled' = FALSE /\ guide' = FALSE
  BY DEF Reboot
<1>3. /\ air' \in Seq(Inputs) /\ Len(air') <= MaxAir
      /\ endpoint' \in Seq(Reports \cup {Keystroke}) /\ Len(endpoint') <= 1
      /\ copied' \in 0..2 /\ reader' \in {"nobody", "usb", "null", "get"}
  BY <1>1, EmptyTyped
<1>4. /\ txType' \in TxTypes /\ consoleType' \in RxTypes \cup TxTypes
      /\ held' \in Inputs /\ last_bt' \in Inputs \cup {None}
      /\ faults' \in 0..MaxFaults /\ changes' \in 0..MaxChanges
  BY DEF TypeOK
<1> QED
  BY <1>1, <1>2, <1>3, <1>4 DEF TypeOK

\* Every variable stays in its range.
THEOREM TypesCorrect == Spec => []TypeOK
<1>1. Init => TypeOK
  <2> SUFFICES ASSUME Init PROVE TypeOK
    OBVIOUS
  <2>1. /\ {box, input, last_usb, view} \subseteq Reports
        /\ air = <<>> /\ endpoint = <<>> /\ faults = 0 /\ changes = 0 /\ copied = 0
    BY ReportsPairs DEF Init
  <2>2. /\ air \in Seq(Inputs) /\ Len(air) <= MaxAir
        /\ endpoint \in Seq(Reports \cup {Keystroke}) /\ Len(endpoint) <= 1
    BY <2>1, EmptyTyped
  <2>3. faults \in 0..MaxFaults /\ changes \in 0..MaxChanges /\ copied \in 0..2
    BY <2>1, Counting
  <2>4. /\ txType \in TxTypes /\ consoleType \in RxTypes \cup TxTypes
        /\ held \in Inputs /\ last_bt \in Inputs \cup {None}
    BY DEF Init
  <2> QED
    BY <2>1, <2>2, <2>3, <2>4 DEF Init, TypeOK
<1>2. TypeOK /\ [Next]_vars => TypeOK'
  <2> SUFFICES ASSUME TypeOK, [Next]_vars PROVE TypeOK'
    OBVIOUS
  <2>1. CASE Working \/ Timeout \/ ConnectionComplete \/ ConnectionFailed
             \/ PairingComplete \/ HidConnected
    <3>1. UNCHANGED dataVars
      BY <2>1 DEF Working, Timeout, ConnectionComplete, ConnectionFailed, PairingComplete,
                   HidConnected
    <3> QED
      BY <2>1, <3>1, LinkStepTyped
  <2>2. CASE DeviceInformation
    <3>1. CASE UNCHANGED dataVars
      BY <2>2, <3>1, LinkStepTyped
    <3>2. CASE /\ Reboot /\ consoleType' = txType
               /\ UNCHANGED <<txType, held, last_bt, changes, faults>>
      BY <3>2, RebootTyped
    <3> QED
      BY <2>2, <3>1, <3>2 DEF DeviceInformation
  <2>3. CASE LinkLost
    <3>1. faults' \in 0..MaxFaults /\ air' = <<>>
      BY <2>3, Counting DEF LinkLost, TypeOK
    <3>2. taken' \in BOOLEAN
      BY <2>3, Zenon DEF LinkLost, TypeOK
    <3>3. /\ app_state' \in {"W4_WORKING", "W4_CONNECTED", "W4_ENCRYPTED",
                             "W4_HID_CLIENT_CONNECTED", "READY",
                             "W4_TIMEOUT_THEN_RECONNECT"}
          /\ timer' \in {"off", "connect", "reconnect"}
      BY <2>3 DEF LinkLost, Disconnected, TypeOK
    <3>4. air' \in Seq(Inputs) /\ Len(air') <= MaxAir
      BY <3>1, EmptyTyped
    <3>5. link' = FALSE /\ con_handle' = FALSE
      BY <2>3 DEF LinkLost
    <3>6. UNCHANGED <<request, cancelled, txType, consoleType, misled, held, last_bt, received,
                      box, reader, copied, input, guide, last_usb, endpoint, view, changes>>
      BY <2>3 DEF LinkLost, readerVars
    <3> QED
      BY <3>1, <3>2, <3>3, <3>4, <3>5, <3>6 DEF TypeOK
  <2>4. CASE Change
    BY <2>4, BtAssumption DEF Change, TypeOK, linkVars, readerVars
  <2>5. CASE TxTick
    <3>1. air' \in Seq(Inputs) /\ Len(air') <= MaxAir
      BY <2>5, BtAssumption DEF TxTick, CanSend, TypeOK
    <3> QED
      BY <2>5, <3>1 DEF TxTick, TypeOK, linkVars, readerVars
  <2>6. CASE ReportSet
    <3>1. air' \in Seq(Inputs) /\ Len(air') <= MaxAir /\ Head(air) \in Inputs
      BY <2>6, BtAssumption DEF ReportSet, TypeOK
    <3> QED
      BY <2>6, <3>1, ReportsPairs DEF ReportSet, TypeOK, linkVars, readerVars
  <2>7. ASSUME NEW purpose \in {"usb", "null", "get"}, Take(purpose)
        PROVE  TypeOK'
    <3>1. received' = FALSE /\ reader' \in {"nobody", "usb", "null", "get"}
      BY <2>7 DEF Take
    <3> QED
      <4>1. UNCHANGED <<linkVars, held, last_bt, air, box, copied, input, guide, last_usb,
                        endpoint, view, taken, changes>>
        BY <2>7 DEF Take
      <4>2. received' \in BOOLEAN
        BY <3>1
      <4> QED
        BY <3>1, <4>1, <4>2 DEF TypeOK, linkVars
  <2>8. CASE CopyFirst \/ CopySecond
    <3>1. input' \in Reports
      BY <2>8, ReportsPairs DEF CopyFirst, CopySecond, TypeOK
    <3> QED
      BY <2>8, <3>1 DEF CopyFirst, CopySecond, TypeOK, linkVars
  <2>9. CASE Process
    <3>1. /\ last_usb' \in Reports
          /\ endpoint' \in Seq(Reports \cup {Keystroke}) /\ Len(endpoint') <= 1
      <4>1. input \in Reports /\ last_usb \in Reports
        BY DEF TypeOK
      <4>2. CASE UNCHANGED <<last_usb, endpoint>>
        BY <4>2 DEF TypeOK
      <4>3. CASE last_usb' = input /\ endpoint' = <<input>>
        BY <4>1, <4>3
      <4>4. CASE UNCHANGED last_usb /\ endpoint' = <<Keystroke>>
        BY <4>1, <4>4
      <4> QED
        BY <2>9, <4>2, <4>3, <4>4 DEF Process
    <3>2. taken' \in BOOLEAN
      BY <2>9, Zenon DEF Process, TypeOK
    <3>3. guide' \in BOOLEAN
      BY <2>9 DEF Process, TypeOK
    <3> QED
      BY <2>9, <3>1, <3>2, <3>3 DEF Process, TypeOK, linkVars
  <2>10. CASE Polled
    <3>1. endpoint[1] \in Reports \cup {Keystroke}
      BY <2>10 DEF Polled, TypeOK
    <3>2. view' \in Reports /\ endpoint' = <<>>
      BY <2>10, <3>1 DEF Polled, TypeOK
    <3> QED
      BY <2>10, <3>2, EmptyTyped DEF Polled, TypeOK, linkVars, readerVars
  <2>11. CASE UNCHANGED vars
    BY <2>11 DEF vars, TypeOK, linkVars, dataVars, readerVars
  <2> QED
    BY <2>1, <2>2, <2>3, <2>4, <2>5, <2>6, <2>7, <2>8, <2>9, <2>10, <2>11 DEF Next
<1> QED
  BY <1>1, <1>2, PTL DEF Spec

-----------------------------------------------------------------------------
\* Nothing but taken says where the newest report is in a receiver that has
\* just started.
LEMMA RebootConveys ==
  ASSUME Reboot
  PROVE  Conveyed'
BY DEF Reboot, Conveyed, InAir, InBox, InCopy, InUsb, Shown

\* The newest report is where Conveyed says, from the notification to the
\* endpoint.
THEOREM WhereTheNewestIs == Spec => []Conveyed
<1>1. Init => Conveyed
  BY DEF Init, Conveyed, InAir, InBox, InCopy, InUsb, Shown
<1>2. TypeOK /\ TypeOK' /\ Conveyed /\ [Next]_vars => Conveyed'
  <2> SUFFICES ASSUME TypeOK, TypeOK', Conveyed, [Next]_vars PROVE Conveyed'
    OBVIOUS
  <2> USE DEF Conveyed, InAir, InBox, InCopy, InUsb, Shown
  <2>1. CASE UNCHANGED <<last_bt, air, received, box, reader, copied, input, last_usb,
                         endpoint, view, taken>>
    BY <2>1
  <2>2. CASE \/ Working \/ Timeout \/ ConnectionComplete \/ PairingComplete
             \/ ConnectionFailed \/ HidConnected \/ Change
    BY <2>1, <2>2
    DEF Working, Timeout, ConnectionComplete, ConnectionFailed, PairingComplete,
        HidConnected, Change, dataVars, readerVars
  <2>3. CASE DeviceInformation
    BY <2>1, <2>3, RebootConveys DEF DeviceInformation, dataVars, readerVars
  <2>4. CASE LinkLost
    BY <2>4 DEF LinkLost, readerVars
  <2>5. CASE TxTick
    <3>1. (air' # <<>> /\ air'[Len(air')] = last_bt') \/ taken'
      <4>1. CASE CanSend
        BY <2>5, <4>1 DEF TxTick, TypeOK
      <4>2. CASE ~CanSend
        BY <2>5, <4>2 DEF TxTick
      <4> QED
        BY <4>1, <4>2
    <3>2. InCopy' /\ Shown'
      BY <2>5 DEF TxTick, readerVars
    <3> QED
      BY <3>1, <3>2
  <2>6. CASE ReportSet
    <3>1. /\ Len(air) \in Nat \ {0}
          /\ Tail(air) = <<>> => Len(air) = 1
          /\ Tail(air) # <<>> => Tail(air)[Len(Tail(air))] = air[Len(air)]
          /\ Head(air) = air[1]
      <4>1. air # <<>> /\ air \in Seq(Inputs)
        BY <2>6 DEF ReportSet, TypeOK
      <4>2. /\ Len(air) \in Nat \ {0} /\ Len(Tail(air)) = Len(air) - 1
            /\ \A i \in 1..Len(air) - 1 : Tail(air)[i] = air[i + 1]
            /\ Head(air) = air[1]
        BY <4>1
      <4>3. Tail(air) \in Seq(Inputs)
        BY <4>1
      <4>9. \A s \in Seq(Inputs) :
              /\ s = <<>> => Len(s) = 0
              /\ s # <<>> => Len(s) \in Nat \ {0}
        OBVIOUS
      <4> DEFINE t == Tail(air)
      <4> HIDE DEF t
      <4>4. /\ t = <<>> => Len(t) = 0
            /\ t # <<>> => Len(t) \in Nat \ {0}
        BY <4>3, <4>9 DEF t
      <4>5. t = <<>> => Len(air) = 1
        BY <4>2, <4>4 DEF t
      <4>6. ASSUME t # <<>> PROVE t[Len(t)] = air[Len(air)]
        <5>1. Len(t) = Len(air) - 1 /\ Len(t) \in 1..Len(air) - 1
          BY <4>2, <4>4, <4>6 DEF t
        <5>2. t[Len(t)] = air[Len(t) + 1] /\ Len(t) + 1 = Len(air)
          BY <4>2, <5>1 DEF t
        <5> QED
          BY <5>2
      <4> QED
        BY <4>2, <4>5, <4>6 DEF t
    <3>2. InAir'
      BY <2>6, <3>1 DEF ReportSet
    <3>3. InBox'
      BY <2>6, <3>1 DEF ReportSet
    <3>4. InCopy' /\ InUsb' /\ Shown'
      BY <2>6 DEF ReportSet, readerVars
    <3> QED
      BY <3>2, <3>3, <3>4
  <2>7. ASSUME NEW purpose \in {"usb", "null", "get"}, Take(purpose)
        PROVE  Conveyed'
    BY <2>7 DEF Take
  <2>8. CASE CopyFirst \/ CopySecond
    <3>1. InCopy'
      BY <2>8 DEF CopyFirst, CopySecond
    <3> QED
      BY <2>8, <3>1 DEF CopyFirst, CopySecond
  <2>9. CASE Process
    <3>1. ~received => input = box
      BY <2>9, ReportsPairs DEF Process, TypeOK
    <3>2. InUsb'
      BY <2>9, <3>1 DEF Process
    <3>3. Shown'
      <4>1. input # Keystroke /\ reader' = "nobody"
        BY <2>9, ReportsPairs DEF Process, TypeOK
      <4>2. CASE UNCHANGED <<last_usb, endpoint>>
        BY <2>9, <4>1, <4>2 DEF Process
      <4>3. CASE last_usb' = input /\ endpoint' = <<input>>
        BY <2>9, <4>1, <4>3 DEF Process
      <4>4. CASE reader = "usb" /\ UNCHANGED last_usb /\ endpoint' = <<Keystroke>>
        BY <2>9, <4>1, <4>4 DEF Process
      <4> QED
        BY <2>9, <4>2, <4>3, <4>4 DEF Process
    <3>4. InAir' /\ InBox' /\ InCopy'
      BY <2>9 DEF Process
    <3> QED
      BY <3>2, <3>3, <3>4
  <2>10. CASE Polled
    BY <2>10 DEF Polled, readerVars
  <2>11. CASE UNCHANGED vars
    BY <2>1, <2>11 DEF vars, dataVars, readerVars
  <2> QED
    BY <2>2, <2>3, <2>4, <2>5, <2>6, <2>7, <2>8, <2>9, <2>10, <2>11 DEF Next
<1> QED
  BY <1>1, <1>2, TypesCorrect, PTL DEF Spec

\* When nothing is under way, the console has seen the newest report, unless
\* that very report was dropped.
THEOREM OnlyTheTakenAreLost == Spec => []NothingElseLost
<1>1. Conveyed => NothingElseLost
  BY DEF Conveyed, InUsb, Shown, NothingElseLost
<1> QED
  BY <1>1, WhereTheNewestIs, PTL
=============================================================================
