------------------------------- MODULE BtLink -------------------------------
(***************************************************************************)
(* A wireless controller over Bluetooth LE: the transmitter (bt.cpp) sends *)
(* its report whenever it changes, the receiver (bt_rx.cpp) finds it by    *)
(* its address, pairs, asks for its console type, subscribes to its        *)
(* reports and passes the latest one through a one-place mailbox           *)
(* (pico/main.cpp) to the loop that answers the console.  BTstack runs in  *)
(* interrupts of that loop; BTstack, the radio and the console are         *)
(* external.                                                               *)
(***************************************************************************)
EXTENDS Naturals, Sequences

CONSTANTS
  Inputs,        \* what the user can hold
  GuideInputs,   \* inputs with the guide button, which differ from the others in more
  TxTypes,       \* the console types the transmitter may have been configured for
  RxTypes,       \* those the receiver may start with
  MaxAir,        \* notifications BTstack has room for
  LossPhases,    \* requests of the receiver during which the link can break
  MaxFaults,     \* bound: lost links, failed connections, pairings and subscriptions
  MaxChanges     \* bound: changes of what is held

ASSUME BtAssumption ==
  /\ LossPhases \subseteq {"none", "pair", "query", "hids"}
  /\ {MaxAir, MaxFaults, MaxChanges} \subseteq Nat
  /\ GuideInputs \subseteq Inputs /\ {"none", "keystroke"} \cap Inputs = {}

VARIABLES
  app_state, timer,    \* bt_rx.cpp: the state, and which timeout connection_timer is set to
  request,             \* what the receiver has asked BTstack for and awaits
  cancelled,           \* BTstack may still report an attempt that was cancelled
  link,                \* the two are connected
  con_handle,          \* bt.cpp: the receiver has subscribed
  txType, consoleType, \* of the transmitter and of the receiver
  held, last_bt,       \* what the user holds, and last_report_bt
  air,                 \* notifications on their way
  received, box,       \* ble_rx_report_received and the two halves of ble_rx_report
  reader, copied, input,   \* who reads the mailbox, how many halves so far, and its copy
  guide,               \* lastXboxOneGuide
  last_usb, endpoint,  \* last_report_usb, and what awaits the console's poll
  view,                \* the report the console has seen last
  taken,               \* history: the newest report was dropped
  misled,              \* history: the receiver took a failure for a success, or for nothing
  faults, changes      \* counters of the bounds

linkVars == <<app_state, timer, request, cancelled, link, con_handle, txType, consoleType,
              misled, faults>>
readerVars == <<reader, copied, input, guide>>
dataVars == <<held, last_bt, air, received, box, readerVars, last_usb, endpoint, view, taken,
              changes>>
vars == <<linkVars, dataVars>>

None == "none"
Whole(v) == <<v, v>>
Keystroke == Whole("keystroke")
Reports == {<<v, w>> : v, w \in Inputs \cup {None}}

Init ==
  /\ app_state = "W4_WORKING" /\ timer = "off" /\ request = "none"
  /\ cancelled = FALSE /\ link = FALSE /\ con_handle = FALSE
  /\ txType \in TxTypes /\ consoleType \in RxTypes
  /\ held \in Inputs /\ last_bt = None /\ air = <<>>
  /\ received = FALSE /\ box = Whole(None) /\ reader = "nobody"
  /\ copied = 0 /\ input = Whole(None) /\ guide = FALSE
  /\ last_usb = Whole(None) /\ endpoint = <<>> /\ view = Whole(None)
  /\ taken = FALSE /\ misled = FALSE /\ faults = 0 /\ changes = 0

-----------------------------------------------------------------------------
(* The receiver's connection, bt_rx.cpp. *)

\* hog_connect: ask for a connection, and give it ten seconds.
HogConnect ==
  /\ timer' = "connect" /\ app_state' = "W4_CONNECTED" /\ request' = "connect"

\* packet_handler, BTSTACK_EVENT_STATE.
Working ==
  /\ app_state = "W4_WORKING"
  /\ HogConnect
  /\ UNCHANGED <<cancelled, link, con_handle, txType, consoleType, misled, faults, dataVars>>

\* hog_connection_timeout (the attempt is cancelled first) and hog_reconnect_timeout.
Timeout ==
  /\ timer # "off"
  /\ cancelled' = (timer = "connect")
  /\ HogConnect
  /\ UNCHANGED <<link, con_handle, txType, consoleType, misled, faults, dataVars>>

\* packet_handler, HCI_SUBEVENT_LE_CONNECTION_COMPLETE: connected.
ConnectionComplete ==
  /\ request = "connect"
  /\ link' = TRUE /\ cancelled' = FALSE
  /\ IF app_state = "W4_CONNECTED"
       THEN timer' = "off" /\ app_state' = "W4_ENCRYPTED" /\ request' = "pair"
       ELSE request' = "none" /\ UNCHANGED <<timer, app_state>>
  /\ UNCHANGED <<con_handle, txType, consoleType, misled, faults, dataVars>>

\* The same event of an attempt that failed or was cancelled.  Its status is not read:
\* the timer is removed, and the pairing requested of a handle nobody has, which no event
\* answers.
ConnectionFailed ==
  /\ \/ cancelled /\ cancelled' = FALSE /\ UNCHANGED <<request, faults>>
     \/ /\ request = "connect" /\ request' = "none"
        /\ faults < MaxFaults /\ faults' = faults + 1
        /\ UNCHANGED cancelled
  /\ IF app_state = "W4_CONNECTED"
       THEN timer' = "off" /\ app_state' = "W4_ENCRYPTED" /\ misled' = TRUE
       ELSE UNCHANGED <<timer, app_state, misled>>
  /\ UNCHANGED <<link, con_handle, txType, consoleType, dataVars>>

\* sm_packet_handler, SM_EVENT_PAIRING_COMPLETE: success; one of the three errors it
\* knows, which BTstack also reports when the link is gone; or another, and nothing is
\* done.
PairingComplete ==
  /\ request = "pair"
  /\ \/ /\ link
        /\ app_state' = "W4_HID_CLIENT_CONNECTED" /\ request' = "query"
        /\ UNCHANGED <<timer, misled, faults>>
     \/ /\ link => faults < MaxFaults
        /\ faults' = IF link THEN faults + 1 ELSE faults
        /\ timer' = "reconnect" /\ request' = "none"
        /\ UNCHANGED <<app_state, misled>>
     \/ /\ link /\ faults < MaxFaults /\ faults' = faults + 1
        /\ request' = "none" /\ misled' = TRUE
        /\ UNCHANGED <<app_state, timer>>
  /\ UNCHANGED <<cancelled, link, con_handle, txType, consoleType, dataVars>>

\* reset_usb of the receiver: the type is kept, the rest starts from nothing.
Reboot ==
  /\ app_state' = "W4_WORKING" /\ timer' = "off" /\ request' = "none"
  /\ cancelled' = FALSE /\ link' = FALSE /\ con_handle' = FALSE
  /\ air' = <<>> /\ received' = FALSE /\ box' = Whole(None)
  /\ reader' = "nobody" /\ copied' = 0 /\ input' = Whole(None) /\ guide' = FALSE
  /\ last_usb' = Whole(None) /\ endpoint' = <<>> /\ view' = Whole(None)
  /\ taken' = TRUE /\ misled' = FALSE

\* handle_gatt_client_event, PNP_ID: the transmitter's type, of another value, restarts
\* the receiver as that type.  DEVICE_INFORMATION_DONE: subscribe; without a link
\* hids_client_connect fails at once, which nobody looks at.
DeviceInformation ==
  /\ request = "query"
  /\ IF link /\ txType # consoleType
       THEN /\ consoleType' = txType /\ Reboot
            /\ UNCHANGED <<held, last_bt, changes>>
       ELSE /\ request' = IF link THEN "hids" ELSE "none"
            /\ misled' = (misled \/ ~link)
            /\ UNCHANGED <<app_state, timer, cancelled, link, con_handle, consoleType, dataVars>>
  /\ UNCHANGED <<txType, faults>>

\* handle_gatt_client_event, HID_SERVICE_CONNECTED: the receiver has subscribed, or an
\* error, which BTstack also reports when the link is gone: disconnect and try again.
HidConnected ==
  /\ request = "hids" /\ request' = "none"
  /\ \/ /\ link
        /\ app_state' = "READY" /\ con_handle' = TRUE
        /\ UNCHANGED <<timer, link, faults>>
     \/ /\ link => faults < MaxFaults
        /\ faults' = IF link THEN faults + 1 ELSE faults
        /\ link' = FALSE /\ timer' = "reconnect"
        /\ UNCHANGED <<app_state, con_handle>>
  /\ UNCHANGED <<cancelled, txType, consoleType, misled, dataVars>>

\* Broken variant: nothing is tried after a connection that worked.
DisconnectedQuietly ==
  /\ IF app_state = "READY"
       THEN app_state' = "W4_TIMEOUT_THEN_RECONNECT"
       ELSE UNCHANGED app_state
  /\ UNCHANGED timer

\* packet_handler, HCI_EVENT_DISCONNECTION_COMPLETE: only a receiver that was ready
\* takes notice.
Disconnected ==
  IF app_state = "READY"
    THEN app_state' = "W4_TIMEOUT_THEN_RECONNECT" /\ timer' = "reconnect"
    ELSE UNCHANGED <<app_state, timer>>

\* The radio: the link breaks, both sides are told, what was on its way is lost.
LinkLost ==
  /\ link /\ request \in LossPhases /\ faults < MaxFaults
  /\ link' = FALSE /\ con_handle' = FALSE /\ faults' = faults + 1
  /\ Disconnected
  /\ air' = <<>> /\ taken' = (taken \/ air # <<>>)
  /\ UNCHANGED <<request, cancelled, txType, consoleType, misled, held, last_bt, received, box,
                 readerVars, last_usb, endpoint, view, changes>>

-----------------------------------------------------------------------------
(* The transmitter. *)

\* The user.
Change ==
  /\ changes < MaxChanges /\ changes' = changes + 1
  /\ held' \in Inputs \ {held}
  /\ UNCHANGED <<linkVars, last_bt, air, received, box, readerVars, last_usb, endpoint, view,
                 taken>>

\* Broken variant: a report BTstack has no room for is queued all the same.
CanSendAlways == con_handle

\* send_report: only to a receiver that has subscribed, and if BTstack has room.
CanSend == con_handle /\ Len(air) < MaxAir

\* tick_bluetooth and tick_inputs: a report that has changed is remembered as sent,
\* whether or not it can be.
TxTick ==
  /\ held # last_bt /\ last_bt' = held
  /\ air' = IF CanSend THEN Append(air, held) ELSE air
  /\ taken' = ~CanSend
  /\ UNCHANGED <<linkVars, held, received, box, readerVars, last_usb, endpoint, view, changes>>

-----------------------------------------------------------------------------
(* The receiver's mailbox and loop. *)

\* bluetooth_report_set, in an interrupt of the loop.
ReportSet ==
  /\ air # <<>>
  /\ received' = TRUE /\ box' = Whole(Head(air)) /\ air' = Tail(air)
  /\ UNCHANGED <<linkVars, held, last_bt, readerVars, last_usb, endpoint, view, taken, changes>>

\* tick_inputs of the receiver, called by tick_usb for the console ("usb", the endpoint
\* is ready), by tick with no buffer ("null", the endpoint is not, or nothing was new),
\* and for the console's GET_REPORT ("get"): a report in the mailbox is read,
\* bluetooth_report_read.
Take(purpose) ==
  /\ reader = "nobody" /\ received
  /\ purpose = "usb" => endpoint = <<>>
  /\ received' = FALSE /\ reader' = purpose
  /\ UNCHANGED <<linkVars, held, last_bt, air, box, copied, input, guide, last_usb, endpoint,
                 view, taken, changes>>

CopyFirst ==
  /\ reader # "nobody" /\ copied = 0 /\ copied' = 1
  /\ input' = <<box[1], input[2]>>
  /\ UNCHANGED <<linkVars, held, last_bt, air, received, box, reader, guide, last_usb,
                 endpoint, view, taken, changes>>

\* Broken variant: the flag is cleared after the copy.
CopySecondClearing ==
  /\ copied = 1 /\ copied' = 2
  /\ input' = <<input[1], box[2]>> /\ received' = FALSE
  /\ UNCHANGED <<linkVars, held, last_bt, air, box, reader, guide, last_usb, endpoint, view,
                 taken, changes>>

CopySecond ==
  /\ copied = 1 /\ copied' = 2
  /\ input' = <<input[1], box[2]>>
  /\ UNCHANGED <<linkVars, held, last_bt, air, received, box, reader, guide, last_usb,
                 endpoint, view, taken, changes>>

\* An Xbox One is told of the guide button, of either half of the copy, by a keystroke.
GuideMoves == consoleType = "XBOXONE" /\ (input[1] \in GuideInputs) # guide

\* The report goes to the endpoint if it differs from the last, unless a keystroke takes
\* its place; into the answer to GET_REPORT, after which the endpoint will not carry it;
\* or, without a buffer, to address 0, so that the guide button that is read back there
\* is anything.  (That these writes hit nothing else is assumed.)
Process ==
  /\ copied = 2 /\ copied' = 0 /\ reader' = "nobody"
  /\ \/ /\ reader = "usb" /\ GuideMoves /\ guide' = ~guide
        /\ endpoint' = <<Keystroke>> /\ UNCHANGED last_usb
     \/ /\ reader = "usb" /\ ~GuideMoves /\ UNCHANGED guide
        /\ IF input # last_usb
             THEN last_usb' = input /\ endpoint' = <<input>>
             ELSE UNCHANGED <<last_usb, endpoint>>
     \/ /\ reader # "usb"
        /\ guide' \in IF reader = "null" /\ consoleType = "XBOXONE" THEN BOOLEAN
                      ELSE {IF GuideMoves THEN ~guide ELSE guide}
        /\ UNCHANGED <<last_usb, endpoint>>
  /\ taken' = (taken \/ ((reader # "usb" \/ GuideMoves) /\ ~received /\ air = <<>>))
  /\ UNCHANGED <<linkVars, held, last_bt, air, received, box, input, view, changes>>

\* The console polls the endpoint.
Polled ==
  /\ endpoint # <<>>
  /\ view' = IF endpoint[1] = Keystroke THEN view ELSE endpoint[1]
  /\ endpoint' = <<>>
  /\ UNCHANGED <<linkVars, held, last_bt, air, received, box, readerVars, last_usb, taken,
                 changes>>

Next ==
  \/ Working \/ Timeout \/ ConnectionComplete \/ ConnectionFailed \/ PairingComplete
  \/ DeviceInformation \/ HidConnected \/ LinkLost
  \/ Change \/ TxTick \/ ReportSet
  \/ \E purpose \in {"usb", "null", "get"} : Take(purpose)
  \/ CopyFirst \/ CopySecond \/ Process \/ Polled

\* BTstack answers what it was asked and its timers expire; loops run for ever.
Spec ==
  /\ Init /\ [][Next]_vars
  /\ WF_vars(Working) /\ WF_vars(Timeout) /\ WF_vars(ConnectionComplete)
  /\ WF_vars(PairingComplete) /\ WF_vars(DeviceInformation) /\ WF_vars(HidConnected)

-----------------------------------------------------------------------------
TypeOK ==
  /\ app_state \in {"W4_WORKING", "W4_CONNECTED", "W4_ENCRYPTED", "W4_HID_CLIENT_CONNECTED",
                    "READY", "W4_TIMEOUT_THEN_RECONNECT"}
  /\ timer \in {"off", "connect", "reconnect"}
  /\ request \in {"none", "connect", "pair", "query", "hids"}
  /\ link \in BOOLEAN /\ con_handle \in BOOLEAN /\ received \in BOOLEAN /\ taken \in BOOLEAN
  /\ cancelled \in BOOLEAN /\ misled \in BOOLEAN /\ guide \in BOOLEAN
  /\ txType \in TxTypes /\ consoleType \in RxTypes \cup TxTypes
  /\ held \in Inputs /\ last_bt \in Inputs \cup {None}
  /\ air \in Seq(Inputs) /\ Len(air) <= MaxAir
  /\ {box, input, last_usb, view} \subseteq Reports
  /\ endpoint \in Seq(Reports \cup {Keystroke}) /\ Len(endpoint) <= 1
  /\ reader \in {"nobody", "usb", "null", "get"} /\ copied \in 0..2
  /\ faults \in 0..MaxFaults /\ changes \in 0..MaxChanges

\* When nothing is under way, the console has seen the report the transmitter sent
\* last, whole - although reports overwrite each other in the mailbox while it is read,
\* and one read then may be mixed from two - unless that very report found no
\* subscriber or no room, was on a link that broke or in a receiver that restarted, was
\* read by a tick without a buffer or by a GET_REPORT, or gave way to the keystroke that
\* tells an Xbox One of the guide button: then nothing sends the rest of it.
NothingElseLost ==
  /\ ~taken /\ last_bt # None
  /\ air = <<>> /\ ~received /\ reader = "nobody" /\ endpoint = <<>>
  => view = Whole(last_bt)

\* "In case of error, disconnect and start scanning again" (bt_rx.cpp:174): after the
\* last fault the receiver is connected again, and stays so.
Reconnects == <>[](app_state = "READY" /\ link)

\* It is, but for the three failures that the code does not see: the completion of an
\* attempt that failed or was cancelled, read as a connection; a pairing that ends with
\* an error of another kind than three; a link that breaks during the query.
ReconnectsIfSeen == Reconnects \/ <>[]misled
=============================================================================
