------------------------------ MODULE PicoHost ------------------------------
(***************************************************************************)
(* The controllers plugged into the Pico's USB host port: the class driver *)
(* (xinput_host.cpp) that opens their interfaces, and the table of devices *)
(* (pico/main.cpp) from which inputs are read and to which outputs and     *)
(* authentication are relayed.  TinyUSB is external: it gives a device the *)
(* lowest free address, opens and mounts its interfaces in one go, and     *)
(* tells the driver when the device has gone.                              *)
(***************************************************************************)
EXTENDS Naturals, Sequences, FiniteSetsExt

CONSTANTS
  Addrs,       \* the addresses of devices: 1, and more behind a hub; TinyUSB
               \* has CFG_TUH_DEVICE_MAX of them
  DeviceMax,   \* CFG_TUH_DEVICE_MAX, the size of usb_host_devices
  Kinds,       \* the kinds of devices there are
  MaxPlugs,    \* bound: devices plugged in
  Format       \* the console types handle_rumble knows a report for

\* No device has more than three interfaces, and inst_count is a byte.
ASSUME HostAssumption ==
  /\ DeviceMax \in Nat /\ Addrs \subseteq 1..DeviceMax /\ 1 \in Addrs
  /\ Kinds \subseteq {"x360", "xone", "ps4", "ps3", "hid"}
  /\ MaxPlugs \in Nat /\ 3 * MaxPlugs <= 255

VARIABLES
  bus,         \* per address: what is plugged in
  plugs,       \* devices plugged in so far
  slots,       \* _xinputh_dev[].instances, those opened
  inst_count,  \* _xinputh_dev[0].inst_count; no other is ever written
  armed,       \* addresses whose IN endpoint has a transfer under way
  busy,        \* addresses whose OUT endpoint has one
  devices,     \* usb_host_devices, up to total_usb_host_devices, which nothing holds
               \* to the size of the array; own: the report kept is this device's
  xone, x360, ps4,   \* xone_dev_addr, x360_dev_addr, ps4_dev_addr; 0 is none
  outputs,     \* reports and requests for controllers of the last handler
  lost         \* history: addresses a device was unplugged from

hostVars == <<bus, plugs, slots, inst_count, armed, busy, devices, xone, x360,
              ps4, outputs, lost>>

\* The interfaces of a device, in the order of its descriptors: the type the
\* driver gives each, whether it has endpoints, and whether it is the one with
\* the subtype (an Xbox 360 controller's audio and security interfaces are not).
Itf(type, ep, sub) == [type |-> type, ep |-> ep, sub |-> sub]

Interfaces(k) ==
  CASE k = "x360" -> <<Itf("x360", TRUE, TRUE), Itf("x360", TRUE, FALSE), Itf("x360", FALSE, FALSE)>>
    [] k = "xone" -> <<Itf("xone", TRUE, FALSE)>>
    [] k = "ps4"  -> <<Itf("ps4", TRUE, FALSE)>>
    [] OTHER      -> <<Itf("unknown", TRUE, FALSE)>>

\* get_usb_device_type_for: what the vendor and product id alone tell.
TypeByIds(k) == IF k = "ps3" THEN "ps3" ELSE "none"

\* The console type the table should hold for a device, "none" for no entry.
Expected(k) == IF k = "hid" THEN "none" ELSE k

\* total_usb_host_devices
total == Len(devices)

HostInit ==
  /\ bus = [a \in Addrs |-> "none"] /\ plugs = 0
  /\ slots = [a \in Addrs |-> <<>>] /\ inst_count = 0
  /\ armed = {} /\ busy = {}
  /\ devices = <<>>
  /\ xone = 0 /\ x360 = 0 /\ ps4 = 0
  /\ outputs = {} /\ lost = {}

-----------------------------------------------------------------------------
(* Sending to a controller. *)

\* tuh_xinput_mounted(a, 0)
Mounted(a) == a \in Addrs /\ slots[a] # <<>> /\ slots[a][1].ep

\* send_report_to_controller: a report for no device, one that is not mounted,
\* or an endpoint that is busy goes nowhere, and nobody is told.
Accepts(a) == Mounted(a) /\ a \notin busy

\* tuh_xinput_umount_cb: one device has gone, and the table forgets all of them.
Umount(a) ==
  /\ xone' = IF xone = a THEN 0 ELSE xone
  /\ x360' = IF x360 = a THEN 0 ELSE x360
  /\ ps4' = IF ps4 = a THEN 0 ELSE ps4
  /\ devices' = <<>>

-----------------------------------------------------------------------------
(* Mounting. *)

\* Broken variant: every interface of an Xbox 360 controller is an entry.
EntryTypeEvery(k, itf) == IF itf.type = "unknown" THEN TypeByIds(k) ELSE itf.type

\* tuh_xinput_mount_cb for one interface: the type of the entry it appends, if any.
EntryType(k, itf) ==
  CASE itf.type = "x360" -> IF itf.sub THEN "x360" ELSE "none"
    [] itf.type = "unknown" -> TypeByIds(k)
    [] OTHER -> itf.type

\* The positions of the interfaces of a device that become entries of the table, and
\* those interfaces in order.
Entered(k) == {j \in 1..Len(Interfaces(k)) : EntryType(k, Interfaces(k)[j]) # "none"}

Entries(k) ==
  [n \in 1..Cardinality(Entered(k)) |->
     Interfaces(k)[CHOOSE j \in Entered(k) : Cardinality({h \in Entered(k) : h <= j}) = n]]

\* xinputh_open for each interface, then xinputh_set_config for each.  Only the
\* Xbox interfaces start a transfer on their IN endpoint.  The report a slot of
\* the table holds is not cleared when the slot is given to another device.  The
\* entry is written at usb_host_devices[total_usb_host_devices] whether the array
\* reaches that far or not; what is written past it is taken to stay there.
Plug(a, k) ==
  LET new == Entries(k) IN
  /\ bus[a] = "none" /\ plugs < MaxPlugs
  /\ \A b \in Addrs : b < a => bus[b] # "none"
  /\ plugs' = plugs + 1
  /\ bus' = [bus EXCEPT ![a] = k]
  /\ slots' = [slots EXCEPT ![a] = Interfaces(k)]
  /\ inst_count' = inst_count + Len(Interfaces(k))
  /\ armed' = IF k \in {"x360", "xone"} THEN armed \cup {a} ELSE armed
  /\ devices' = devices \o [n \in 1..Len(new) |->
                             [addr |-> a, type |-> EntryType(k, new[n]), own |-> FALSE]]
  /\ xone' = IF k = "xone" THEN a ELSE xone
  /\ x360' = IF k = "x360" THEN a ELSE x360
  /\ ps4' = IF k = "ps4" /\ ps4 = 0 THEN a ELSE ps4
  /\ busy' = IF k = "xone" THEN busy \cup {a} ELSE busy
  /\ outputs' = {}
  /\ UNCHANGED lost

\* xinputh_close: the record of the device is cleared, after one callback for
\* each of its interfaces - as counted, so for none but the device at address 1.
Unplug(a) ==
  /\ bus[a] # "none"
  /\ bus' = [bus EXCEPT ![a] = "none"]
  /\ slots' = [slots EXCEPT ![a] = <<>>]
  /\ armed' = armed \ {a} /\ busy' = busy \ {a}
  /\ IF a = 1 /\ inst_count > 0 THEN Umount(a) ELSE UNCHANGED <<xone, x360, ps4, devices>>
  /\ inst_count' = IF a = 1 THEN 0 ELSE inst_count
  /\ lost' = lost \cup {a} /\ outputs' = {}
  /\ UNCHANGED plugs

\* The device has taken the report on its OUT endpoint.
OutDone(a) ==
  /\ a \in busy
  /\ busy' = busy \ {a}
  /\ UNCHANGED <<bus, plugs, slots, inst_count, armed, devices, xone, x360, ps4,
                 outputs, lost>>

-----------------------------------------------------------------------------
(* Inputs and outputs. *)

\* tuh_xinput_report_received_cb: the report goes into the first entry with the
\* device's address, except an Xbox One report that is not an input.
StoreReport(a, input) ==
  LET mine == {i \in 1..total : devices[i].addr = a} IN
  /\ a \in armed
  /\ devices' = IF mine = {} \/ (devices[Min(mine)].type = "xone" /\ ~input) THEN devices
                ELSE [devices EXCEPT ![Min(mine)].own = TRUE]
  /\ UNCHANGED <<bus, plugs, slots, inst_count, armed, busy, xone, x360, ps4,
                 outputs, lost>>

\* How the report for entry i is sent and where to: send_report_to_controller is
\* given the address of the entry, transfer_with_usb_controller its index in the table.
By(i) == IF devices[i].type \in {"ps3", "ps4"} THEN "index" ELSE "address"

Destination(i) == IF By(i) = "index" THEN i - 1 ELSE devices[i].addr

\* The loop of handle_rumble and handle_player_leds: the first entry with a known
\* type gets the report and ends it, except that an Xbox One entry does not end it.
Targets(types) ==
  {i \in 1..total : /\ devices[i].type \in types
                    /\ \A j \in 1..i - 1 : devices[j].type \notin types \ {"xone"}}

Output(types) ==
  /\ outputs' = {[entry |-> devices[i], by |-> By(i), to |-> Destination(i)] : i \in Targets(types)}
  /\ busy' = busy \cup {a \in Addrs : Accepts(a) /\ \E i \in Targets(types) :
                          devices[i].type \in {"x360", "xone"} /\ devices[i].addr = a}
  /\ UNCHANGED <<bus, plugs, slots, inst_count, armed, devices, xone, x360, ps4,
                 lost>>

Rumble == Output(Format)

PlayerLeds == Output({"ps3", "ps4", "x360"})

\* controlRequest: a request of the console's authentication is passed to the
\* controller of its own type, get_device_address_for(type).
Relay(type) ==
  LET a == IF type = "x360" THEN x360 ELSE ps4 IN
  /\ outputs' = {[entry |-> [addr |-> a, type |-> type, own |-> FALSE],
                   by |-> "address", to |-> a]}
  /\ UNCHANGED <<bus, plugs, slots, inst_count, armed, busy, devices, xone, x360,
                 ps4, lost>>

-----------------------------------------------------------------------------
HostTypeOK ==
  /\ bus \in [Addrs -> Kinds \cup {"none"}]
  /\ plugs \in 0..MaxPlugs
  /\ \A a \in Addrs : slots[a] = IF bus[a] = "none" THEN <<>> ELSE Interfaces(bus[a])
  /\ inst_count \in 0..3 * MaxPlugs
  /\ armed \subseteq Addrs /\ busy \subseteq Addrs /\ lost \subseteq Addrs
  /\ devices \in Seq([addr : Addrs, type : Kinds, own : BOOLEAN])
  /\ {xone, x360, ps4} \subseteq Addrs \cup {0}

\* As long as no device behind a hub (at an address other than 1) was unplugged,
\* the table tells the truth and stays in its array: every entry is a controller that
\* is plugged in, no controller has two entries, a controller named by xone_dev_addr,
\* x360_dev_addr or ps4_dev_addr is one of that type, and as long as nothing at all
\* was unplugged every controller has its entry.  What is sent to a controller reaches
\* one of the type it was made for, but for the LEDs and the rumble of PS3 and PS4
\* controllers: sent to the index of the entry, they never reach the entry's own.
KnownDevices ==
  lost \subseteq {1} =>
    /\ total <= DeviceMax
    /\ \A i \in 1..total : Expected(bus[devices[i].addr]) = devices[i].type
    /\ \A i, j \in 1..total : devices[i].addr = devices[j].addr => i = j
    /\ xone # 0 => bus[xone] = "xone"
    /\ x360 # 0 => bus[x360] = "x360"
    /\ ps4 # 0 => bus[ps4] = "ps4"
    /\ \A o \in outputs :
         IF o.by = "index" THEN o.to # o.entry.addr
         ELSE o.to = o.entry.addr /\ (o.to # 0 => bus[o.to] = o.entry.type)
    /\ lost = {} => \A a \in Addrs : Expected(bus[a]) # "none" =>
                      \E i \in 1..total : devices[i].addr = a
=============================================================================
