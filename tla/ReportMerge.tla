----------------------------- MODULE ReportMerge -----------------------------
(***************************************************************************)
(* How tick_inputs merges several controllers into the one report for the  *)
(* console: the loop over the transmitters of an RF receiver               *)
(* (convert_ps3_to_type) and the loop over the devices of the USB host     *)
(* port (inputs/usb_host.h).  The report is blanked, then every controller *)
(* is added in turn; the order decides who wins an axis.                   *)
(*                                                                         *)
(* A behaviour is one call: Init picks the build, the console and what the *)
(* controllers hold; each Step adds one; Overwrite starts a receiver's     *)
(* second loop.  The inputs are those that move one control to an end of   *)
(* its range, against a second controller that is at rest, all zero (a     *)
(* transmitter nobody has heard of) or all held.                           *)
(***************************************************************************)
EXTENDS Ps3Convert, UsbHostConvert, Sequences

CONSTANTS
    Sources,    \* which of the two loops: a subset of {"rf", "usb"}
    Kinds,      \* the kinds of controller, a subset of Devices
    Strays      \* what a hat read past its table, or through an unset
                \* pointer, can give: a set of subsets of Hat
ASSUME MergeAssumption == /\ Sources \subseteq {"rf", "usb"}
                          /\ Kinds \subseteq Devices
                          /\ Strays \subseteq SUBSET Hat

VARIABLES
    build,      \* [source, device, console]
    hosts,      \* what each controller is (USB); RF transmitters are all alike
    reports,     \* their reports, in the order of the loop
    out,        \* the report for the console
    next,       \* the controller whose turn it is
    stray,      \* what this build finds past the table
    earlier     \* the buttons in `out` before the call
mergeVars == <<build, hosts, reports, out, next, stray, earlier>>

Centred0 == Sticks \cup Tables \cup Knobs
            \cup {"tilt", "tilt_pc", "whammy", "strumBar", "pickup"}

\* Where a control stands when nobody touches it.
Centre(range, x) ==
    CASE x = "accel" -> 512
      [] x \in Knobs /\ range = Bits10 -> 512
      [] x \in Centred0 /\ range = Byte -> 128
      [] OTHER -> 0

-----------------------------------------------------------------------------
(* The inputs.                                                              *)

Low(range) == IF range = Int16 THEN -32768 ELSE 0
High(range) == CASE range = Byte -> 255 [] range = Bits4 -> 15
                 [] range = Bits10 -> 1023 [] range = Int16 -> 32767
                 [] range = Uint16 -> 65535 [] OTHER -> 1

PadReport(held, axis) == [held |-> held, axis |-> axis]
AtRest(ranges) == PadReport({}, [x \in DOMAIN ranges |-> Centre(ranges[x], x)])
AllZero(ranges) == PadReport({}, [x \in DOMAIN ranges |-> 0])
AllHeld(buttons, ranges) ==
    PadReport(buttons, [x \in DOMAIN ranges |-> High(ranges[x])])
\* Both ends, and for what is wider than a byte the largest byte.
Ends(range) == {Low(range), High(range)}
               \cup IF range = Bits10 THEN {255} ELSE {}

Singles(buttons, ranges) ==
    {PadReport({b}, AtRest(ranges).axis) : b \in buttons}
    \cup UNION {{PadReport({}, [AtRest(ranges).axis EXCEPT ![x] = v]) :
                    v \in Ends(ranges[x])} : x \in DOMAIN ranges}
Wholes(buttons, ranges) ==
    {AtRest(ranges), AllZero(ranges), AllHeld(buttons, ranges)}

\* A transmitter's report, with its hat; 8 is its rest.
Sent(r, hat) == [held |-> r.held, axis |-> r.axis, hat |-> hat]
RfSingles(device) ==
    {Sent(r, 8) : r \in Singles(Ps3Buttons(device), Ps3Axes(device))}
    \cup {Sent(AtRest(Ps3Axes(device)), h) : h \in 0..8}
RfWholes(device) ==
    {Sent(AtRest(Ps3Axes(device)), 8), Sent(AllZero(Ps3Axes(device)), 0),
     Sent(AllHeld(Ps3Buttons(device), Ps3Axes(device)), 5)}

\* What this file reads of a host's report.
Read(device, host, console) ==
    {p[1] : p \in HostButtons(device, host, console, PadReport({}, <<>>))
            \cup HostButtons(device, host, console, PadReport({"solo"}, <<>>))}
ReadRanges(device, host) ==
    [x \in {m.from : m \in HostMoves(device, host)} |-> HostRange(host, x)]
UsbSingles(device, host, console) ==
    Singles(Read(device, host, console), ReadRanges(device, host))
UsbWholes(device, host, console) ==
    Wholes(Read(device, host, console), ReadRanges(device, host))

-----------------------------------------------------------------------------
(* The blank report.                                                        *)

\* The PS3 gamepad of a receiver is centred first and cleared after.  The
\* fields of the PS3 instruments lie over the sticks, which are centred.
BlankAxis(source, device, console, x) ==
    LET range == Axes(device, console)[x]
    IN  CASE source = "rf" /\ device = "gamepad" /\ console = "ps3" -> 0
          [] console = "xbox360" /\ x = "whammy" -> -32768
          [] console = "ps3" /\ x \in {"slider", "pickup"} -> 128
          [] console = "xboxone" \/ (console = "xbox360" /\ x # "whammy") -> 0
          [] OTHER -> Centre(range, x)

\* The drums of Guitar Hero say who they are with leftThumbClick.
BlankHeld(source, device, console) ==
    IF source = "usb" /\ device = "gh_drums" /\ console = "xbox360"
    THEN {"leftThumbClick"} ELSE {}

\* A receiver does not clear its PS4 report: the buttons of the last call stay.
Uncleared(b) == b.source = "rf" /\ b.console = "ps4"

Blank(b, before) ==
    [held |-> BlankHeld(b.source, b.device, b.console)
              \cup (IF Uncleared(b) THEN before ELSE {}),
     axis |-> [x \in DOMAIN Axes(b.device, b.console) |->
                  BlankAxis(b.source, b.device, b.console, x)]]

\* Instruments that have no report for the console, or whose build of the
\* USB loop does not compile (Rock Band drums); a live guitar's Xbox One
\* report does not include that loop.
Builds ==
    {b \in [source : Sources, device : Kinds,
            console : {"xbox360", "xboxone", "ps3", "ps4", "universal"}] :
        /\ b.console \in Consoles(b.device)
        /\ b.source = "usb" => /\ b.device # "rb_drums"
                               /\ b.console # "universal"
                               /\ ~ (b.device = "live" /\ b.console = "xboxone")}

InitRf ==
    /\ build.source = "rf"
    /\ hosts = <<>>
    /\ \E r \in RfSingles(build.device), w \in RfWholes(build.device) :
          reports \in {<<r, w>>, <<w, r>>}

InitUsb ==
    /\ build.source = "usb"
    /\ \E h \in Hosts(build.device), g \in Hosts(build.device) :
          \E r \in UsbSingles(build.device, h, build.console),
             w \in UsbWholes(build.device, g, build.console) :
                \/ hosts = <<h, g>> /\ reports = <<r, w>>
                \/ hosts = <<g, h>> /\ reports = <<w, r>>

MergeInit ==
    /\ build \in Builds
    /\ InitRf \/ InitUsb
    /\ stray \in Strays
    /\ earlier \in IF Uncleared(build) THEN {{}, {"start"}} ELSE {{}}
    /\ out = Blank(build, earlier)
    /\ next = 1

-----------------------------------------------------------------------------
(* One turn of the loop.                                                    *)

Step ==
    /\ next <= Len(reports)
    /\ out' = IF build.source = "rf"
              THEN ConvertPs3(out, reports[next], build.device, build.console,
                              stray)
              ELSE ConvertHost(out, reports[next], build.device, hosts[next],
                               build.console, stray)
    /\ next' = next + 1
    /\ UNCHANGED <<build, hosts, reports, stray, earlier>>

Merged == next > Len(reports)

\* The block for the PS3 asks for `!updateHIDSequence`, where the wired build asks for
\* `!updateSequence`: on an Xbox One a receiver falls into it, clears the report it
\* has just built and copies the transmitters' own reports over it.
Overwrite ==
    /\ Merged /\ build.source = "rf" /\ build.console = "xboxone"
    /\ build' = [build EXCEPT !.console = "universal"]
    /\ out' = Blank(build', {})
    /\ next' = 1
    /\ UNCHANGED <<hosts, reports, stray, earlier>>

MergeNext == Step \/ Overwrite
MergeSpec == MergeInit /\ [][MergeNext]_mergeVars

-----------------------------------------------------------------------------
(* What merging must give, said from the layouts alone.                     *)

Controllers == 1..Len(reports)

\* A PS3 report for an instrument is copied whole and live guitars assign some
\* frets: only the last transmitter counts there.
LastOnly(b) ==
    LET on(device, console) == build.device = device /\ build.console = console
    IN  /\ build.source = "rf"
        /\ \/ Universal(build.device, build.console)
           \/ on("live", "ps4") /\ b \in {"white2", "white3"}
           \/ on("live", "xboxone") /\ b \in Shoulders
           \/ on("rb_drums", "xbox360") /\ b \in {"padFlag", "cymbalFlag"}
Counted(b) == IF LastOnly(b) THEN {Len(reports)} ELSE Controllers

\* Names that stand for one another where a gamepad plays an instrument, and
\* the blue and yellow that the games swap on a PS3.
Twins == {{"x", "white1"}, {"a", "black1"}, {"b", "black2"}, {"y", "black3"},
          {"leftShoulder", "white2"}, {"rightShoulder", "white3"},
          {"rightShoulder", "back"}, {"x", "y"},
          {"x", "leftBlue"}, {"x", "rightBlue"}, {"a", "leftGreen"},
          {"a", "rightGreen"}, {"b", "leftRed"}, {"b", "rightRed"}}
         \cup {{p[1], p[2]} : p \in NeckFrets(TRUE) \cup NeckFrets(FALSE)}

\* What convert_ps3_to_type does not carry although both reports name it:
\* among others the orange fret of a guitar on an Xbox 360.
NotCarried(b) ==
    LET on(devices, consoles) == /\ build.source = "rf"
                                 /\ build.device \in devices
                                 /\ build.console \in consoles
    IN  CASE b = "leftShoulder" ->
                on({"gh_guitar", "rb_guitar", "gh_drums", "rb_drums"}, {"xbox360"})
          [] b = "rightShoulder" ->
                on({"gh_guitar", "gh_drums"}, {"xbox360"})
                \/ on({"rb_drums"}, {"xboxone"})
          [] b = "solo" -> on({"rb_guitar"}, {"xbox360", "xboxone"})
          [] b = "leftThumbClick" -> on({"live"}, {"xbox360", "xboxone"})
          [] b = "capture" -> on({"live"}, {"ps4"})
          [] b = "guide" -> on({"turntable"}, {"xbox360"})
          [] OTHER -> FALSE

Directions(hat) ==
    (IF hat \in {0, 1, 7} THEN {"dpadUp"} ELSE {})
    \cup (IF hat \in 1..3 THEN {"dpadRight"} ELSE {})
    \cup (IF hat \in 3..5 THEN {"dpadDown"} ELSE {})
    \cup (IF hat \in 5..7 THEN {"dpadLeft"} ELSE {})

\* The directions a controller holds, and whether its hat can be misread.
Held(i) == IF build.source = "rf"
           THEN reports[i].held \cup Directions(reports[i].hat)
           ELSE IF StrayHat(hosts[i]) THEN reports[i].held \ Hat
           ELSE reports[i].held
Misread(i) == IF build.source = "rf"
              THEN reports[i].hat = 8 /\ ~ Universal(build.device, build.console)
              ELSE StrayHat(hosts[i])

\* Every button a controller holds is in the report for the console, and no
\* button is there that no controller holds: with every kind of controller,
\* for every console, whatever the order of the controllers (the ORs of
\* convert_ps3_to_type and the COPY_BUTTONs of usb_host.h), each time a loop over the
\* controllers has ended.
MergedButtons ==
    Merged =>
    \A b \in Buttons(build.device, build.console) :
        /\ (\E i \in Counted(b) : b \in Held(i)) /\ ~ NotCarried(b)
              => b \in out.held
        /\ b \in out.held =>
              \/ \E i \in Counted(b) :
                    \/ \E c \in Held(i) : b = c \/ {b, c} \in Twins
                    \/ Misread(i) /\ b \in stray
              \/ b \in Blank(build, earlier).held

Side(v, centre) == IF v > centre THEN 1 ELSE IF v < centre THEN -1 ELSE 0

Origin(x) == IF x = "tilt" THEN "tilt_pc" ELSE x
InputRange(i, x) ==
    IF build.source = "rf" THEN Ps3Axes(build.device)[x]
    ELSE HostRange(hosts[i], x)
Deflection(i, x) ==
    Side(reports[i].axis[x], Centre(InputRange(i, x), x))

\* The sticks of a PlayStation pad on the USB port are written even at rest:
\* COPY_NORMAL_PS3 never passes 0 to `if (in)`.
Claims(i, x) ==
    \/ Deflection(i, x) # 0
    \/ build.source = "usb" /\ x \in Sticks
       /\ hosts[i].console \in {"ps3", "ps4"}
Claimants(x) ==
    {i \in IF LastOnly(x) THEN {Len(reports)} ELSE Controllers : Claims(i, x)}

\* On a 360 the velocities of two pads of the Rock Band drums are negative.
Expected(i, x) ==
    IF build.device = "rb_drums" /\ build.console = "xbox360"
       /\ x \in {"greenVelocity", "yellowVelocity"}
    THEN -Deflection(i, x) ELSE Deflection(i, x)

\* Where each axis of the report rests when nobody moves it.
Rest(x) ==
    CASE build.console = "xbox360" /\ x = "whammy" -> -32768
      [] build.console = "xboxone" -> 0
      [] build.console = "xbox360" /\ x = "pickup" -> 0
      [] OTHER -> Centre(Axes(build.device, build.console)[x], x)

\* Where this code misses: the sticks of a receiver's PS3 gamepad are cleared
\* after they are centred; a live guitar on a PS4 and the cymbals of an Xbox
\* One have no copy; the pickup of a 360 is shifted out of its byte; the knobs
\* of a turntable are ten bits but centred as eight; the ten bits of an Xbox
\* One trigger are shifted away for the other consoles.
Misses(x) ==
    LET is(source, device, console) ==
            build = [source |-> source, device |-> device, console |-> console]
    IN  \/ is("rf", "gamepad", "ps3") /\ x \in Sticks /\ Claimants(x) = {}
        \/ is("rf", "live", "ps4")
        \/ is("rf", "rb_drums", "xboxone") /\ x \in Cymbals
        \/ is("rf", "rb_guitar", "xbox360") /\ x = "pickup"
        \/ is("rf", "turntable", "xbox360") /\ x \in Knobs
        \/ /\ build.source = "usb" /\ x \in Triggers
           /\ build.console # "xboxone"
           /\ \E i \in Controllers : hosts[i].console = "xboxone"

\* Every axis of the report stands on the side to which the last controller
\* that claims it points, and at its rest when none does: of the receivers
\* with every kind of controller and of the USB port with gamepads (the axis
\* copies of convert_ps3_to_type and usb_host.h, 23-175).
MergedAxes ==
    Merged /\ (build.source = "usb" => build.device = "gamepad") =>
    \A x \in DOMAIN out.axis :
        LET y == Origin(x)
            centre == Centre(Axes(build.device, build.console)[x], x)
            last == CHOOSE i \in Claimants(y) : \A j \in Claimants(y) : j <= i
        IN  \/ Misses(x)
            \/ ~ \E i \in Controllers : y \in DOMAIN reports[i].axis
            \/ Claimants(y) = {} /\ out.axis[x] = Rest(x)
            \/ /\ Claimants(y) # {}
               /\ Side(out.axis[x], centre) = Expected(last, y)
=============================================================================
