----------------------------- MODULE Ps3Convert -----------------------------
(***************************************************************************)
(* convert_ps3_to_type (shared_main.cpp): what an RF or Bluetooth receiver *)
(* does with the report of one transmitter, always in the PS3 layout of    *)
(* the instrument, to add it to the report for the console.                *)
(*                                                                         *)
(* Each kind of controller has, for each console, the buttons it ORs in,   *)
(* those it assigns, and the axes it copies unless they are at rest, with  *)
(* the arithmetic of the copy.                                             *)
(***************************************************************************)
EXTENDS ReportLayouts

\* The buttons that are ORed in, as pairs of a field of the PS3 report and a
\* field of the console's.
GhGuitarOrs(console) ==
    Same(Face \cup IF console = "xboxone" THEN {"leftShoulder"} ELSE {})
RbGuitarOrs(console) ==
    Same(Face \cup IF console = "xboxone" THEN {"leftShoulder"} ELSE {})
LiveOrs(console) ==
    Same({"back", "start", "guide"}) \cup
    CASE console = "ps4" ->
            Same({"black1", "black2", "black3", "white1", "leftThumbClick"})
      [] console = "xboxone" -> {<<"black1", "a">>, <<"black2", "b">>,
                                 <<"black3", "y">>, <<"white1", "x">>}
      [] console = "xbox360" -> Same(Frets)
GhDrumsOrs(console) == GhGuitarOrs(console)
RbDrumsOrs(console) == RbGuitarOrs(console)
TurntableOrs == Same((Face \ {"guide"}) \cup LeftTable \cup RightTable)
GamepadOrs(console) ==
    Same(Face \cup Shoulders \cup Clicks
         \cup (IF console \in {"ps3", "ps4"} THEN {"l2", "r2"} ELSE {})
         \cup (IF console = "ps4" THEN {"capture"} ELSE {}))

Ors(device, console) ==
    CASE device = "gh_guitar" -> GhGuitarOrs(console)
      [] device = "rb_guitar" -> RbGuitarOrs(console)
      [] device = "live" -> LiveOrs(console)
      [] device = "gh_drums" -> GhDrumsOrs(console)
      [] device = "rb_drums" -> RbDrumsOrs(console)
      [] device = "turntable" -> TurntableOrs
      [] device = "gamepad" -> GamepadOrs(console)

\* The buttons that are assigned: what an earlier transmitter said is lost.
Assigned(device, console) ==
    CASE device = "live" /\ console = "ps4" -> Same({"white2", "white3"})
      [] device = "live" /\ console = "xboxone" ->
            {<<"white2", "leftShoulder">>, <<"white3", "rightShoulder">>}
      [] device = "rb_drums" /\ console = "xbox360" ->
            Same({"padFlag", "cymbalFlag"})
      [] OTHER -> {}

-----------------------------------------------------------------------------
(* The axes.                                                                *)

Centred(v) == (v - 128) * 256           \* (v - 128) << 8
Shifted(v) == v * 256                   \* v << 8
Nibble(v) == v \div 16                  \* v >> 4
\* The slider of a 360 guitar repeats its value in the upper byte.
Slider(v) == v + 256 * (IF v > 128 THEN v - 1 ELSE v)
PadUp(v) == -(32767 - v * 128)          \* -(0x7FFF - (v << 7))
PadDown(v) == 32767 - v * 128

Copied(how, v) ==
    CASE how = "same" -> v
      [] how = "centred" -> Centred(v)
      [] how = "shifted" -> Shifted(v)
      [] how = "nibble" -> Nibble(v)
      [] how = "slider" -> Slider(v)
      [] how = "pad_up" -> PadUp(v)
      [] how = "pad_down" -> PadDown(v)

\* One entry per axis: the field read, the field written, the value that is
\* taken for rest, and the arithmetic.
Axis(names, rest, how) ==
    {[from |-> x, to |-> x, rest |-> rest, how |-> how] : x \in names}
Tilt(how) == {[from |-> "tilt_pc", to |-> "tilt", rest |-> 128, how |-> how]}

GuitarAxes(device, console) ==
    IF console = "xboxone"
    THEN Tilt("same") \cup Axis({"whammy"}, 128, "same")
         \cup (IF device = "rb_guitar" THEN Axis({"pickup"}, 128, "same")
               ELSE {})
    ELSE Tilt("centred") \cup Axis({"whammy"}, 128, "centred")
         \cup (IF device = "rb_guitar" THEN Axis({"pickup"}, 128, "shifted")
               ELSE Axis({"slider"}, 0, "slider"))

LiveAxes(console) ==
    IF console # "xbox360" THEN {}
    ELSE Tilt("centred") \cup Axis({"whammy", "strumBar"}, 128, "centred")

GhDrumAxes(console) ==
    IF console = "xboxone" THEN Axis(Pads, 0, "nibble")
    ELSE Axis(Pads \cup {"kickVelocity", "orangeVelocity"}, 0, "same")

RbDrumAxes(console) ==
    IF console = "xboxone" THEN Axis(Pads, 0, "nibble")
    ELSE Axis({"yellowVelocity", "greenVelocity"}, 0, "pad_up")
         \cup Axis({"redVelocity", "blueVelocity"}, 0, "pad_down")

TurntableAxes == Axis(Tables, 128, "centred") \cup Axis(Knobs, 512, "centred")

GamepadAxes(console) ==
    CASE console = "ps3" ->
            Axis(Sticks, 128, "same") \cup Axis(Triggers \cup Pressures, 0, "same")
      [] console = "ps4" ->
            Axis(Sticks, 128, "same") \cup Axis(Triggers, 0, "same")
      [] console = "xboxone" ->
            Axis(Sticks, 128, "centred") \cup Axis(Triggers, 0, "shifted")
      [] console = "xbox360" ->
            Axis(Sticks, 128, "centred") \cup Axis(Triggers, 0, "same")

AxisCopies(device, console) ==
    CASE device \in {"gh_guitar", "rb_guitar"} -> GuitarAxes(device, console)
      [] device = "live" -> LiveAxes(console)
      [] device = "gh_drums" -> GhDrumAxes(console)
      [] device = "rb_drums" -> RbDrumAxes(console)
      [] device = "turntable" -> TurntableAxes
      [] device = "gamepad" -> GamepadAxes(console)

-----------------------------------------------------------------------------
(* The conversion.                                                          *)

\* `universal_report`: the whole report is copied over what is there.
Universal(device, console) ==
    console = "universal" \/ (console = "ps3" /\ device # "gamepad")

\* dpad_bindings_reverse has eight entries and `dpad > sizeof` lets the hat at
\* rest, 8, read the byte after them: beyond is what that byte says.
HatButtons(hat, beyond) ==
    CASE hat = 0 -> {"dpadUp"} [] hat = 1 -> {"dpadUp", "dpadRight"}
      [] hat = 2 -> {"dpadRight"} [] hat = 3 -> {"dpadDown", "dpadRight"}
      [] hat = 4 -> {"dpadDown"} [] hat = 5 -> {"dpadDown", "dpadLeft"}
      [] hat = 6 -> {"dpadLeft"} [] hat = 7 -> {"dpadUp", "dpadLeft"}
      [] hat = 8 -> beyond [] OTHER -> {}

Pressed(r, pairs) == {p[2] : p \in {q \in pairs : q[1] \in r.held}}

\* A variant for the runs to reject: every axis takes 0 for its rest, as the
\* triggers do.
AxisAfterZero(out, r, x, range, copies) ==
    LET moved == {c \in copies : c.to = x /\ r.axis[c.from] # 0}
    IN  IF moved = {} THEN out.axis[x]
        ELSE LET c == CHOOSE d \in moved : TRUE
             IN  Fit(range, Copied(c.how, r.axis[c.from]))
AxisAfter(out, r, x, range, copies) ==
    LET moved == {c \in copies : c.to = x /\ r.axis[c.from] # c.rest}
    IN  IF moved = {} THEN out.axis[x]
        ELSE LET c == CHOOSE d \in moved : TRUE
             IN  Fit(range, Copied(c.how, r.axis[c.from]))

\* A variant for the runs to reject: the hat is assigned where it is ORed in,
\* as the frets of a live guitar are.
ConvertPs3Assigning(out, r, device, console, beyond) ==
    IF Universal(device, console)
    THEN [held |-> r.held \cup (HatButtons(r.hat, {})),
          axis |-> [x \in DOMAIN out.axis |-> r.axis[x]]]
    ELSE [held |-> (out.held \ (Hat \cup {p[2] : p \in Assigned(device, console)}))
                   \cup Pressed(r, Ors(device, console)
                                   \cup Assigned(device, console))
                   \cup HatButtons(r.hat, beyond),
          axis |-> [x \in DOMAIN out.axis |->
                       AxisAfter(out, r, x, Axes(device, console)[x],
                                 AxisCopies(device, console))]]
ConvertPs3(out, r, device, console, beyond) ==
    IF Universal(device, console)
    THEN [held |-> r.held \cup (HatButtons(r.hat, {})),
          axis |-> [x \in DOMAIN out.axis |-> r.axis[x]]]
    ELSE [held |-> (out.held \ {p[2] : p \in Assigned(device, console)})
                   \cup Pressed(r, Ors(device, console)
                                   \cup Assigned(device, console))
                   \cup HatButtons(r.hat, beyond),
          axis |-> [x \in DOMAIN out.axis |->
                       AxisAfter(out, r, x, Axes(device, console)[x],
                                 AxisCopies(device, console))]]
=============================================================================
