--------------------------- MODULE ReportLayouts ---------------------------
(***************************************************************************)
(* What the reports of each kind of controller hold: the structures of     *)
(* reports/*.h as sets of button names and as functions from the names of  *)
(* the axes to the values their fields can take.  Two reports share a      *)
(* button or an axis when both structures name it; where the bits lie is   *)
(* left out, and so is the hat, which every report has, and what no code   *)
(* copies (accelerometers, touchpads, reserved fields).                    *)
(***************************************************************************)
EXTENDS Integers

Devices == {"gamepad", "gh_guitar", "rb_guitar", "live", "gh_drums",
            "rb_drums", "turntable"}

Byte == 0..255
Bits4 == 0..15
Bits10 == 0..1023
Int16Min == -32768
Int16Max == 32767
Int16 == Int16Min..Int16Max
Uint16Max == 65535
Uint16 == 0..Uint16Max
\* A value assigned to a field keeps its low bits.
Fit(range, v) ==
    CASE range = Byte -> v % 256
      [] range = Bits4 -> v % 16
      [] range = Int16 -> ((v + 32768) % 65536) - 32768
      [] OTHER -> v % 65536

Hat == {"dpadUp", "dpadDown", "dpadLeft", "dpadRight"}
Face == {"x", "a", "b", "y", "back", "start", "guide"}
Shoulders == {"leftShoulder", "rightShoulder"}
Clicks == {"leftThumbClick", "rightThumbClick"}
Frets == {"white1", "white2", "white3", "black1", "black2", "black3"}
LeftTable == {"leftBlue", "leftRed", "leftGreen"}
RightTable == {"rightBlue", "rightRed", "rightGreen"}

Sticks == {"leftStickX", "leftStickY", "rightStickX", "rightStickY"}
Triggers == {"leftTrigger", "rightTrigger"}
Pressures == {"pressureDpadUp", "pressureDpadRight", "pressureDpadDown",
              "pressureDpadLeft", "pressureL1", "pressureR1",
              "pressureTriangle", "pressureCircle", "pressureCross",
              "pressureSquare"}
Pads == {"yellowVelocity", "redVelocity", "greenVelocity", "blueVelocity"}
Cymbals == {"blueCymbalVelocity", "yellowCymbalVelocity",
            "greenCymbalVelocity"}
Tables == {"leftTableVelocity", "rightTableVelocity"}
Knobs == {"effectsKnob", "crossfader"}

Same(names) == {<<x, x>> : x \in names}

\* ps3_reports.h: what a receiver is sent over the air, whatever the console.
Ps3Gamepad == Face \cup Shoulders \cup Clicks \cup {"l2", "r2", "capture"}
Ps3GhGuitar == Face \cup Shoulders \cup {"capture"}
Ps3RbGuitar == Face \cup {"leftShoulder", "tilt", "solo", "capture"}
Ps3Live == Frets \cup {"back", "start", "leftThumbClick", "guide", "capture"}
Ps3GhDrums == Face \cup Shoulders \cup {"capture"}
Ps3RbDrums == Face \cup Shoulders \cup {"padFlag", "cymbalFlag", "capture"}
Ps3Turntable == Face \cup LeftTable \cup RightTable \cup {"capture"}
Ps3Buttons(device) ==
    CASE device = "gamepad" -> Ps3Gamepad
      [] device = "gh_guitar" -> Ps3GhGuitar
      [] device = "rb_guitar" -> Ps3RbGuitar
      [] device = "live" -> Ps3Live
      [] device = "gh_drums" -> Ps3GhDrums
      [] device = "rb_drums" -> Ps3RbDrums
      [] device = "turntable" -> Ps3Turntable

Ps3Axes(device) ==
    CASE device = "gamepad" -> [x \in Sticks \cup Triggers \cup Pressures |-> Byte]
      [] device = "gh_guitar" -> [x \in {"tilt_pc", "whammy", "slider"} |-> Byte]
      [] device = "rb_guitar" -> [x \in {"tilt_pc", "whammy", "pickup"} |-> Byte]
      [] device = "live" -> [x \in {"tilt_pc", "strumBar", "whammy"} |-> Byte]
      [] device = "gh_drums" ->
            [x \in Pads \cup {"kickVelocity", "orangeVelocity"} |-> Byte]
      [] device = "rb_drums" -> [x \in Pads \cup Cymbals |-> Byte]
      [] device = "turntable" ->
            [x \in Tables \cup Knobs |-> IF x \in Tables THEN Byte ELSE Bits10]

\* xinput_reports.h
Xbox360Buttons(device) ==
    CASE device = "gamepad" -> Face \cup Shoulders \cup Clicks
      [] device = "gh_guitar" -> Face \cup Shoulders
      [] device = "rb_guitar" -> Face \cup {"leftShoulder", "solo"}
      [] device = "live" ->
            Frets \cup {"back", "start", "leftThumbClick", "guide"}
      [] device = "gh_drums" -> Face \cup Shoulders \cup {"leftThumbClick"}
      [] device = "rb_drums" ->
            Face \cup {"leftShoulder", "leftThumbClick", "padFlag", "cymbalFlag"}
      [] device = "turntable" -> Face \cup LeftTable \cup RightTable

Xbox360Axes(device) ==
    CASE device = "gamepad" ->
            [x \in Sticks \cup Triggers |-> IF x \in Sticks THEN Int16 ELSE Byte]
      [] device = "gh_guitar" -> [x \in {"tilt", "whammy", "slider"} |->
                                     IF x = "slider" THEN Uint16 ELSE Int16]
      [] device = "rb_guitar" -> [x \in {"tilt", "whammy", "pickup"} |->
                                     IF x = "pickup" THEN Byte ELSE Int16]
      [] device = "live" -> [x \in {"tilt", "strumBar", "whammy"} |-> Int16]
      [] device = "gh_drums" ->
            [x \in Pads \cup {"kickVelocity", "orangeVelocity"} |-> Byte]
      [] device = "rb_drums" -> [x \in Pads |-> Int16]
      [] device = "turntable" -> [x \in Tables \cup Knobs |-> Int16]

\* xbox_one_reports.h: a live guitar has the report of a gamepad, and there
\* are no Guitar Hero instruments or turntables on an Xbox One.
XboxOneButtons(device) ==
    CASE device \in {"gamepad", "live"} -> Face \cup Shoulders \cup Clicks
      [] device = "rb_guitar" ->
            Face \cup {"leftShoulder", "solo", "green", "red", "yellow",
                       "blue", "orange", "soloGreen", "soloRed",
                       "soloYellow", "soloBlue", "soloOrange"}
      [] device = "rb_drums" -> Face \cup Shoulders

XboxOneAxes(device) ==
    CASE device \in {"gamepad", "live"} ->
            [x \in Sticks \cup Triggers |-> IF x \in Sticks THEN Int16
                                            ELSE Uint16]
      [] device = "rb_guitar" -> [x \in {"tilt", "whammy", "pickup"} |-> Byte]
      [] device = "rb_drums" -> [x \in Pads \cup Cymbals |-> Bits4]

\* ps4_reports.h: gamepads and live guitars only.
Ps4Buttons(device) ==
    CASE device = "gamepad" ->
            Face \cup Shoulders \cup Clicks \cup {"l2", "r2", "capture"}
      [] device = "live" ->
            Frets \cup {"back", "start", "leftThumbClick", "guide", "capture"}

Ps4Axes(device) ==
    CASE device = "gamepad" -> [x \in Sticks \cup Triggers |-> Byte]
      [] device = "live" -> [x \in {"tilt", "strumBar", "whammy"} |-> Byte]

\* Which consoles a kind of controller can be built for; "universal" is the report
\* of a gamepad to anything not recognised, instruments give the PS3's.
Consoles(device) ==
    {"xbox360", "ps3"} \cup (IF device = "gamepad" THEN {"universal"} ELSE {}) \cup
    (IF device \in {"gamepad", "live"} THEN {"xboxone", "ps4"}
     ELSE IF device \in {"rb_guitar", "rb_drums"} THEN {"xboxone"} ELSE {})

Buttons(device, console) ==
    Hat \cup CASE console = "ps3" -> IF device = "gamepad"
                                    THEN Ps3Gamepad \ {"capture"}
                                    ELSE Ps3Buttons(device)
               [] console = "universal" -> Ps3Buttons(device)
               [] console = "xbox360" -> Xbox360Buttons(device)
               [] console = "xboxone" -> XboxOneButtons(device)
               [] console = "ps4" -> Ps4Buttons(device)

Axes(device, console) ==
    CASE console \in {"ps3", "universal"} -> Ps3Axes(device)
      [] console = "xbox360" -> Xbox360Axes(device)
      [] console = "xboxone" -> XboxOneAxes(device)
      [] console = "ps4" -> Ps4Axes(device)
=============================================================================
