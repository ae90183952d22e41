--------------------------- MODULE UsbHostConvert ---------------------------
(***************************************************************************)
(* inputs/usb_host.h: how the report of one controller plugged into the    *)
(* USB host port is added to the report for the console, with the macros   *)
(* of shared_main.cpp, which differ per console.                           *)
(*                                                                         *)
(* A host is what is plugged in: the console it was made for, whether it   *)
(* is a plain gamepad or the same instrument as this device, and, for an   *)
(* instrument, its game.  Rock Band drums are left out: their build of     *)
(* this file lacks a brace (514-521) and does not compile.                 *)
(***************************************************************************)
EXTENDS ReportLayouts

Host(console, kinds, rhythms) ==
    [console : {console}, kind : kinds, rhythm : rhythms]
Games == {"guitar_hero", "rock_band"}
Instruments == {"gh_guitar", "rb_guitar", "gh_drums"}

Hosts(device) ==
    LET games == IF device \in Instruments THEN Games ELSE {"rock_band"}
        drums == IF device = "gh_drums" THEN {"gamepad", "same"} ELSE {"same"}
    IN  Host("ps3", {"gamepad", "same"}, games)
        \cup Host("ps4", {"same"}, {"rock_band"})
        \cup Host("xbox360", drums, games)
        \cup Host("xboxone", drums, {"rock_band"})

Plain == Face \cup Hat

-----------------------------------------------------------------------------
(* COPY_BUTTON: every button is ORed in.  Pairs of a field of the host's    *)
(* report and a field of the report for the console.                        *)

\* HAS_L2_R2_BUTTON is defined for the PlayStation consoles only.
GamepadButtons(host, console) ==
    Same(Plain \cup Shoulders \cup Clicks
         \cup IF {host.console, console} \subseteq {"ps3", "ps4"}
              THEN {"l2", "r2"} ELSE {})

\* The right shoulder of a PS3 gamepad is back, that of an Xbox One white3,
\* and the real guitars never give white3 at all.
LiveButtons(host) ==
    LET pad == {<<"x", "white1">>, <<"a", "black1">>, <<"b", "black2">>,
                <<"y", "black3">>, <<"leftShoulder", "white2">>}
        shared == Same(Hat \cup {"start", "leftThumbClick", "guide"})
    IN  shared \cup
        CASE host.console = "ps3" /\ host.kind = "gamepad" ->
                pad \cup {<<"rightShoulder", "back">>}
          [] host.console = "xboxone" ->
                pad \cup {<<"rightShoulder", "white3">>, <<"back", "back">>}
          [] OTHER -> Same((Frets \ {"white3"}) \cup {"back"})

\* On a PS3 the guitars of the two games swap blue and yellow.
Crossed == {<<"y", "x">>, <<"x", "y">>}
Swaps(device, host) ==
    /\ host.console = "ps3"
    /\ (device = "rb_guitar") = (host.rhythm = "guitar_hero")

\* XB1_SOLO: the frets of a Rock Band guitar for an Xbox One.
NeckFrets(solo) ==
    IF solo
    THEN {<<"a", "soloGreen">>, <<"b", "soloRed">>, <<"x", "soloYellow">>,
          <<"y", "soloBlue">>, <<"leftShoulder", "soloOrange">>}
    ELSE {<<"a", "green">>, <<"b", "red">>, <<"x", "yellow">>,
          <<"y", "blue">>, <<"leftShoulder", "orange">>}
AllFrets == {"green", "red", "yellow", "blue", "orange", "soloGreen",
             "soloRed", "soloYellow", "soloBlue", "soloOrange"}

GuitarButtons(device, host, console, r) ==
    LET real == host.kind = "same" /\ host.console \in {"ps3", "xbox360"}
                /\ device = "rb_guitar" /\ ~ Swaps(device, host)
        xb1 == device = "rb_guitar" /\ console = "xboxone"
    IN  Same(Plain \cup {"leftShoulder"})
        \cup (IF Swaps(device, host) THEN Crossed ELSE {})
        \cup (IF real THEN Same({"solo"}) ELSE {})
        \cup (IF real /\ xb1 THEN NeckFrets("solo" \in r.held) ELSE {})
        \cup (IF xb1 /\ host.console = "xboxone" THEN Same(AllFrets) ELSE {})

DrumButtons == Same(Plain \cup {"leftShoulder"})

TurntableButtons(host) ==
    Same(Plain) \cup
    IF host.console = "xbox360" \/ (host.console = "ps3" /\ host.kind = "same")
    THEN Same(LeftTable \cup RightTable)
    ELSE {<<"x", "leftBlue">>, <<"a", "leftGreen">>, <<"b", "leftRed">>,
          <<"x", "rightBlue">>, <<"a", "rightGreen">>, <<"b", "rightRed">>}

HostButtons(device, host, console, r) ==
    CASE device = "gamepad" -> GamepadButtons(host, console)
      [] device = "live" -> LiveButtons(host)
      [] device \in {"gh_guitar", "rb_guitar"} ->
            GuitarButtons(device, host, console, r)
      [] device = "gh_drums" -> DrumButtons
      [] device = "turntable" -> TurntableButtons(host)

-----------------------------------------------------------------------------
(* The axes: the field read, the field written, what the expression passed  *)
(* to the macro computes, and the macro.                                    *)

Move(x, y, given, macro) ==
    {[from |-> x, to |-> y, given |-> given, macro |-> macro]}
Moves(names, given, macro) ==
    {[from |-> x, to |-> x, given |-> given, macro |-> macro] : x \in names}

\* (in + 128) << 8 with an unsigned byte: 32768..98048, never 0.
Expression(given, v) ==
    CASE given = "raw" -> v
      [] given = "ps3" -> (v + 128) * 256
      [] given = "shifted" -> v * 256
      [] given = "accel" -> (v \div 4) - 128
      [] given = "tilt_360" -> (v \div 256) + 128
      [] given = "bit" -> IF v # 0 THEN 255 ELSE 128
      [] given = "pad_up" -> (-(32767 - v)) \div 256
      [] given = "pad_down" -> (32767 - v) \div 256

GamepadMoves(host) ==
    LET stick == IF host.console \in {"ps3", "ps4"} THEN "ps3" ELSE "raw"
        trigger == IF host.console = "xboxone" THEN "raw" ELSE "shifted"
    IN  Moves(Sticks, stick, "normal") \cup Moves(Triggers, trigger, "trigger")

LiveMoves(host) ==
    CASE host.console = "xboxone"
         \/ (host.console = "ps3" /\ host.kind = "gamepad") ->
            Move("rightStickY", "whammy", "raw", "normal")
      [] host.console = "ps3" /\ host.kind = "same" ->
            Move("whammy", "whammy", "raw", "normal")
            \cup Move("accel", "tilt", "accel", "tilt")
      [] host.console = "ps4" ->
            Move("whammy", "whammy", "ps3", "normal")
            \cup Move("tilt", "tilt", "raw", "tilt")
      [] host.console = "xbox360" ->
            Move("whammy", "whammy", "raw", "normal")
            \cup Move("tilt", "tilt", "tilt_360", "tilt")

GuitarMoves(device, host) ==
    LET neck == IF device = "rb_guitar" THEN "pickup" ELSE "slider"
    IN  CASE host.console = "ps4"
             \/ (host.console = "ps3" /\ host.kind = "gamepad") ->
                Move("rightStickX", "whammy", "ps3", "normal")
                \cup Move("rightStickY", neck, "ps3", "normal")
          [] host.console = "ps3" /\ host.kind = "same" ->
                Move("whammy", "whammy", "ps3", "normal")
                \cup Move("pickup", neck, "ps3", "normal")
                \cup IF host.rhythm = "guitar_hero"
                     THEN Move("accel", "tilt", "accel", "tilt")
                     ELSE Move("tiltBit", "tilt", "bit", "tilt")
          [] host.console = "xbox360" ->
                Move("whammy", "whammy", "raw", "normal")
                \cup Move("pickup", neck, "ps3", "normal")
                \cup Move("tilt", "tilt", "tilt_360", "tilt")
          [] host.console = "xboxone" ->
                Move("pickup", "whammy", "raw", "normal")
                \cup Move("pickup", neck, "ps3", "normal")
                \cup Move("tilt", "tilt", "raw", "tilt")

DrumMoves(host) ==
    LET hits(names) == Moves(names, "raw", "velocity")
    IN  IF host.kind = "gamepad" \/ host.console = "ps4" THEN {} ELSE
        CASE host.console \in {"ps3", "xbox360"}
             /\ host.rhythm = "guitar_hero" ->
                hits(Pads \cup {"orangeVelocity", "kickVelocity"})
          [] host.console = "xbox360" /\ host.rhythm = "rock_band" ->
                Moves({"greenVelocity", "yellowVelocity"}, "pad_up", "velocity")
                \cup Moves({"redVelocity", "blueVelocity"}, "pad_down", "velocity")
          [] OTHER -> hits(Pads)

TurntableMoves(host) ==
    IF host.console = "xbox360" \/ (host.console = "ps3" /\ host.kind = "same")
    THEN Moves(Knobs, "raw", "dj") ELSE {}

HostMoves(device, host) ==
    CASE device = "gamepad" -> GamepadMoves(host)
      [] device = "live" -> LiveMoves(host)
      [] device \in {"gh_guitar", "rb_guitar"} -> GuitarMoves(device, host)
      [] device = "gh_drums" -> DrumMoves(host)
      [] device = "turntable" -> TurntableMoves(host)

\* What a field of the host's report can hold.
HostRange(host, x) ==
    CASE x = "accel" -> Bits10
      [] x = "tiltBit" -> 0..1
      [] x \in Knobs -> IF host.console = "ps3" THEN Bits10 ELSE Int16
      [] x \in Triggers /\ host.console = "xboxone" -> Bits10
      [] x \in Pads /\ host.console = "xboxone" -> Bits4
      [] x \in Sticks /\ host.console \in {"xbox360", "xboxone"} -> Int16
      [] x \in {"whammy", "tilt"} /\ host.console = "xbox360" -> Int16
      [] x \in Pads /\ host.console = "xbox360"
         /\ host.rhythm = "rock_band" -> Int16
      [] OTHER -> Byte

-----------------------------------------------------------------------------
(* The macros.                                                              *)

\* Whether the macro writes, and what, before the field truncates it.  The
\* argument of COPY_TILT is not parenthesised, so in the 360's
\* (tilt_in - 128) << 8 the conditional of a PS3 Rock Band guitar takes the
\* subtraction into its other branch.
Writes(macro, given, console, device, v) ==
    LET in == Expression(given, v)
    IN  CASE macro \in {"normal", "trigger"} -> in # 0
          [] macro = "dj" -> in # 512
          [] macro = "velocity" -> TRUE
          [] macro = "tilt" -> in # 0 \/ (console = "ps3" /\ device # "rb_guitar")

Written(macro, given, console, v) ==
    LET in == Expression(given, v)
    IN  CASE macro = "normal" ->
                IF console \in {"ps3", "ps4"} THEN (in \div 256) + 128 ELSE in
          [] macro = "trigger" ->
                IF console = "xboxone" THEN in ELSE in \div 256
          [] macro = "dj" ->
                IF console = "xbox360" THEN (in - 512) \div 64 ELSE in
          [] macro = "velocity" -> in
          [] macro = "tilt" ->
                IF console # "xbox360" THEN in
                ELSE IF given = "bit" THEN IF v # 0 THEN 255 * 256 ELSE 0
                ELSE (in - 128) * 256

\* The tilt of a PS3 instrument stands for tilt_pc, the one the PC reads.
Field(console, x) == IF x = "tilt" /\ console = "ps3" THEN "tilt_pc" ELSE x

-----------------------------------------------------------------------------
(* The conversion.                                                          *)

\* The hat of these reports is turned into bits through `dpad`, a pointer
\* initialised with itself; the bits that are read next are what that leaves.
StrayHat(host) == host.console = "ps4"
                  \/ (host.console = "ps3" /\ host.kind = "same")

HostHeld(host, r, stray) ==
    IF StrayHat(host) THEN (r.held \ Hat) \cup stray ELSE r.held

\* strumBar follows the directions of the report for the console.
StrumBar(held, console, v) ==
    LET bar == IF "dpadUp" \in held /\ "dpadDown" \notin held THEN -32768
               ELSE IF "dpadDown" \in held /\ "dpadUp" \notin held THEN 32767
               ELSE 0
    IN  IF Writes("normal", "raw", console, "live", bar)
        THEN Written("normal", "raw", console, bar) ELSE v

\* The fields of the host's report that write the axis x.
WritingMoves(r, device, host, console, x) ==
    {m \in HostMoves(device, host) :
        /\ Field(console, m.to) = x
        /\ Writes(m.macro, m.given, console, device, r.axis[m.from])}

HostAxisAfter(held, v, r, device, host, console, x) ==
    LET here == WritingMoves(r, device, host, console, x)
        m == CHOOSE n \in here : TRUE
    IN  IF x = "strumBar" THEN StrumBar(held, console, v)
        ELSE IF here = {} THEN v
        ELSE Fit(Axes(device, console)[x],
                 Written(m.macro, m.given, console, r.axis[m.from]))

ConvertHost(out, r, device, host, console, stray) ==
    LET from == HostHeld(host, r, stray)
        held == out.held \cup
                {p[2] : p \in {q \in HostButtons(device, host, console, r) :
                                    q[1] \in from}}
    IN  [held |-> held,
         axis |-> [x \in DOMAIN out.axis |->
                      HostAxisAfter(held, out.axis[x], r, device, host, console, x)]]
=============================================================================
