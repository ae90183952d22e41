------------------------------- MODULE Reports -------------------------------
(***************************************************************************)
(* From the buttons the player holds to the reports the console reads:     *)
(* tick(), tick_usb() and the wired tick_inputs() of shared_main.cpp, with *)
(* the IN endpoint they feed and the HID GET_REPORT that shares their      *)
(* state.                                                                  *)
(*                                                                         *)
(* One tick arms the debounce timers (TICK_SHARED), builds the report of   *)
(* the emulated controller, gives it to the endpoint if it differs from    *)
(* the last one built, and numbers it.  A keyboard has up to three reports *)
(* and sends the first that changed; an Xbox One controller sends its      *)
(* guide button as a keystroke packet of its own; a Guitar Hero Live       *)
(* guitar changes between two kinds of report as the console pokes it.     *)
(*                                                                         *)
(* A report is abstracted to the set of its buttons, an axis being one     *)
(* more button that is away from rest.  The handshake of the Xbox One is   *)
(* over (XboxRelay) and the console is recognised (ConsoleDetect).         *)
(***************************************************************************)
EXTENDS Integers, FiniteSets, Sequences

CONSTANTS
    Kinds,       \* the controllers to emulate, of AllKinds
    DebounceOf,  \* what TICK_SHARED sets the timer of a held button to
    Numbers,     \* the sequence numbers wrap at this (256 in the code)
    MaxResets    \* bound: bus resets in a behaviour

AllKinds == {"xboxone", "ghl", "xinput", "ps4", "switch", "keyboard"}
Buttons == {"a", "b", "guide"}

ASSUME KindsAssumption == Kinds \subseteq AllKinds /\ Kinds # {}
\* A timer shorter than the loop over a keyboard's reports runs out inside it.
ASSUME BoundsAssumption ==
    /\ DebounceOf \in [Kinds -> Nat \ {0}]
    /\ "keyboard" \in Kinds => DebounceOf["keyboard"] >= 3
    /\ Numbers \in Nat /\ Numbers > 2
    /\ MaxResets \in Nat

VARIABLES
    kind,        \* consoleType, and DEVICE_TYPE for a live guitar
    held,        \* the buttons under the player's fingers
    debounce,    \* debounce[]: button -> ticks left
    last,        \* last_report_usb: report id -> the report sent last
    lastGuide,   \* lastXboxOneGuide
    seq,         \* report_sequence_number
    hidSeq,      \* hid_sequence_number
    keySeq,      \* keystroke_sequence_number
    seenPs4,     \* seen_ps4_console
    poked,       \* millis() - last_ghl_poke_time < 8000
    endpoint,    \* the bank of the IN endpoint: empty, or one packet
    console,     \* what the console knows
    resets       \* bus resets so far

numbers == <<seq, hidSeq, keySeq>>
vars == <<kind, held, debounce, last, lastGuide, numbers, seenPs4, poked,
          endpoint, console, resets>>

Debounce == DebounceOf[kind]
Ids == IF kind = "keyboard" THEN <<"nkro", "consumer", "mouse">>
       ELSE <<"controller">>
AllIds == {"nkro", "consumer", "mouse", "controller"}
NoReport == [layout |-> "none", buttons |-> {}]   \* equal to no report
Unknown == {"unknown"}   \* the console was reset: it knows nothing
Anything == -1

-----------------------------------------------------------------------------
(* Building one report.                                                     *)

\* The buttons report id carries: a keyboard spreads its keys over three.
Carried(id) ==
    CASE id = "nkro" -> {"a"} [] id = "consumer" -> {"b"}
      [] id = "mouse" -> {"guide"} [] OTHER -> Buttons

Guide(down) == IF down THEN {"guide"} ELSE {}

\* Switch swaps a and b.
Placed(s) ==
    IF kind # "switch" THEN s
    ELSE {CASE x = "a" -> "b" [] x = "b" -> "a" [] OTHER -> x : x \in s}

\* An Xbox One in the menus: everything but the guide goes in the report.
Nav == kind = "xboxone" \/ (kind = "ghl" /\ poked)

\* Which of its two reports a live guitar builds.
Layout == IF kind = "ghl" /\ ~poked THEN "hid" ELSE "nav"

\* The report of id while the timers are d.  A report for an Xbox One leaves
\* the guide out; one for a PS4 has it set until a first packet was sent.
Report(id, d) ==
    LET down == {x \in Carried(id) : d[x] > 0}
        shown == CASE Nav -> down \ {"guide"}
                   [] kind = "ps4" /\ ~seenPs4 -> down \cup {"guide"}
                   [] OTHER -> down
    IN  [layout |-> Layout, buttons |-> Placed(shown)]

Armed == [x \in Buttons |-> IF x \in held THEN Debounce ELSE debounce[x]]
\* (Variant.) The timers are decremented without a test for zero.
ElapsedBelow(d, n) == [x \in Buttons |-> d[x] - n]

\* `if (debounce[i]) debounce[i]--`, n times.
Elapsed(d, n) == [x \in Buttons |-> IF d[x] > n THEN d[x] - n ELSE 0]

\* A sequence number skips 0 when it wraps.
Following(n) == IF n = Numbers - 1 THEN 1 ELSE n + 1
Wrapping(n) == (n + 1) % Numbers

-----------------------------------------------------------------------------
Init ==
    /\ kind \in Kinds
    /\ held = {}
    /\ debounce = [x \in Buttons |-> 0]
    \* Zeroed memory: of the reports, only the Xbox One's is all zero at rest.
    /\ last = [id \in AllIds |->
                  IF kind \in {"xboxone", "ghl"}
                  THEN [layout |-> "nav", buttons |-> {}] ELSE NoReport]
    /\ lastGuide = FALSE
    /\ seq = 1 /\ hidSeq = 1 /\ keySeq = 1
    /\ seenPs4 = FALSE
    /\ poked = TRUE
    /\ endpoint = <<>>
    /\ console = [view |-> [id \in AllIds |-> {}], guide |-> {},
                  nav |-> 0, hid |-> 0, key |-> 0]
    /\ resets = 0

\* The player presses or releases one button.
Change ==
    /\ \E x \in Buttons :
          held' = IF x \in held THEN held \ {x} ELSE held \cup {x}
    /\ UNCHANGED <<kind, debounce, last, lastGuide, numbers, seenPs4, poked,
                   endpoint, console, resets>>

\* The guide went up or down: a keystroke packet instead of the report, and a
\* return before the timers are decremented and the report is compared.
GuideChanged(d) ==
    /\ Nav
    /\ (d["guide"] > 0) # lastGuide

\* (Variant.) The report is compared and remembered before that return.
KeystrokeRemembering(d) ==
    /\ debounce' = d
    /\ lastGuide' = (d["guide"] > 0)
    /\ keySeq' = Wrapping(keySeq)
    /\ last' = [last EXCEPT !["controller"] = Report("controller", d)]
    /\ UNCHANGED <<seq, hidSeq>>

Keystroke(d) ==
    /\ debounce' = d
    /\ lastGuide' = (d["guide"] > 0)
    /\ keySeq' = Wrapping(keySeq)
    /\ UNCHANGED <<last, seq, hidSeq>>

\* (Variant.) Only the first report of a keyboard is looked at.
ChangedFirst(d) ==
    {i \in {1} : Report(Ids[i], Elapsed(d, i - 1)) # last[Ids[i]]}

\* The reports of d that differ from the last ones, as positions in Ids: the
\* timers are decremented once for each report built before.
Changed(d) ==
    {i \in DOMAIN Ids : Report(Ids[i], Elapsed(d, i - 1)) # last[Ids[i]]}

\* What a report that is sent, or asked for, does to the numbers.
CountAfterCompare ==
    /\ seq' = IF Nav THEN Following(seq) ELSE seq
    /\ hidSeq' = IF kind = "ghl" /\ ~poked THEN Following(hidSeq) ELSE hidSeq
    /\ UNCHANGED keySeq

NumberOf ==
    CASE Layout = "hid" -> hidSeq
      [] Nav -> seq
      [] OTHER -> 0

\* tick_inputs(&combined_report, &last_report_usb, consoleType), and
\* send_report_to_pc of what it returns: size 0 sends an empty packet.
Inputs(d) ==
    \/ /\ GuideChanged(d)
       /\ Keystroke(d)
       /\ endpoint' = <<[tag |-> "key", number |-> keySeq,
                         pressed |-> d["guide"] > 0]>>
    \/ /\ ~GuideChanged(d)
       /\ Changed(d) # {}
       /\ LET i == CHOOSE j \in Changed(d) : \A k \in Changed(d) : j <= k
              r == Report(Ids[i], Elapsed(d, i - 1))
          IN  /\ debounce' = Elapsed(d, i)
              /\ last' = [last EXCEPT ![Ids[i]] = r]
              /\ endpoint' = <<[tag |-> Layout, id |-> Ids[i],
                                number |-> NumberOf, buttons |-> r.buttons]>>
       /\ CountAfterCompare
       /\ UNCHANGED lastGuide

\* (Variant.) A report is numbered before it is found to be unchanged.
QuietCounting(d, late) ==
    /\ ~GuideChanged(d) /\ Changed(d) = {}
    /\ debounce' = Elapsed(d, Len(Ids))
    /\ endpoint' = <<[tag |-> "empty"]>>
    /\ CountAfterCompare
    /\ UNCHANGED <<last, lastGuide>>

\* Nothing to report: the empty packet, and, when 5 ms have passed, one more
\* pass that only arms and decrements the timers.
Quiet(d, late) ==
    /\ ~GuideChanged(d) /\ Changed(d) = {}
    /\ LET e == Elapsed(d, Len(Ids))
           rearmed == [x \in Buttons |-> IF x \in held THEN Debounce ELSE e[x]]
       IN  debounce' = IF late THEN Elapsed(rearmed, 1) ELSE e
    /\ endpoint' = <<[tag |-> "empty"]>>
    /\ UNCHANGED <<last, lastGuide, numbers>>

\* tick(): late is `millis() - lastSentPacket > 5`.
Tick(late) ==
    /\ UNCHANGED <<kind, held, poked, console, resets>>
    /\ \/ /\ endpoint = <<>>
          /\ Inputs(Armed) \/ Quiet(Armed, late)
          /\ seenPs4' = TRUE
       \/ /\ endpoint # <<>> /\ late
          /\ debounce' = Elapsed(Armed, 1)
          /\ UNCHANGED <<last, lastGuide, numbers, seenPs4, endpoint>>

\* HID GET_REPORT: tick_inputs(requestBuffer, NULL, consoleType).  Nothing is
\* compared or remembered, but the timers and the numbers advance.  For a
\* keyboard the pointer to compare with is not set: any of the three reports
\* may be the one that is answered.  An Xbox One sends no HID requests.
GetReport ==
    /\ kind \notin {"xboxone", "ghl"}
    /\ \E n \in DOMAIN Ids : debounce' = Elapsed(Armed, n)
    /\ CountAfterCompare
    /\ UNCHANGED <<kind, held, last, lastGuide, seenPs4, poked, endpoint,
                   console, resets>>

\* The poke of a live guitar (hid_set_report), and 8 s without one.
Poke ==
    /\ kind = "ghl"
    /\ poked' = ~poked
    /\ UNCHANGED <<kind, held, debounce, last, lastGuide, numbers, seenPs4,
                   endpoint, console, resets>>

-----------------------------------------------------------------------------
(* The console.                                                             *)

Polled ==
    /\ endpoint # <<>>
    /\ endpoint' = <<>>
    /\ LET p == endpoint[1]
       IN  console' =
             CASE p.tag = "empty" -> console
               [] p.tag = "key" ->
                    [console EXCEPT !.guide = Guide(p.pressed),
                                     !.key = p.number]
               [] OTHER ->
                    [console EXCEPT
                       !.view[p.id] = p.buttons,
                       !.hid = IF p.tag = "hid" THEN p.number ELSE @,
                       !.nav = IF p.tag = "nav" /\ kind \in {"xboxone", "ghl"}
                               THEN p.number ELSE @]
    /\ UNCHANGED <<kind, held, debounce, last, lastGuide, numbers, seenPs4,
                   poked, resets>>

\* A bus reset: device_reset() and an empty endpoint.  The last report, the
\* last guide, the keystroke number and seen_ps4_console survive it.
BusReset ==
    /\ resets < MaxResets
    /\ resets' = resets + 1
    /\ seq' = 1 /\ hidSeq' = 1
    /\ poked' \in BOOLEAN
    /\ endpoint' = <<>>
    /\ console' = [view |-> [id \in AllIds |-> Unknown], guide |-> Unknown,
                   nav |-> 0, hid |-> 0, key |-> Anything]
    /\ UNCHANGED <<kind, held, debounce, last, lastGuide, keySeq, seenPs4>>

Next ==
    \/ Change
    \/ \E late \in BOOLEAN : Tick(late)
    \/ GetReport
    \/ Poke
    \/ Polled
    \/ BusReset

\* The main loop runs for ever and the console keeps polling.
Fairness == WF_vars(\E late \in BOOLEAN : Tick(late)) /\ WF_vars(Polled)

Spec == Init /\ [][Next]_vars /\ Fairness

-----------------------------------------------------------------------------
(* Properties.                                                              *)

\* Type invariant: no timer underflows, no number of a report is 0.
TypeOK ==
    /\ kind \in Kinds /\ held \subseteq Buttons
    /\ debounce \in [Buttons -> 0..Debounce]
    /\ DOMAIN last = AllIds
    /\ \A id \in AllIds : last[id].buttons \subseteq Buttons
    /\ lastGuide \in BOOLEAN /\ seenPs4 \in BOOLEAN /\ poked \in BOOLEAN
    /\ seq \in 1..Numbers - 1 /\ hidSeq \in 1..Numbers - 1
    /\ keySeq \in 0..Numbers - 1
    /\ Len(endpoint) <= 1 /\ resets \in 0..MaxResets

\* Change detection rests on this: what the firmware remembers as sent is what
\* the console was told or is about to be told, for every report id and for
\* the guide, unless a bus reset made the console forget.  A report remembered
\* and not sent would be a button the console never hears of.
RecordTrue ==
    /\ \A i \in DOMAIN Ids :
          LET id == Ids[i]
              told == last[id].buttons
              waiting == endpoint # <<>> /\ endpoint[1].tag \in {"nav", "hid"}
                         /\ endpoint[1].id = id
          IN  IF waiting THEN endpoint[1].buttons = told
              ELSE console.view[id] \in {told, Unknown}
    /\ IF endpoint # <<>> /\ endpoint[1].tag = "key"
       THEN endpoint[1].pressed = lastGuide
       ELSE console.guide \in {Guide(lastGuide), Unknown}

Successor(n) == (n % (Numbers - 1)) + 1

\* The packet that waits for an Xbox One carries the number after the one the
\* console read last.  Each of the two series of reports starts at 1 after a reset
\* and skips 0 when it wraps; the keystrokes count through 0 and over resets.
\* (The number a relayed report of a controller gives the series,
\* receive_report_from_controller, is outside of this module.)
WellNumbered ==
    (endpoint # <<>> /\ kind \in {"xboxone", "ghl"}) =>
        LET p == endpoint[1]
        IN  /\ p.tag = "nav" => p.number = Successor(console.nav)
            /\ p.tag = "hid" => p.number = Successor(console.hid)
            /\ p.tag = "key" =>
                  console.key = Anything \/ p.number = (console.key + 1) % Numbers

\* What the console should believe of the buttons held.
Expected(id) ==
    Placed((held \cap Carried(id)) \ (IF Nav THEN {"guide"} ELSE {}))
Shown ==
    /\ \A i \in DOMAIN Ids :
          console.view[Ids[i]] \in {Expected(Ids[i]), Unknown}
    /\ Nav => console.guide \in {held \cap {"guide"}, Unknown}

\* If the player holds on to the same buttons and the console keeps asking for
\* the same kind of report, the console ends up knowing exactly those buttons,
\* whatever happened before: through debouncing, a busy endpoint, GET_REPORT,
\* the priority among a keyboard's reports and the guide's own packet.
EventuallyShown ==
    <>[][held' = held /\ poked' = poked]_vars => <>[]Shown
=============================================================================
