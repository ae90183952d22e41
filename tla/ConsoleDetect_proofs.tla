------------------------ MODULE ConsoleDetect_proofs ------------------------
(***************************************************************************)
(* For every default type, every set of setups and any number of bus       *)
(* resets.                                                                 *)
(*                                                                         *)
(* Whatever the host sends, the device assumes at most three identities    *)
(* after the one it started with: each rule leads to a type of a higher    *)
(* rank, and the count never exceeds the rank.                             *)
(*                                                                         *)
(* Of the hosts the rules are made for, none is taken for another          *)
(* (NeverMistaken).  That rests on what the device has noticed by the time *)
(* it has been asked so much (NoticedSoFar), which of a host that is       *)
(* prompt is all there is to notice once two seconds have passed and       *)
(* silence counts (NoticedInTime).                                         *)
(***************************************************************************)
EXTENDS ConsoleDetect, TLAPS

\* The ranks are numbers up to three, and only the type a build starts with has
\* the lowest.
LEMMA RankValues ==
  \A t \in Types : /\ Rank(t) \in 0..3
                   /\ t # "UNIVERSAL" => Rank(t) >= 1
                   /\ t # "XBOX360" => Rank(t) <= 2
BY DEF Rank, Types

\* A request makes the device a type of a higher rank, if it changes it at all.
LEMMA RequestsClimb ==
  ASSUME NEW r \in Requests, consoleType \in Types
  PROVE  /\ NewType(r) \in Types
         /\ NewType(r) # consoleType => Rank(NewType(r)) > Rank(consoleType)
<1>1. CASE r = "0x81"
  BY <1>1, RankValues DEF NewType, Rank, Types
<1>2. CASE r # "0x81" /\ consoleType = "UNIVERSAL"
  <2>1. NewType(r) \in Types
    BY <1>2 DEF NewType, Types, Clears
  <2> QED
    BY <1>2, <2>1, RankValues DEF Rank
<1>3. CASE r # "0x81" /\ consoleType # "UNIVERSAL"
  BY <1>3 DEF NewType, Rank, Types, Clears
<1> QED
  BY <1>1, <1>2, <1>3

\* Silence makes the device a type of a higher rank.
LEMMA SilenceClimbs ==
  SilenceType \in {"UNIVERSAL", "WII_RB", "PS3"}
BY DEF SilenceType

\* What a host that has lost the device knows of it.
LEMMA DetachTypes ==
  ASSUME Detach
  PROVE  /\ pos' \in Nat
         /\ configured' \in BOOLEAN /\ heard' \in BOOLEAN
         /\ shown' \in Types \cup {"NONE"}
<1>1. pos' \in Nat
  BY DEF Detach
<1>2. configured' \in BOOLEAN /\ heard' \in BOOLEAN
  BY DEF Detach
<1>3. shown' \in Types \cup {"NONE"}
  BY DEF Detach
<1> QED
  BY <1>1, <1>2, <1>3

\* RAM after a reset.
LEMMA BootTypes ==
  ASSUME Boot
  PROVE  /\ clock' \in 0..2 /\ should_reload_usb' = FALSE
         /\ descriptor_requested' \in BOOLEAN /\ seen_non_wii_packet' \in BOOLEAN
         /\ connected' \in BOOLEAN /\ announced' \in BOOLEAN
         /\ cleared' \subseteq Clears
         /\ pos' \in Nat /\ configured' \in BOOLEAN /\ heard' \in BOOLEAN
         /\ shown' \in Types \cup {"NONE"}
<1>1. clock' \in 0..2
  BY DEF Boot
<1>2. should_reload_usb' = FALSE /\ cleared' \subseteq Clears
  BY DEF Boot
<1>3. /\ descriptor_requested' \in BOOLEAN /\ seen_non_wii_packet' \in BOOLEAN
      /\ connected' \in BOOLEAN /\ announced' \in BOOLEAN
  BY DEF Boot
<1>4. Detach
  BY DEF Boot
<1> QED
  BY <1>1, <1>2, <1>3, <1>4, DetachTypes

-----------------------------------------------------------------------------

\* The parts of the type invariant that a restart of the USB side disturbs.
Plumbing ==
  /\ should_reload_usb \in BOOLEAN /\ (should_reload_usb => Uno)
  /\ clock \in 0..2
  /\ descriptor_requested \in BOOLEAN /\ seen_non_wii_packet \in BOOLEAN
  /\ connected \in BOOLEAN /\ announced \in BOOLEAN
  /\ cleared \subseteq Clears
  /\ pos \in Nat
  /\ configured \in BOOLEAN /\ heard \in BOOLEAN
  /\ shown \in Types \cup {"NONE"}

\* The parts that count.
Identity ==
  /\ setup \in Setups
  /\ consoleType \in Types
  /\ resets \in 0..MaxResets
  /\ changes \in Nat
  /\ changes <= Rank(consoleType)

IInv == Plumbing /\ Identity

\* Assuming a type of a higher rank, or the same type, keeps the count below the rank.
LEMMA AssumeClimbs ==
  ASSUME NEW t \in Types, Identity, Assume(t),
         t # consoleType => Rank(t) > Rank(consoleType),
         UNCHANGED <<setup, resets>>
  PROVE  Identity'
<1>1. Rank(t) \in Nat /\ Rank(consoleType) \in Nat
  BY RankValues DEF Identity
<1>2. consoleType' = t
  BY DEF Assume
<1>3. changes' \in Nat /\ changes' <= Rank(t)
  BY <1>1 DEF Assume, Identity
<1> QED
  BY <1>2, <1>3 DEF Identity

\* reset_usb() keeps the plumbing in its types.
LEMMA ResetUsbTypes ==
  ASSUME Plumbing, ResetUsb, UNCHANGED setup
  PROVE  Plumbing'
<1>1. CASE Uno
  BY <1>1 DEF ResetUsb, Plumbing, ram, hostVars, Uno
<1>2. CASE ~Uno
  BY <1>2, BootTypes DEF ResetUsb, Plumbing
<1> QED
  BY <1>1, <1>2

\* What a request leaves in RAM is of the right type.
LEMMA NoteTypes ==
  ASSUME NEW r, Plumbing, Note(r)
  PROVE  /\ descriptor_requested' \in BOOLEAN /\ seen_non_wii_packet' \in BOOLEAN
         /\ connected' \in BOOLEAN /\ announced' \in BOOLEAN
         /\ cleared' \subseteq Clears
BY DEF Note, Plumbing

\* A request keeps the invariant.
LEMMA RequestStep ==
  ASSUME NEW r \in Requests, IInv, Request(r)
  PROVE  IInv'
<1> DEFINE new == IF Reaches(r) THEN NewType(r) ELSE consoleType
<1>1. /\ Assume(new)
      /\ ServeAndRestart(r) \/ Serve(r)
      /\ UNCHANGED <<setup, resets>>
  BY DEF Request
<1>2. consoleType \in Types
  BY DEF IInv, Identity
<1>3. new \in Types /\ (new # consoleType => Rank(new) > Rank(consoleType))
  BY <1>2, RequestsClimb
<1>4. Identity'
  <2> HIDE DEF new
  <2> QED
    BY <1>1, <1>3, AssumeClimbs DEF IInv
<1>5. Plumbing'
  <2>1. CASE Serve(r)
    <3>1. Note(r)
      BY <2>1 DEF Serve
    <3>2. /\ pos' \in Nat /\ shown' \in Types \cup {"NONE"} /\ configured' \in BOOLEAN
          /\ should_reload_usb' = FALSE /\ UNCHANGED <<clock, heard>>
      BY <2>1, <1>2 DEF Serve, IInv, Plumbing
    <3> QED
      BY <3>1, <3>2, NoteTypes DEF IInv, Plumbing
  <2>2. CASE ServeAndRestart(r) /\ Uno
    <3>1. Note(r)
      BY <2>2 DEF ServeAndRestart
    <3>2. Detach /\ should_reload_usb' = FALSE /\ clock' = clock
      BY <2>2 DEF ServeAndRestart
    <3>3. Plumbing
      BY DEF IInv
    <3>4. clock' \in 0..2
      BY <3>2, <3>3 DEF Plumbing
    <3> QED
      BY <3>1, <3>2, <3>3, <3>4, NoteTypes, DetachTypes DEF Plumbing
  <2>3. CASE ServeAndRestart(r) /\ ~Uno
    BY <2>3, BootTypes DEF ServeAndRestart, Plumbing
  <2> QED
    BY <1>1, <2>1, <2>2, <2>3
<1> QED
  BY <1>4, <1>5 DEF IInv

\* Every step keeps the invariant.
LEMMA IInvStep == IInv /\ [Next]_vars => IInv'
<1> SUFFICES ASSUME IInv, [Next]_vars PROVE IInv'
  OBVIOUS
<1>t. Plumbing /\ Identity
  BY DEF IInv
<1>m. MaxResets \in Nat /\ CONSOLE_TYPE \in Types
  BY DetectAssumption
<1>1. CASE Attach
  BY <1>1, <1>t DEF Attach, IInv, Plumbing, Identity, Uno
<1>2. CASE Poll
  BY <1>2, <1>t DEF Poll, IInv, Plumbing, Identity
<1>3. ASSUME NEW r \in Requests, Request(r) PROVE IInv'
  BY <1>3, RequestStep
<1>4. CASE Silence
  <2>1. Plumbing'
    BY <1>4, <1>t, ResetUsbTypes DEF Silence
  <2>2. /\ SilenceType \in Types /\ Assume(SilenceType) /\ consoleType = "UNIVERSAL"
        /\ SilenceType # "UNIVERSAL"
    BY <1>4, SilenceClimbs DEF Silence, Types
  <2>3. Rank(SilenceType) > Rank(consoleType)
    BY <2>2, RankValues DEF Rank
  <2>4. Identity'
    BY <1>4, <1>t, <2>2, <2>3, AssumeClimbs DEF Silence
  <2> QED
    BY <2>1, <2>4 DEF IInv
<1>5. CASE Hold
  <2>1. Plumbing'
    BY <1>5, <1>t, ResetUsbTypes DEF Hold
  <2>2. setup.hold \in Types /\ Assume(setup.hold) /\ consoleType = "UNIVERSAL"
    BY <1>5, <1>t, DetectAssumption DEF Hold, Holding, Identity
  <2>3. setup.hold # consoleType => Rank(setup.hold) > Rank(consoleType)
    BY <2>2, RankValues DEF Rank
  <2>4. Identity'
    BY <1>5, <1>t, <2>2, <2>3, AssumeClimbs DEF Hold
  <2> QED
    BY <2>1, <2>4 DEF IInv
<1>6. CASE Reconnect
  <2>1. Plumbing'
    BY <1>6, <1>t, ResetUsbTypes DEF Reconnect
  <2> QED
    BY <1>6, <1>t, <2>1 DEF Reconnect, IInv, Identity
<1>7. CASE Time
  BY <1>7, <1>t DEF Time, IInv, Plumbing, Identity, ram, hostVars, Uno
<1>8. CASE Reboot
  <2>1. Plumbing'
    BY <1>8, BootTypes DEF Reboot, Plumbing
  <2>2. Rank(CONSOLE_TYPE) >= 0
    BY <1>m, RankValues
  <2>3. resets' \in 0..MaxResets
    BY <1>8, <1>t, <1>m DEF Reboot, Identity
  <2>4. /\ setup' = setup
        /\ \/ consoleType' = CONSOLE_TYPE /\ changes' = 0
           \/ UNCHANGED <<consoleType, changes>>
    BY <1>8 DEF Reboot
  <2> QED
    BY <1>t, <1>m, <2>1, <2>2, <2>3, <2>4 DEF IInv, Identity
<1>9. CASE BusReset
  <2>1. Detach /\ UNCHANGED <<setup, consoleType, should_reload_usb, clock, ram, changes>>
    BY <1>9 DEF BusReset
  <2>2. Plumbing'
    BY <1>t, <2>1, DetachTypes DEF Plumbing, ram, Uno
  <2>3. resets' \in 0..MaxResets
    BY <1>9, <1>t, <1>m DEF BusReset, Identity
  <2>4. Identity'
    BY <1>t, <2>1, <2>3 DEF Identity
  <2> QED
    BY <2>2, <2>4 DEF IInv
<1>10. CASE UNCHANGED vars
  BY <1>10, <1>t DEF vars, IInv, Plumbing, Identity, ram, hostVars, Uno
<1> QED
  BY <1>1, <1>2, <1>3, <1>4, <1>5, <1>6, <1>7, <1>8, <1>9, <1>10 DEF Next

\* The initial states satisfy it.
LEMMA IInvInit == Init => IInv
<1> SUFFICES ASSUME Init PROVE IInv
  OBVIOUS
<1>1. CONSOLE_TYPE \in Types /\ MaxResets \in Nat
  BY DetectAssumption
<1>2. Rank(CONSOLE_TYPE) >= 0
  BY <1>1, RankValues
<1>3. Plumbing
  <2>1. clock \in 0..2 /\ pos \in Nat
    BY DEF Init
  <2>2. should_reload_usb = FALSE /\ cleared \subseteq Clears
    BY DEF Init
  <2>3. /\ descriptor_requested \in BOOLEAN /\ seen_non_wii_packet \in BOOLEAN
        /\ connected \in BOOLEAN /\ announced \in BOOLEAN
        /\ configured \in BOOLEAN /\ heard \in BOOLEAN
    BY DEF Init
  <2>4. shown \in Types \cup {"NONE"}
    BY DEF Init
  <2> QED
    BY <2>1, <2>2, <2>3, <2>4 DEF Plumbing
<1>4. Identity
  BY <1>1, <1>2 DEF Init, Identity
<1> QED
  BY <1>3, <1>4 DEF IInv

-----------------------------------------------------------------------------

\* The variables of the detection stay in their types, whatever is plugged into what.
THEOREM TypeCorrect == Spec => []TypeOK
<1>1. IInv => TypeOK
  BY DEF IInv, Plumbing, Identity, TypeOK
<1> QED
  BY IInvInit, IInvStep, <1>1, PTL DEF Spec

\* No host, however it behaves, makes the device change its identity more than
\* three times.
THEOREM ChangesAreFew == Spec => []FewChanges
<1>1. IInv => FewChanges
  BY DEF IInv, Identity, FewChanges
<1> QED
  BY IInvInit, IInvStep, <1>1, PTL DEF Spec

-----------------------------------------------------------------------------
(* No host is mistaken for another.                                        *)

Hosts == {"PS3", "FAKEMOTE", "PADEMU", "WII", "PS4", "XBOX360", "WINDOWS", "XBOXONE",
          "SWITCH", "PC", "CHARGER", "ANY"}

\* The hosts there are a script for, and those that have none.
UsualHosts == \A s \in Setups : s.host \in Hosts

\* Hosts that ask for the report descriptor, and hosts whose detection comes at
\* the end of what they ask.
Readers == {"PS3", "PS4", "SWITCH", "PC"}
Askers == {"FAKEMOTE", "XBOX360", "WINDOWS", "XBOXONE"}
Scripted == Hosts \ {"CHARGER", "ANY"}

\* What the device has noticed of a host that has sent the first pos - 1 requests.
NoticedSoFar ==
  /\ setup.host \in Readers /\ pos > 3 => seen_non_wii_packet
  /\ setup.host \in Scripted /\ pos > 1 => descriptor_requested
  /\ setup.host \in Scripted /\ setup.platform # "pico" /\ pos > 0 => connected
  /\ setup.host = "WII" /\ pos > 2 => connected
  /\ setup.host = "PADEMU" /\ setup.platform = "pico" => ~ connected
  /\ setup.host \in {"FAKEMOTE", "XBOX360"} /\ pos > 3 => consoleType # "UNIVERSAL"
  /\ setup.host \in {"WINDOWS", "XBOXONE"} /\ pos > 2 => consoleType # "UNIVERSAL"

\* After two seconds it has noticed all there is, whatever the host does next.
NoticedInTime ==
  setup.prompt /\ clock > 0 =>
    /\ setup.host \in Readers => seen_non_wii_packet
    /\ setup.host \in Scripted => descriptor_requested
    /\ setup.host = "WII" => connected
    /\ setup.host \in Askers => consoleType # "UNIVERSAL"

Noticed == NoticedSoFar /\ NoticedInTime /\ NeverMistaken

\* The requests of each host that is like no other: how many it sends, and which.
LEMMA ScriptMeans ==
  /\ Script("PS3") = <<"DESCRIPTORS", "CONFIGURE", "HID_REPORT", "GET_0300", "GET_0301">>
  /\ Script("FAKEMOTE") = <<"DESCRIPTORS", "CONFIGURE", "GET_03F2">>
  /\ Script("PADEMU") = <<"DESCRIPTORS">>
  /\ Script("WII") = <<"DESCRIPTORS", "CONFIGURE">>
  /\ Script("PS4") = <<"DESCRIPTORS", "CONFIGURE", "HID_REPORT", "GET_0303">>
  /\ Script("XBOX360") = <<"DESCRIPTORS", "CONFIGURE", "0x81">>
  /\ Script("WINDOWS") = <<"DESCRIPTORS", "OS_COMPAT", "CONFIGURE", "LED">>
  /\ Script("XBOXONE") = <<"DESCRIPTORS", "OS_COMPAT", "CONFIGURE", "GIP">>
  /\ Script("SWITCH") = <<"DESCRIPTORS", "CONFIGURE", "HID_REPORT", "CLEAR_INPUT", "CLEAR_OUTPUT">>
  /\ Script("PC") = <<"DESCRIPTORS", "CONFIGURE", "HID_REPORT">>
BY DEF Script

LEMMA ScriptLengths ==
  /\ Len(Script("PS3")) = 5 /\ Len(Script("FAKEMOTE")) = 3 /\ Len(Script("PADEMU")) = 1
  /\ Len(Script("WII")) = 2 /\ Len(Script("PS4")) = 4 /\ Len(Script("XBOX360")) = 3
  /\ Len(Script("WINDOWS")) = 4 /\ Len(Script("XBOXONE")) = 4
  /\ Len(Script("SWITCH")) = 5 /\ Len(Script("PC")) = 3
BY ScriptMeans

\* What a host has still to send: at the position of a request that is noticed, it is
\* that request, and beyond the last there is nothing.
LEMMA PendingMeans ==
  ASSUME NEW r, Pending(r), setup.host \in Scripted, pos \in Nat
  PROVE  /\ pos > 0
         /\ pos = 1 => r = "DESCRIPTORS"
         /\ setup.host \in Readers /\ pos = 3 => r = "HID_REPORT"
         /\ setup.host = "WII" /\ pos = 2 => r = "CONFIGURE"
         /\ setup.host \in {"WINDOWS", "XBOXONE"} /\ pos = 2 => r = "OS_COMPAT"
         /\ setup.host = "FAKEMOTE" /\ pos = 3 => r = "GET_03F2"
         /\ setup.host = "XBOX360" /\ pos = 3 => r = "0x81"
         /\ r = "CONFIGURE" => setup.host # "PADEMU"
<1>1. /\ pos > 0 /\ pos <= Len(Script(setup.host)) /\ r = Script(setup.host)[pos]
  BY DEF Pending, Scripted, Hosts
<1>2. CASE setup.host = "PS3"
  BY <1>1, <1>2, ScriptMeans DEF Readers
<1>3. CASE setup.host = "FAKEMOTE"
  BY <1>1, <1>3, ScriptMeans DEF Readers
<1>4. CASE setup.host = "PADEMU"
  BY <1>1, <1>4, ScriptMeans DEF Readers
<1>5. CASE setup.host = "WII"
  BY <1>1, <1>5, ScriptMeans DEF Readers
<1>6. CASE setup.host = "PS4"
  BY <1>1, <1>6, ScriptMeans DEF Readers
<1>7. CASE setup.host = "XBOX360"
  BY <1>1, <1>7, ScriptMeans DEF Readers
<1>8. CASE setup.host = "WINDOWS"
  BY <1>1, <1>8, ScriptMeans DEF Readers
<1>9. CASE setup.host = "XBOXONE"
  BY <1>1, <1>9, ScriptMeans DEF Readers
<1>10. CASE setup.host = "SWITCH"
  BY <1>1, <1>10, ScriptMeans DEF Readers
<1>11. CASE setup.host = "PC"
  BY <1>1, <1>11, ScriptMeans DEF Readers
<1> QED
  BY <1>2, <1>3, <1>4, <1>5, <1>6, <1>7, <1>8, <1>9, <1>10, <1>11 DEF Scripted, Hosts

\* A host that has come to the end has sent everything.
LEMMA DoneMeans ==
  ASSUME HostDone, setup.host \in Scripted, pos \in Nat
  PROVE  /\ pos > 1
         /\ setup.host \in Readers \cup {"FAKEMOTE", "XBOX360"} => pos > 3
         /\ setup.host \in {"WII", "WINDOWS", "XBOXONE"} => pos > 2
<1>1. pos > Len(Script(setup.host))
  BY DEF HostDone, Scripted, Hosts
<1> DEFINE n == Len(Script(setup.host))
<1>2. /\ n \in Nat /\ n >= 1
      /\ setup.host \in Readers \cup {"FAKEMOTE", "XBOX360"} => n >= 3
      /\ setup.host \in {"WII", "WINDOWS", "XBOXONE"} => n >= 2
  <2>1. CASE setup.host = "PS3"
    BY <2>1, ScriptLengths DEF Readers
  <2>2. CASE setup.host = "FAKEMOTE"
    BY <2>2, ScriptLengths, SMTT(30) DEF Readers
  <2>3. CASE setup.host = "PADEMU"
    <3>1. n = 1
      BY <2>3, ScriptLengths
    <3> HIDE DEF n
    <3> QED
      BY <2>3, <3>1 DEF Readers
  <2>4. CASE setup.host = "WII"
    BY <2>4, ScriptLengths DEF Readers
  <2>5. CASE setup.host = "PS4"
    BY <2>5, ScriptLengths DEF Readers
  <2>6. CASE setup.host = "XBOX360"
    BY <2>6, ScriptLengths DEF Readers
  <2>7. CASE setup.host = "WINDOWS"
    BY <2>7, ScriptLengths DEF Readers
  <2>8. CASE setup.host = "XBOXONE"
    BY <2>8, ScriptLengths DEF Readers
  <2>9. CASE setup.host = "SWITCH"
    BY <2>9, ScriptLengths DEF Readers
  <2>10. CASE setup.host = "PC"
    <3>1. n = 3
      BY <2>10, ScriptLengths
    <3> HIDE DEF n
    <3> QED
      BY <2>10, <3>1 DEF Readers
  <2> QED
    BY <2>1, <2>2, <2>3, <2>4, <2>5, <2>6, <2>7, <2>8, <2>9, <2>10 DEF Scripted, Hosts
<1>3. pos > n
  BY <1>1
<1> HIDE DEF n
<1> QED
  BY <1>2, <1>3

\* A rule that a host's own requests meet makes the device what the host expects, or
\* Windows' and the Xbox One's common first step.
LEMMA RulesFit ==
  ASSUME NEW r, Pending(r), setup.host \in Scripted, pos \in Nat
  PROVE  \/ NewType(r) = consoleType
         \/ NewType(r) = Expected
         \/ NewType(r) = "WINDOWS_XBOXONE" /\ setup.host \in {"WINDOWS", "XBOXONE"}
<1>1. pos > 0 /\ pos <= Len(Script(setup.host)) /\ r = Script(setup.host)[pos]
  BY DEF Pending, Scripted, Hosts
<1>2. CASE setup.host = "PS3"
  <2>1. r \in {"DESCRIPTORS", "CONFIGURE", "HID_REPORT", "GET_0300", "GET_0301"}
    <3>1. pos > 0 /\ pos <= Len(Script("PS3")) /\ r = Script("PS3")[pos]
      BY <1>1, <1>2
    <3>2. pos = 1 \/ pos = 2 \/ pos = 3 \/ pos = 4 \/ pos = 5
      BY <3>1, ScriptLengths
    <3> QED
      BY <3>1, <3>2, ScriptMeans
  <2> QED
    BY <1>2, <2>1 DEF NewType, Expected, Clears
<1>3. CASE setup.host = "FAKEMOTE"
  <2>1. r \in {"DESCRIPTORS", "CONFIGURE", "GET_03F2"}
    <3>1. pos > 0 /\ pos <= Len(Script("FAKEMOTE")) /\ r = Script("FAKEMOTE")[pos]
      BY <1>1, <1>3
    <3>2. pos = 1 \/ pos = 2 \/ pos = 3
      BY <3>1, ScriptLengths
    <3> QED
      BY <3>1, <3>2, ScriptMeans
  <2> QED
    BY <1>3, <2>1 DEF NewType, Expected, Clears
<1>4. CASE setup.host = "PADEMU"
  <2>1. r = "DESCRIPTORS"
    BY <1>1, <1>4, ScriptMeans
  <2> QED
    BY <1>4, <2>1 DEF NewType, Clears
<1>5. CASE setup.host = "WII"
  <2>1. r \in {"DESCRIPTORS", "CONFIGURE"}
    <3>1. pos > 0 /\ pos <= Len(Script("WII")) /\ r = Script("WII")[pos]
      BY <1>1, <1>5
    <3>2. pos = 1 \/ pos = 2
      BY <3>1, ScriptLengths
    <3> QED
      BY <3>1, <3>2, ScriptMeans
  <2> QED
    BY <1>5, <2>1 DEF NewType, Clears
<1>6. CASE setup.host = "PS4"
  <2>1. r \in {"DESCRIPTORS", "CONFIGURE", "HID_REPORT", "GET_0303"}
    <3>1. pos > 0 /\ pos <= Len(Script("PS4")) /\ r = Script("PS4")[pos]
      BY <1>1, <1>6
    <3>2. pos = 1 \/ pos = 2 \/ pos = 3 \/ pos = 4
      BY <3>1, ScriptLengths
    <3> QED
      BY <3>1, <3>2, ScriptMeans
  <2> QED
    BY <1>6, <2>1 DEF NewType, Expected, Clears
<1>7. CASE setup.host = "XBOX360"
  <2>1. r \in {"DESCRIPTORS", "CONFIGURE", "0x81"}
    <3>1. pos > 0 /\ pos <= Len(Script("XBOX360")) /\ r = Script("XBOX360")[pos]
      BY <1>1, <1>7
    <3>2. pos = 1 \/ pos = 2 \/ pos = 3
      BY <3>1, ScriptLengths
    <3> QED
      BY <3>1, <3>2, ScriptMeans
  <2> QED
    BY <1>7, <2>1 DEF NewType, Expected, Clears
<1>8. CASE setup.host = "WINDOWS"
  <2>1. r \in {"DESCRIPTORS", "OS_COMPAT", "CONFIGURE", "LED"}
    <3>1. pos > 0 /\ pos <= Len(Script("WINDOWS")) /\ r = Script("WINDOWS")[pos]
      BY <1>1, <1>8
    <3>2. pos = 1 \/ pos = 2 \/ pos = 3 \/ pos = 4
      BY <3>1, ScriptLengths
    <3> QED
      BY <3>1, <3>2, ScriptMeans
  <2> QED
    BY <1>8, <2>1 DEF NewType, Expected, Clears
<1>9. CASE setup.host = "XBOXONE"
  <2>1. r \in {"DESCRIPTORS", "OS_COMPAT", "CONFIGURE", "GIP"}
    <3>1. pos > 0 /\ pos <= Len(Script("XBOXONE")) /\ r = Script("XBOXONE")[pos]
      BY <1>1, <1>9
    <3>2. pos = 1 \/ pos = 2 \/ pos = 3 \/ pos = 4
      BY <3>1, ScriptLengths
    <3> QED
      BY <3>1, <3>2, ScriptMeans
  <2> QED
    BY <1>9, <2>1 DEF NewType, Expected, Clears
<1>10. CASE setup.host = "SWITCH"
  <2>1. r \in {"DESCRIPTORS", "CONFIGURE", "HID_REPORT", "CLEAR_INPUT", "CLEAR_OUTPUT"}
    <3>1. pos > 0 /\ pos <= Len(Script("SWITCH")) /\ r = Script("SWITCH")[pos]
      BY <1>1, <1>10
    <3>2. pos = 1 \/ pos = 2 \/ pos = 3 \/ pos = 4 \/ pos = 5
      BY <3>1, ScriptLengths
    <3> QED
      BY <3>1, <3>2, ScriptMeans
  <2> QED
    BY <1>10, <2>1 DEF NewType, Expected, Clears
<1>11. CASE setup.host = "PC"
  <2>1. r \in {"DESCRIPTORS", "CONFIGURE", "HID_REPORT"}
    <3>1. pos > 0 /\ pos <= Len(Script("PC")) /\ r = Script("PC")[pos]
      BY <1>1, <1>11
    <3>2. pos = 1 \/ pos = 2 \/ pos = 3
      BY <3>1, ScriptLengths
    <3> QED
      BY <3>1, <3>2, ScriptMeans
  <2> QED
    BY <1>11, <2>1 DEF NewType, Clears
<1> QED
  BY <1>2, <1>3, <1>4, <1>5, <1>6, <1>7, <1>8, <1>9, <1>10, <1>11 DEF Scripted, Hosts

\* The type is one the host expects, the one the build starts with, the one that was
\* chosen, or one of the exceptions of NeverMistaken.
Fits(type) ==
  \/ type \in Wanted \cup {CONSOLE_TYPE, setup.hold}
  \/ type = "WINDOWS_XBOXONE" /\ setup.host \in {"WINDOWS", "XBOXONE"}
  \/ type = "WII_RB" /\ setup.host = "PADEMU" /\ Unrecognised
  \/ type \in {"WII_RB", "PS3"} /\ ~ setup.prompt

LEMMA FitsMeans ==
  ASSUME UNCHANGED setup, Fits(consoleType')
  PROVE  NeverMistaken'
BY DEF Fits, NeverMistaken, Wanted, Expected, Chosen, Known, Unrecognised

LEMMA NeverMistakenMeans ==
  /\ NeverMistaken => (Known => Fits(consoleType))
  /\ Fits(Expected) /\ Fits(CONSOLE_TYPE) /\ Fits(setup.hold)
BY DEF NeverMistaken, Fits, Wanted

\* Silence fits the host that keeps it, but for PADEMU on the boards that take it for a
\* Wii, and for hosts that are not prompt.
LEMMA SilenceFits ==
  ASSUME Noticed, clock > 0, setup.host \in Scripted, setup.prompt \in BOOLEAN,
         consoleType = "UNIVERSAL", SilenceType # "UNIVERSAL"
  PROVE  Fits(SilenceType)
<1>1. CASE ~ setup.prompt
  BY <1>1, SilenceClimbs DEF Fits
<1>2. CASE setup.prompt
  <2>1. /\ setup.host \in Readers => seen_non_wii_packet
        /\ descriptor_requested
        /\ setup.host = "WII" => connected
        /\ setup.host \notin Askers
    BY <1>2 DEF Noticed, NoticedInTime
  <2>2. ~ seen_non_wii_packet /\ setup.device \in {"GUITAR", "DRUMS", "LIVE_GUITAR"}
    BY <2>1 DEF SilenceType
  <2>3. CASE setup.host = "WII"
    <3>1. SilenceType = Expected
      BY <2>1, <2>2, <2>3 DEF SilenceType, Expected
    <3> QED
      BY <3>1, NeverMistakenMeans
  <2>4. CASE setup.host = "PADEMU"
    <3>1. setup.platform = "pico" => ~ connected
      BY <2>4 DEF Noticed, NoticedSoFar
    <3>2. SilenceType = "PS3" \/ (SilenceType = "WII_RB" /\ Unrecognised)
      BY <2>1, <2>2, <2>4, <3>1 DEF SilenceType, Unrecognised
    <3>3. Expected = "PS3"
      BY <2>4 DEF Expected
    <3>4. SilenceType = "WII_RB" /\ Unrecognised => Fits(SilenceType)
      BY <2>4 DEF Fits
    <3> QED
      BY <3>2, <3>3, <3>4, NeverMistakenMeans
  <2> QED
    BY <2>1, <2>2, <2>3, <2>4 DEF Scripted, Hosts, Readers, Askers
<1> QED
  BY <1>1, <1>2

\* Every type but the one a build starts with is left only for another.
LEMMA NeverBack ==
  ASSUME NEW r, consoleType # "UNIVERSAL"
  PROVE  NewType(r) # "UNIVERSAL"
BY DEF NewType

\* The requests after which a host is known.
LEMMA AskersAreKnown ==
  ASSUME NEW r \in {"OS_COMPAT", "GET_03F2", "0x81"}
  PROVE  NewType(r) # "UNIVERSAL"
BY DEF NewType, Clears

\* A device that has restarted has noticed nothing yet, and neither has its host.
LEMMA BootNotices ==
  ASSUME Boot, UNCHANGED setup
  PROVE  NoticedSoFar' /\ NoticedInTime'
<1>1. clock' = 0 /\ pos' = 0 /\ connected' = FALSE
  BY DEF Boot, Detach
<1> QED
  BY <1>1 DEF NoticedSoFar, NoticedInTime

\* A device that the host no longer sees remembers what it noticed.
LEMMA DetachNotices ==
  ASSUME NoticedSoFar, NoticedInTime, Detach, UNCHANGED <<setup, clock>>,
         consoleType # "UNIVERSAL" => consoleType' # "UNIVERSAL",
         descriptor_requested => descriptor_requested',
         seen_non_wii_packet => seen_non_wii_packet',
         connected => connected',
         setup.platform = "pico" /\ setup.host = "PADEMU" => connected' = connected
  PROVE  NoticedSoFar' /\ NoticedInTime'
<1>1. pos' = 0
  BY DEF Detach
<1>2. NoticedSoFar'
  BY <1>1 DEF NoticedSoFar
<1>3. NoticedInTime'
  BY DEF NoticedInTime
<1> QED
  BY <1>2, <1>3

\* What a request leaves in RAM is there to stay.
LEMMA NoteKeeps ==
  ASSUME NEW r, Note(r), Plumbing
  PROVE  /\ descriptor_requested => descriptor_requested'
         /\ seen_non_wii_packet => seen_non_wii_packet'
         /\ connected => connected'
         /\ r = "DESCRIPTORS" => descriptor_requested'
         /\ r = "HID_REPORT" => descriptor_requested' /\ seen_non_wii_packet'
         /\ setup.platform = "pico" /\ r = "CONFIGURE" => connected'
         /\ r # "CONFIGURE" => connected' = connected
BY DEF Note, Plumbing

LEMMA RequestNotices ==
  ASSUME IInv, Noticed, NEW r \in Requests, Request(r)
  PROVE  NoticedSoFar' /\ NoticedInTime'
<1> DEFINE new == IF Reaches(r) THEN NewType(r) ELSE consoleType
<1>1. /\ Pending(r) /\ Assume(new)
      /\ ServeAndRestart(r) \/ Serve(r)
      /\ setup' = setup
  BY DEF Request
<1>2. pos \in Nat /\ Plumbing
  BY DEF IInv, Plumbing
<1>3. NoticedSoFar /\ NoticedInTime
  BY DEF Noticed
<1>4. /\ consoleType' = new
      /\ consoleType # "UNIVERSAL" => consoleType' # "UNIVERSAL"
      /\ r \in {"OS_COMPAT", "GET_03F2", "0x81"} => consoleType' # "UNIVERSAL"
  <2>1. consoleType' = new
    BY <1>1 DEF Assume
  <2>2. consoleType # "UNIVERSAL" => new # "UNIVERSAL"
    BY NeverBack
  <2>3. r \in {"OS_COMPAT", "GET_03F2", "0x81"} => Reaches(r)
    BY DEF Reaches, Clears
  <2>4. r \in {"OS_COMPAT", "GET_03F2", "0x81"} => new # "UNIVERSAL"
    BY <2>3, AskersAreKnown
  <2> HIDE DEF new
  <2> QED
    BY <2>1, <2>2, <2>4
<1>5. CASE setup.host \notin Scripted
  BY <1>1, <1>5 DEF NoticedSoFar, NoticedInTime, Scripted, Hosts, Readers, Askers
<1>6. CASE setup.host \in Scripted
  <2>p. /\ pos > 0
        /\ pos = 1 => r = "DESCRIPTORS"
        /\ setup.host \in Readers /\ pos = 3 => r = "HID_REPORT"
        /\ setup.host = "WII" /\ pos = 2 => r = "CONFIGURE"
        /\ setup.host \in {"WINDOWS", "XBOXONE"} /\ pos = 2 => r = "OS_COMPAT"
        /\ setup.host = "FAKEMOTE" /\ pos = 3 => r = "GET_03F2"
        /\ setup.host = "XBOX360" /\ pos = 3 => r = "0x81"
        /\ r = "CONFIGURE" => setup.host # "PADEMU"
    BY <1>1, <1>2, <1>6, PendingMeans
  <2>1. CASE ServeAndRestart(r) /\ ~ Uno
    BY <1>1, <2>1, BootNotices DEF ServeAndRestart
  <2>2. CASE ServeAndRestart(r) /\ Uno
    <3>1. Note(r) /\ Detach /\ clock' = clock
      BY <2>2 DEF ServeAndRestart
    <3>2. setup.platform # "pico"
      BY <2>2 DEF Uno
    <3> HIDE DEF new
    <3> QED
      BY <1>1, <1>2, <1>3, <1>4, <3>1, <3>2, NoteKeeps, DetachNotices
  <2>3. CASE Serve(r)
    <3>1. Note(r) /\ clock' = clock
      BY <2>3 DEF Serve
    <3>2. pos' = pos + 1
      BY <1>6, <2>3 DEF Serve, Scripted
    <3>3. /\ descriptor_requested => descriptor_requested'
          /\ seen_non_wii_packet => seen_non_wii_packet'
          /\ connected => connected'
          /\ r = "DESCRIPTORS" => descriptor_requested'
          /\ r = "HID_REPORT" => seen_non_wii_packet'
          /\ setup.platform = "pico" /\ r = "CONFIGURE" => connected'
          /\ r # "CONFIGURE" => connected' = connected
      BY <1>2, <3>1, NoteKeeps
    <3> HIDE DEF new
    <3>4. setup.host \in Readers /\ pos' > 3 => seen_non_wii_packet'
      BY <1>2, <1>3, <2>p, <3>2, <3>3 DEF NoticedSoFar
    <3>5. pos' > 1 => descriptor_requested'
      BY <1>2, <1>3, <1>6, <2>p, <3>2, <3>3 DEF NoticedSoFar
    <3>6. setup.platform # "pico" /\ pos' > 0 => connected'
      BY <1>2, <1>3, <1>6, <2>p, <3>2, <3>3 DEF NoticedSoFar
    <3>7. setup.host = "WII" /\ pos' > 2 => connected'
      BY <1>2, <1>3, <1>6, <2>p, <3>2, <3>3 DEF NoticedSoFar
    <3>8. setup.host = "PADEMU" /\ setup.platform = "pico" => ~ connected'
      BY <1>3, <2>p, <3>3 DEF NoticedSoFar
    <3>9. setup.host \in {"FAKEMOTE", "XBOX360"} /\ pos' > 3 => consoleType' # "UNIVERSAL"
      BY <1>2, <1>3, <1>4, <2>p, <3>2 DEF NoticedSoFar
    <3>10. setup.host \in {"WINDOWS", "XBOXONE"} /\ pos' > 2 => consoleType' # "UNIVERSAL"
      BY <1>2, <1>3, <1>4, <2>p, <3>2 DEF NoticedSoFar
    <3>11. NoticedSoFar'
      BY <1>1, <3>4, <3>5, <3>6, <3>7, <3>8, <3>9, <3>10 DEF NoticedSoFar
    <3>12. NoticedInTime'
      BY <1>1, <1>3, <1>4, <3>1, <3>3 DEF NoticedInTime
    <3> QED
      BY <3>11, <3>12
  <2> QED
    BY <1>1, <2>1, <2>2, <2>3
<1> QED
  BY <1>5, <1>6

\* reset_usb() called from tick().
LEMMA ResetUsbNotices ==
  ASSUME NoticedSoFar, NoticedInTime, ResetUsb, UNCHANGED setup,
         consoleType # "UNIVERSAL" => consoleType' # "UNIVERSAL"
  PROVE  NoticedSoFar' /\ NoticedInTime'
<1>1. CASE Uno
  <2>1. UNCHANGED <<clock, ram, hostVars>>
    BY <1>1 DEF ResetUsb
  <2> QED
    BY <2>1 DEF NoticedSoFar, NoticedInTime, ram, hostVars
<1>2. CASE ~ Uno
  BY <1>2, BootNotices DEF ResetUsb
<1> QED
  BY <1>1, <1>2

LEMMA NoticedInit ==
  ASSUME UsualHosts, Init
  PROVE  Noticed
<1>1. NoticedSoFar /\ NoticedInTime
  BY DEF Init, NoticedSoFar, NoticedInTime
<1>2. NeverMistaken
  BY DEF Init, NeverMistaken
<1> QED
  BY <1>1, <1>2 DEF Noticed

LEMMA NoticedStep == UsualHosts /\ IInv /\ Noticed /\ [Next]_vars => Noticed'
<1> SUFFICES ASSUME UsualHosts, IInv, Noticed, [Next]_vars PROVE Noticed'
  OBVIOUS
<1>h. /\ setup.host \in Hosts /\ (Known <=> setup.host \in Scripted)
      /\ setup.host \notin Scripted => ~ Known
      /\ setup.prompt \in BOOLEAN
  BY DetectAssumption DEF IInv, Identity, UsualHosts, Scripted, Hosts, Known
<1>n. NoticedSoFar /\ NoticedInTime /\ NeverMistaken /\ Plumbing /\ pos \in Nat
  BY DEF Noticed, IInv, Plumbing
<1>s. setup' = setup
  BY DEF Next, Attach, Poll, Request, Silence, Hold, Reconnect, Time, Reboot, BusReset, vars
<1>k. ASSUME consoleType' = consoleType PROVE NeverMistaken'
  BY <1>n, <1>s, <1>k DEF NeverMistaken, Wanted, Expected, Chosen, Known, Unrecognised
<1>u. ASSUME ~ Known PROVE NeverMistaken'
  BY <1>s, <1>u DEF NeverMistaken, Known
<1>1. CASE Attach
  <2>1. /\ pos' = 1 /\ connected' = (connected \/ setup.platform # "pico")
        /\ UNCHANGED <<consoleType, clock, descriptor_requested, seen_non_wii_packet>>
    BY <1>1 DEF Attach
  <2>2. connected \in BOOLEAN
    BY <1>n DEF Plumbing
  <2>3. /\ connected => connected'
        /\ setup.platform = "pico" => connected' = connected
        /\ setup.platform # "pico" => connected'
    BY <2>1, <2>2
  <2>4. NoticedSoFar'
    BY <1>n, <1>s, <2>1, <2>3 DEF NoticedSoFar
  <2>5. NoticedInTime'
    BY <1>n, <1>s, <2>1, <2>3 DEF NoticedInTime
  <2> QED
    BY <1>k, <2>1, <2>4, <2>5 DEF Noticed
<1>2. CASE Poll \/ UNCHANGED vars
  <2>1. UNCHANGED <<consoleType, clock, descriptor_requested, seen_non_wii_packet, connected,
                    pos>>
    BY <1>2 DEF Poll, vars, ram, hostVars
  <2>2. NoticedSoFar' /\ NoticedInTime'
    BY <1>n, <1>s, <2>1 DEF NoticedSoFar, NoticedInTime
  <2> QED
    BY <1>k, <2>1, <2>2 DEF Noticed
<1>3. ASSUME NEW r \in Requests, Request(r) PROVE Noticed'
  <2>1. NoticedSoFar' /\ NoticedInTime'
    BY <1>3, RequestNotices
  <2>2. Pending(r) /\ (consoleType' = NewType(r) \/ consoleType' = consoleType)
    BY <1>3 DEF Request, Assume
  <2>3. NeverMistaken'
    <3>1. CASE setup.host \in Scripted /\ consoleType' # consoleType
      <4>1. Fits(NewType(r))
        BY <1>n, <2>2, <3>1, RulesFit, NeverMistakenMeans DEF Fits
      <4> QED
        BY <1>s, <2>2, <3>1, <4>1, FitsMeans
    <3> QED
      BY <1>h, <1>k, <1>u, <3>1
  <2> QED
    BY <2>1, <2>3 DEF Noticed
<1>4. CASE Silence
  <2>1. /\ clock > 0 /\ consoleType = "UNIVERSAL" /\ SilenceType # "UNIVERSAL"
        /\ consoleType' = SilenceType /\ ResetUsb
    BY <1>4 DEF Silence, Assume
  <2>2. NoticedSoFar' /\ NoticedInTime'
    BY <1>n, <1>s, <2>1, ResetUsbNotices
  <2>3. NeverMistaken'
    <3>1. CASE setup.host \in Scripted
      <4>1. Fits(SilenceType)
        BY <1>h, <2>1, <3>1, SilenceFits
      <4> QED
        BY <1>s, <2>1, <4>1, FitsMeans
    <3> QED
      BY <1>h, <1>u, <3>1
  <2> QED
    BY <2>2, <2>3 DEF Noticed
<1>5. CASE Hold
  <2>1. consoleType = "UNIVERSAL" /\ consoleType' = setup.hold /\ ResetUsb
    BY <1>5 DEF Hold, Holding, Assume
  <2>2. NoticedSoFar' /\ NoticedInTime'
    BY <1>n, <1>s, <2>1, ResetUsbNotices
  <2>3. NeverMistaken'
    BY <1>s, <2>1, NeverMistakenMeans, FitsMeans
  <2> QED
    BY <2>2, <2>3 DEF Noticed
<1>6. CASE Reconnect
  <2>1. consoleType' = consoleType /\ ResetUsb
    BY <1>6 DEF Reconnect
  <2>2. NoticedSoFar' /\ NoticedInTime'
    BY <1>n, <1>s, <2>1, ResetUsbNotices
  <2> QED
    BY <1>k, <2>1, <2>2 DEF Noticed
<1>7. CASE Time
  <2>1. /\ clock = 0 => (setup.prompt => HostDone)
        /\ clock' = clock + 1
        /\ UNCHANGED <<consoleType, ram, hostVars>>
    BY <1>7 DEF Time
  <2>2. NoticedSoFar'
    BY <1>n, <1>s, <2>1 DEF NoticedSoFar, ram, hostVars
  <2>3. NoticedInTime'
    <3>1. CASE clock > 0
      BY <1>n, <1>s, <2>1, <3>1 DEF NoticedInTime, ram
    <3>2. CASE clock = 0 /\ setup.host \in Scripted /\ setup.prompt
      <4>1. /\ pos > 1
            /\ setup.host \in Readers \cup {"FAKEMOTE", "XBOX360"} => pos > 3
            /\ setup.host \in {"WII", "WINDOWS", "XBOXONE"} => pos > 2
        BY <1>n, <2>1, <3>2, DoneMeans
      <4>2. setup.host \in Readers => seen_non_wii_packet
        BY <1>n, <4>1 DEF NoticedSoFar
      <4>3. descriptor_requested
        BY <1>n, <3>2, <4>1 DEF NoticedSoFar
      <4>4. setup.host = "WII" => connected
        BY <1>n, <4>1 DEF NoticedSoFar
      <4>5. setup.host \in Askers => consoleType # "UNIVERSAL"
        BY <1>n, <4>1 DEF NoticedSoFar, Askers
      <4> QED
        BY <1>s, <2>1, <4>2, <4>3, <4>4, <4>5 DEF NoticedInTime, ram
    <3>3. CASE setup.host \notin Scripted
      BY <1>s, <3>3 DEF NoticedInTime, Scripted, Hosts, Readers, Askers
    <3>4. clock > 0 \/ clock = 0
      BY <1>n DEF Plumbing
    <3>5. CASE ~ setup.prompt
      BY <1>s, <3>5 DEF NoticedInTime
    <3> QED
      BY <3>1, <3>2, <3>3, <3>4, <3>5
  <2> QED
    BY <1>k, <2>1, <2>2, <2>3 DEF Noticed
<1>8. CASE Reboot
  <2>1. Boot /\ (consoleType' = CONSOLE_TYPE \/ consoleType' = consoleType)
    BY <1>8 DEF Reboot
  <2>2. NoticedSoFar' /\ NoticedInTime'
    BY <1>s, <2>1, BootNotices
  <2>3. NeverMistaken'
    BY <1>s, <1>k, <2>1, NeverMistakenMeans, FitsMeans
  <2> QED
    BY <2>2, <2>3 DEF Noticed
<1>9. CASE BusReset
  <2>1. Detach /\ UNCHANGED <<consoleType, clock, ram>>
    BY <1>9 DEF BusReset
  <2>2. NoticedSoFar' /\ NoticedInTime'
    BY <1>n, <1>s, <2>1, DetachNotices DEF ram
  <2> QED
    BY <1>k, <2>1, <2>2 DEF Noticed
<1> QED
  BY <1>1, <1>2, <1>3, <1>4, <1>5, <1>6, <1>7, <1>8, <1>9 DEF Next

\* Whatever the device, the platform, the type the build starts with and the button that
\* is held, and however often the bus is reset: a rule meant for one host is never met
\* by another, but for the two cases NeverMistaken names.
THEOREM HostsAreNotMistaken == UsualHosts => (Spec => []NeverMistaken)
<1>1. UsualHosts /\ Init => IInv /\ Noticed
  BY IInvInit, NoticedInit
<1>2. UsualHosts /\ (IInv /\ Noticed) /\ [Next]_vars => (IInv /\ Noticed)'
  BY IInvStep, NoticedStep
<1>3. Noticed => NeverMistaken
  BY DEF Noticed
<1>4. UsualHosts => []UsualHosts
  <2>1. UsualHosts => UsualHosts'
    BY DEF UsualHosts
  <2> QED
    BY <2>1, PTL
<1> QED
  BY <1>1, <1>2, <1>3, <1>4, PTL DEF Spec
=============================================================================
