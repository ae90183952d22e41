---------------------------- MODULE UnoBridge_proofs ----------------------------
(***************************************************************************)
(* For every set of console types, the bridge keeps its types, never       *)
(* forgets a detection made before the endpoints are configured, and shows *)
(* the host one identity per enumeration.  UnoLink_proofs carries the      *)
(* results down to the link.                                               *)
(***************************************************************************)
EXTENDS UnoBridge, TLAPS

-----------------------------------------------------------------------------
(* The bridge: the inductive invariant. *)

\* Endpoint traffic needs configured endpoints, or the bus was reset under it: the
\* only reader that drops a RESTART does not run once the host has been shown an
\* identity and is still enumerating.
DataOutOfTheWay ==
  (phase # "idle" /\ req \in DataIds /\ ~configured) => seen = {}

\* An answer was built for the console in force, unless a restart is wanted since,
\* and agrees with what the host was already shown.
AnswerCurrent ==
  (phase = "answered" /\ reply.id # RESTART)
     => /\ reply.console = consoleType \/ should_reload_usb
        /\ ~configured => seen \subseteq {reply.console}

SeenAtMostOne == ~configured => \A a, b \in seen : a = b

IInv ==
  /\ TypeOK
  /\ DetectionSound
  /\ DataOutOfTheWay
  /\ AnswerCurrent
  /\ SeenAtMostOne

-----------------------------------------------------------------------------

\* A packet identifier is of one of the two groups, and RESTART is of neither:
\* what the readers of main.c tell apart.
LEMMA IdsDisjoint ==
  /\ ControlIds \cap DataIds = {}
  /\ RESTART \notin ControlIds \cup DataIds
  /\ IdentityIds \subseteq ControlIds
BY DEF ControlIds, DataIds, IdentityIds, RESTART

\* Every step keeps the variables in their types.
LEMMA TypeStep == TypeOK /\ [Next]_vars => TypeOK'
<1> SUFFICES ASSUME TypeOK, [Next]_vars PROVE TypeOK'
  OBVIOUS
<1> USE ConsolesAssumption, IdsDisjoint
<1>1. ASSUME NEW id \in ControlIds \cup DataIds, Send(id) PROVE TypeOK'
  BY <1>1 DEF TypeOK, Send
<1>2. CASE ReceiveControl
  <2>1. CASE reply.id = RESTART
    BY <1>2, <2>1 DEF TypeOK, ReceiveControl, RestartUsb
  <2>2. CASE reply.id # RESTART /\ req = "CONTROL_REQUEST_VALIDATION_ID" /\ reply.valid
    BY <1>2, <2>2 DEF TypeOK, ReceiveControl, ControlIds
  <2>3. CASE reply.id # RESTART /\ ~(req = "CONTROL_REQUEST_VALIDATION_ID" /\ reply.valid)
    <3>1. reply.console \in Consoles
      BY DEF TypeOK, Replies
    <3>2. seen' \in SUBSET Consoles /\ configured' \in BOOLEAN /\ phase' = "idle"
      BY <1>2, <2>3, <3>1 DEF TypeOK, ReceiveControl
    <3>3. UNCHANGED <<req, reply, consoleType, should_reload_usb>>
      BY <1>2, <2>3 DEF ReceiveControl
    <3> QED
      BY <3>2, <3>3 DEF TypeOK
  <2> QED
    BY <2>1, <2>2, <2>3
<1>3. CASE ReceiveData
  BY <1>3 DEF TypeOK, ReceiveData
<1>4. CASE BusReset
  BY <1>4 DEF TypeOK, BusReset
<1>5. CASE Reboot
  BY <1>5 DEF TypeOK, Reboot
<1>6. ASSUME NEW c \in Consoles, Detect(c) PROVE TypeOK'
  BY <1>6 DEF TypeOK, Detect
<1>7. ASSUME NEW valid \in BOOLEAN, Answer(valid) PROVE TypeOK'
  BY <1>7 DEF TypeOK, Answer, Replies
<1>8. CASE UNCHANGED vars
  BY <1>8 DEF TypeOK, vars
<1> QED
  BY <1>1, <1>2, <1>3, <1>4, <1>5, <1>6, <1>7, <1>8 DEF Next

\* The invariant holds when both processors have just started.
LEMMA InitIInv == Init => IInv
<1> SUFFICES ASSUME Init PROVE IInv
  OBVIOUS
<1>1. TypeOK
  BY ConsolesAssumption DEF Init, TypeOK, Replies, ControlIds
<1>2. DetectionSound /\ SeenAtMostOne
  BY DEF Init, DetectionSound, SeenAtMostOne
<1>3. DataOutOfTheWay /\ AnswerCurrent
  BY DEF Init, DataOutOfTheWay, AnswerCurrent
<1> QED
  BY <1>1, <1>2, <1>3 DEF IInv

\* Every step preserves the invariant.
LEMMA StepIInv == IInv /\ [Next]_vars => IInv'
<1> SUFFICES ASSUME IInv, [Next]_vars PROVE IInv'
  OBVIOUS
<1>t. TypeOK /\ TypeOK'
  BY TypeStep DEF IInv
<1> DEFINE Parts == DetectionSound /\ DataOutOfTheWay /\ AnswerCurrent /\ SeenAtMostOne
<1> SUFFICES Parts'
  BY <1>t DEF IInv
<1> USE DEF DetectionSound, RestartPending, DataOutOfTheWay, AnswerCurrent, SeenAtMostOne
<1>i. Parts
  BY DEF IInv
<1>1. ASSUME NEW id \in ControlIds \cup DataIds, Send(id) PROVE Parts'
  BY <1>1, <1>i DEF Send
<1>2. CASE ReceiveControl
  <2>1. CASE reply.id = RESTART
    BY <1>2, <2>1 DEF ReceiveControl, RestartUsb
  <2>2. CASE reply.id # RESTART /\ req = "CONTROL_REQUEST_VALIDATION_ID" /\ reply.valid
    BY <1>2, <2>2, <1>i, IdsDisjoint DEF ReceiveControl, ControlIds
  <2>3. CASE reply.id # RESTART /\ ~(req = "CONTROL_REQUEST_VALIDATION_ID" /\ reply.valid)
    <3>1. /\ phase = "answered" /\ phase' = "idle"
          /\ UNCHANGED <<req, reply, consoleType, should_reload_usb>>
          /\ seen' \subseteq seen \cup {reply.console}
          /\ ~configured' => ~configured
      BY <1>2, <2>3 DEF ReceiveControl
    <3>2. ASSUME ~configured'
          PROVE  /\ seen' \subseteq {reply.console}
                 /\ reply.console = consoleType \/ should_reload_usb
      BY <3>1, <3>2, <2>3, <1>i
    <3> QED
      BY <3>1, <3>2
  <2> QED
    BY <2>1, <2>2, <2>3
<1>3. CASE ReceiveData
  BY <1>3, <1>i DEF ReceiveData
<1>4. CASE BusReset
  BY <1>4, <1>i DEF BusReset
<1>5. CASE Reboot
  BY <1>5 DEF Reboot
<1>6. ASSUME NEW c \in Consoles, Detect(c) PROVE Parts'
  BY <1>6, <1>i DEF Detect
<1>7. ASSUME NEW valid \in BOOLEAN, Answer(valid) PROVE Parts'
  <2>1. /\ phase = "requested" /\ phase' = "answered"
        /\ reply'.id = IF should_reload_usb THEN RESTART ELSE req
        /\ reply'.console = consoleType
        /\ UNCHANGED <<req, consoleType, configured, seen>>
    BY <1>7 DEF Answer
  <2>2. CASE should_reload_usb
    BY <2>1, <2>2, <1>i
  <2>3. CASE ~should_reload_usb
    BY <2>1, <2>3, <1>i
  <2> QED
    BY <2>2, <2>3
<1>8. CASE UNCHANGED vars
  BY <1>8, <1>i DEF vars
<1> QED
  BY <1>1, <1>2, <1>3, <1>4, <1>5, <1>6, <1>7, <1>8 DEF Next

\* The strengthened invariant holds throughout every behaviour.
THEOREM InvariantHolds == Spec => []IInv
<1>1. IInv /\ [Next]_vars => IInv'
  BY StepIInv
<1> QED
  BY InitIInv, <1>1, PTL DEF Spec

\* The bridge's variables stay in their types.
THEOREM TypeCorrect == Spec => []TypeOK
<1>1. IInv => TypeOK
  BY DEF IInv
<1> QED
  BY InvariantHolds, <1>1, PTL

\* A detection made while the host enumerates the device is never forgotten
\* between the 328p and the 8u2.
THEOREM DetectionIsSound == Spec => []DetectionSound
<1>1. IInv => DetectionSound
  BY DEF IInv
<1> QED
  BY InvariantHolds, <1>1, PTL

\* What an identity's reader adds to what the host saw keeps it to one type.
LEMMA IdentityStep ==
  IInv /\ [Next]_vars => [(~configured /\ seen' # {}) => \E c \in Consoles : seen' = {c}]_vars
<1> SUFFICES ASSUME IInv, Next, ~configured, seen' # {}
             PROVE  \E c \in Consoles : seen' = {c}
  OBVIOUS
<1>1. seen' \in SUBSET Consoles
  BY TypeStep DEF IInv, TypeOK
<1>2. \A a, b \in seen' : a = b
  <2> USE DEF IInv, SeenAtMostOne, AnswerCurrent
  <2>1. CASE ReceiveControl
    BY <2>1 DEF ReceiveControl, RestartUsb
  <2>2. CASE ~ReceiveControl
    <3>1. seen' = seen \/ seen' = {}
      BY <2>2 DEF Next, Send, ReceiveData, BusReset, Reboot, Detect, Answer
    <3> QED
      BY <3>1
  <2> QED
    BY <2>1, <2>2
<1>3. PICK c \in seen' : TRUE
  OBVIOUS
<1> QED
  BY <1>1, <1>2, <1>3

\* One enumeration shows the host one identity.
THEOREM IdentityIsOne == Spec => OneIdentity
<1>1. Spec => []IInv /\ [][Next]_vars
  BY InvariantHolds DEF Spec
<1>2. Spec => [][(~configured /\ seen' # {}) => \E c \in Consoles : seen' = {c}]_vars
  BY <1>1, IdentityStep, PTL
<1> QED
  BY <1>2 DEF OneIdentity

=============================================================================
