----------------------------- MODULE Uno8u2_proofs -----------------------------
(***************************************************************************)
(* The firmware of the 8u2: its serial rings and its modes.                *)
(*                                                                         *)
(* SerialRing: for every ring size, the transmit interrupt is enabled      *)
(* exactly when bytes wait for it, provided that a write is at least as    *)
(* long as the number of times the interrupt can fire inside FINISH_WRITE  *)
(* and that the host changes the line only while the ring is empty.  The   *)
(* ring then implements the queue of ByteFifo.                             *)
(*                                                                         *)
(* UnoModes: for any contents of RAM at power-up that are not a command,   *)
(* and any number of power cycles, every mode the host asked for is        *)
(* reached before the 8u2 is a controller again, and a controller has a    *)
(* 328p that answers it.                                                   *)
(***************************************************************************)
EXTENDS SerialRing, UnoModes, SequenceTheorems, TLAPS

\* The two provisos of the rings.  The controller's packets have a header of 3 bytes, and the
\* UART buffers 2.
LongWrites == MinWrite >= Window

QuietFlush == FlushBusy = FALSE

-----------------------------------------------------------------------------
(* Distances on the ring. *)

\* Bytes from slot p up to slot q.
Dist(p, q) == (q + Size - p) % Size

\* The distance without the modulus: how serial_macros.h's masks wrap around.
LEMMA DistValue ==
  ASSUME NEW p \in Slots, NEW q \in Slots
  PROVE  /\ Dist(p, q) = IF p <= q THEN q - p ELSE q + Size - p
         /\ Dist(p, q) \in Slots
<1> USE RingAssumption DEF Slots, Dist
<1>1. CASE p <= q
  <2>1. (q - p) \in 0..Size - 1 /\ q + Size - p = (q - p) + Size
    BY <1>1
  <2>2. ((q - p) + Size) % Size = q - p
    BY <2>1
  <2> QED
    BY <1>1, <2>1, <2>2
<1>2. CASE p > q
  <2>1. (q + Size - p) \in 0..Size - 1
    BY <1>2
  <2>2. (q + Size - p) % Size = q + Size - p
    BY <2>1
  <2> QED
    BY <1>2, <2>1, <2>2
<1> QED
  BY <1>1, <1>2

\* Advancing a pointer by one slot.
LEMMA IncValue ==
  ASSUME NEW p \in Slots
  PROVE  /\ Inc(p) = IF p = Size - 1 THEN 0 ELSE p + 1
         /\ Inc(p) \in Slots
<1> USE RingAssumption DEF Slots, Inc
<1>1. CASE p = Size - 1
  <2>1. 0 \in 0..Size - 1 /\ p + 1 = 0 + Size
    BY <1>1
  <2>2. (0 + Size) % Size = 0
    BY <2>1
  <2> QED
    BY <1>1, <2>1, <2>2
<1>2. CASE p # Size - 1
  <2>1. p + 1 \in 0..Size - 1
    BY <1>2
  <2>2. (p + 1) % Size = p + 1
    BY <2>1
  <2> QED
    BY <1>2, <2>1, <2>2
<1> QED
  BY <1>1, <1>2

\* Equal pointers are an empty stretch, and only they are.
LEMMA DistZero ==
  ASSUME NEW p \in Slots, NEW q \in Slots
  PROVE  Dist(p, q) = 0 <=> p = q
<1>1. Dist(p, q) = IF p <= q THEN q - p ELSE q + Size - p
  BY DistValue
<1> QED
  BY <1>1, RingAssumption DEF Slots

\* The read pointer comes one byte closer.
LEMMA DistIncFrom ==
  ASSUME NEW p \in Slots, NEW q \in Slots, p # q
  PROVE  Dist(Inc(p), q) = Dist(p, q) - 1
<1>1. /\ Inc(p) = IF p = Size - 1 THEN 0 ELSE p + 1
      /\ Inc(p) \in Slots
  BY IncValue
<1>2. Dist(p, q) = IF p <= q THEN q - p ELSE q + Size - p
  BY DistValue
<1>3. Dist(Inc(p), q) = IF Inc(p) <= q THEN q - Inc(p) ELSE q + Size - Inc(p)
  BY <1>1, DistValue
<1> QED
  BY <1>1, <1>2, <1>3, RingAssumption DEF Slots

\* The write pointer goes one byte further, unless it catches up from behind.
LEMMA DistIncTo ==
  ASSUME NEW p \in Slots, NEW q \in Slots, Dist(p, q) < Size - 1
  PROVE  Dist(p, Inc(q)) = Dist(p, q) + 1
<1>1. /\ Inc(q) = IF q = Size - 1 THEN 0 ELSE q + 1
      /\ Inc(q) \in Slots
  BY IncValue
<1>2. Dist(p, q) = IF p <= q THEN q - p ELSE q + Size - p
  BY DistValue
<1>3. Dist(p, Inc(q)) = IF p <= Inc(q) THEN Inc(q) - p ELSE Inc(q) + Size - p
  BY <1>1, DistValue
<1> QED
  BY <1>1, <1>2, <1>3, RingAssumption DEF Slots

\* Stretches that fit into the ring together add up.
LEMMA DistAdd ==
  ASSUME NEW p \in Slots, NEW q \in Slots, NEW r \in Slots,
         Dist(p, q) + Dist(q, r) < Size
  PROVE  Dist(p, r) = Dist(p, q) + Dist(q, r)
<1>1. Dist(p, q) = IF p <= q THEN q - p ELSE q + Size - p
  BY DistValue
<1>2. Dist(q, r) = IF q <= r THEN r - q ELSE r + Size - q
  BY DistValue
<1>3. Dist(p, r) = IF p <= r THEN r - p ELSE r + Size - p
  BY DistValue
<1>4. p \in 0..Size - 1 /\ q \in 0..Size - 1 /\ r \in 0..Size - 1 /\ Size \in Nat
  BY RingAssumption DEF Slots
<1> QED
  BY <1>1, <1>2, <1>3, <1>4

-----------------------------------------------------------------------------
(* The inductive invariant. *)

\* Outside FINISH_WRITE and the flush, the interrupt is enabled exactly when
\* bytes wait.
EnabledWithBytes == pc \in {"idle", "fill"} => (udrie <=> ReadPtr # WritePtr)

\* The packet being written fits between the write and the read pointer, and has
\* one of the lengths a packet may have.
WriteFits ==
  pc = "fill" =>
    /\ Dist(WritePtr, tmp) + left \in MinWrite..MaxWrite
    /\ Count + Dist(WritePtr, tmp) + left < Size

\* Inside FINISH_WRITE the bytes sent meanwhile are not all that were published:
\* the interrupt that was enabled before had a byte of its own to send.
PublishedOutlast ==
  pc = "enable" =>
    /\ Count + fires >= MinWrite + (IF udrie THEN 1 ELSE 0)
    /\ ~udrie => fires = 0

\* A quiet flush runs with the interrupt disabled, and ends with equal pointers.
FlushQuiet ==
  /\ pc \in {"flush", "reconfigure"} => ~udrie
  /\ pc = "flush" => ReadPtr = 0
  /\ pc = "reconfigure" => ReadPtr = WritePtr

IInv ==
  /\ TypeOK
  /\ EnabledWithBytes
  /\ WriteFits
  /\ PublishedOutlast
  /\ FlushQuiet

\* Every step keeps the pointers inside the ring.
LEMMA TypeStep == TypeOK /\ [Next]_vars => TypeOK'
<1> SUFFICES ASSUME TypeOK, [Next]_vars PROVE TypeOK'
  OBVIOUS
<1> USE DEF TypeOK
<1>0. 0 \in Slots
  BY RingAssumption DEF Slots
<1>1. ASSUME NEW n \in MinWrite..MaxWrite, Begin(n) PROVE TypeOK'
  BY <1>1, RingAssumption DEF Begin
<1>2. ASSUME NEW b \in Bytes, WriteByte(b) PROVE TypeOK'
  <2>1. Inc(tmp) \in Slots
    BY IncValue
  <2>2. left' \in 0..MaxWrite
    BY <1>2, RingAssumption DEF WriteByte
  <2> QED
    BY <1>2, <2>1, <2>2 DEF WriteByte
<1>3. CASE Publish
  BY <1>3, RingAssumption DEF Publish
<1>4. CASE Enable
  BY <1>4, RingAssumption DEF Enable
<1>5. CASE SendByte
  <2>1. Inc(ReadPtr) \in Slots
    BY IncValue
  <2>2. fires' \in 0..Window
    BY <1>5, RingAssumption DEF SendByte
  <2> QED
    BY <1>5, <2>1, <2>2 DEF SendByte
<1>6. CASE FlushRead
  BY <1>6, <1>0 DEF FlushRead
<1>7. CASE FlushWrite
  BY <1>7, <1>0 DEF FlushWrite
<1>8. CASE Reconfigure
  BY <1>8 DEF Reconfigure
<1>9. CASE UNCHANGED vars
  BY <1>9 DEF vars
<1> QED
  BY <1>1, <1>2, <1>3, <1>4, <1>5, <1>6, <1>7, <1>8, <1>9 DEF Next

\* The ring starts empty, with the interrupt disabled.
LEMMA InitIInv == Init => IInv
<1> SUFFICES ASSUME Init PROVE IInv
  OBVIOUS
<1>1. 0 \in Slots
  BY RingAssumption DEF Slots
<1>2. TypeOK
  <2>1. 0 \in 0..MaxWrite /\ 0 \in 0..Window
    BY RingAssumption
  <2>2. mem \in [Slots -> Bytes]
    BY DEF Init
  <2> QED
    BY <1>1, <2>1, <2>2 DEF Init, TypeOK
<1>3. EnabledWithBytes /\ WriteFits /\ PublishedOutlast /\ FlushQuiet
  BY DEF Init, EnabledWithBytes, WriteFits, PublishedOutlast, FlushQuiet
<1> QED
  BY <1>2, <1>3 DEF IInv

\* While FINISH_WRITE runs, a byte waits.
LEMMA ByteWaits ==
  ASSUME LongWrites, IInv, pc = "enable"
  PROVE  Count >= 1 /\ (udrie => Count + fires > Window)
<1>1. Count \in Nat /\ fires \in 0..Window /\ MinWrite >= Window /\ MinWrite >= 1
  BY DistValue, RingAssumption DEF IInv, TypeOK, Count, Dist, Slots, LongWrites
<1>2. /\ Count + fires >= MinWrite + (IF udrie THEN 1 ELSE 0)
      /\ ~udrie => fires = 0
  BY DEF IInv, PublishedOutlast
<1> QED
  BY <1>1, <1>2, RingAssumption

\* Every step preserves the invariant.
LEMMA StepIInv == LongWrites /\ QuietFlush /\ IInv /\ [Next]_vars => IInv'
<1> SUFFICES ASSUME LongWrites, QuietFlush, IInv, [Next]_vars PROVE IInv'
  OBVIOUS
<1>t. TypeOK /\ TypeOK'
  BY TypeStep DEF IInv
<1>n. /\ Size \in Nat \ {0} /\ MinWrite \in Nat \ {0} /\ Window \in Nat /\ MaxWrite \in Nat
      /\ MinWrite >= Window
  BY RingAssumption DEF LongWrites
<1>p. /\ WritePtr \in Slots /\ ReadPtr \in Slots /\ tmp \in Slots
      /\ WritePtr' \in Slots /\ ReadPtr' \in Slots /\ tmp' \in Slots
      /\ left \in Nat /\ fires \in 0..Window /\ udrie \in BOOLEAN
  BY <1>t DEF TypeOK
<1>c. /\ Count = Dist(ReadPtr, WritePtr) /\ Count' = Dist(ReadPtr', WritePtr')
      /\ Count \in 0..Size - 1 /\ Count' \in 0..Size - 1
      /\ Count = 0 <=> ReadPtr = WritePtr
      /\ Count' = 0 <=> ReadPtr' = WritePtr'
  <2>1. Count = Dist(ReadPtr, WritePtr) /\ Count' = Dist(ReadPtr', WritePtr')
    BY DEF Count, Dist
  <2> QED
    BY <2>1, <1>p, DistValue, DistZero DEF Slots
<1>i. EnabledWithBytes /\ WriteFits /\ PublishedOutlast /\ FlushQuiet
  BY DEF IInv
<1> DEFINE Parts == EnabledWithBytes /\ WriteFits /\ PublishedOutlast /\ FlushQuiet
<1> SUFFICES Parts'
  BY <1>t DEF IInv
<1> USE DEF EnabledWithBytes, WriteFits, PublishedOutlast, FlushQuiet
<1>1. ASSUME NEW n \in MinWrite..MaxWrite, Begin(n) PROVE Parts'
  <2>1. /\ pc = "idle" /\ pc' = "fill" /\ left' = n /\ n \in Nat /\ n >= MinWrite
        /\ UNCHANGED <<WritePtr, ReadPtr, udrie>>
        /\ n <= (Size - 1) - Count
        /\ tmp' = WritePtr
    BY <1>1, <1>n DEF Begin, Free
  <2>2. Dist(WritePtr', tmp') = 0
    BY <2>1, <1>p, DistZero
  <2>3. Count' = Count
    BY <2>1, <1>c
  <2> QED
    BY <2>1, <2>2, <2>3, <1>i, <1>n, <1>c
<1>2. ASSUME NEW b \in Bytes, WriteByte(b) PROVE Parts'
  <2>1. /\ pc = "fill" /\ pc' = "fill" /\ left > 0 /\ left' = left - 1
        /\ UNCHANGED <<WritePtr, ReadPtr, udrie>>
        /\ tmp' = Inc(tmp)
    BY <1>2 DEF WriteByte
  <2>2. Dist(WritePtr, tmp) \in Nat
    BY <1>p, DistValue DEF Slots
  <2>3. Dist(WritePtr, tmp) < Size - 1
    BY <2>1, <2>2, <1>i, <1>n, <1>c, <1>p
  <2>4. Dist(WritePtr', tmp') = Dist(WritePtr, tmp) + 1
    BY <2>1, <2>3, <1>p, DistIncTo
  <2>5. Count' = Count
    BY <2>1, <1>c
  <2> QED
    BY <2>1, <2>2, <2>4, <2>5, <1>i, <1>n, <1>c, <1>p
<1>3. CASE Publish
  <2>1. /\ pc = "fill" /\ pc' = "enable" /\ left = 0 /\ fires' = 0
        /\ UNCHANGED <<ReadPtr, udrie>>
        /\ WritePtr' = tmp
    BY <1>3 DEF Publish
  <2>2. Dist(WritePtr, tmp) \in Nat
    BY <1>p, DistValue DEF Slots
  <2>3. /\ Dist(WritePtr, tmp) >= MinWrite
        /\ Count + Dist(WritePtr, tmp) < Size
    BY <2>1, <2>2, <1>i, <1>n, <1>c
  <2>4. Count' = Count + Dist(WritePtr, tmp)
    BY <2>1, <2>3, <1>p, <1>c, DistAdd
  <2>5. udrie => Count >= 1
    BY <2>1, <1>i, <1>c
  <2> QED
    BY <2>1, <2>2, <2>3, <2>4, <2>5, <1>n, <1>c, <1>p
<1>4. CASE Enable
  <2>1. Count >= 1
    BY <1>4, ByteWaits DEF Enable
  <2>2. pc' = "idle" /\ udrie' /\ UNCHANGED <<WritePtr, ReadPtr>>
    BY <1>4 DEF Enable
  <2> QED
    BY <2>1, <2>2, <1>c
<1>5. CASE SendByte
  <2>1. /\ udrie
        /\ ReadPtr' = Inc(ReadPtr)
        /\ udrie' = (Inc(ReadPtr) # WritePtr)
        /\ UNCHANGED <<WritePtr, pc, tmp, left>>
        /\ pc = "enable" => fires < Window /\ fires' = fires + 1
    BY <1>5 DEF SendByte
  <2>2. pc \in {"idle", "fill", "enable"}
    BY <2>1, <1>t, <1>i DEF TypeOK
  <2>3. ReadPtr # WritePtr
    <3>1. CASE pc = "enable"
      BY <3>1, ByteWaits, <1>c
    <3> QED
      BY <3>1, <2>1, <2>2, <1>i
  <2>4. Count' = Count - 1
    BY <2>1, <2>3, <1>p, <1>c, DistIncFrom
  <2>5. udrie' <=> ReadPtr' # WritePtr'
    BY <2>1
  <2>6. CASE pc = "enable"
    <3>1. Count + fires > Window /\ Count + fires >= MinWrite + 1
      BY <2>1, <2>6, <1>i, ByteWaits
    <3>2. Count' >= 1 /\ udrie'
      BY <2>1, <2>4, <2>5, <2>6, <3>1, <1>c, <1>p, <1>n
    <3> QED
      BY <2>1, <2>4, <2>6, <3>1, <3>2, <1>c, <1>p, <1>n
  <2>7. CASE pc \in {"idle", "fill"}
    <3>1. Dist(WritePtr, tmp) \in Nat
      BY <1>p, DistValue DEF Slots
    <3> QED
      BY <2>1, <2>4, <2>5, <2>7, <3>1, <1>i, <1>c, <1>p, <1>n
  <2> QED
    BY <2>2, <2>6, <2>7
<1>6. CASE FlushRead
  <2>1. pc = "idle" /\ Count = 0 /\ ReadPtr' = 0 /\ pc' = "flush" /\ UNCHANGED udrie
    BY <1>6 DEF FlushRead, QuietFlush
  <2> QED
    BY <2>1, <1>i, <1>c
<1>7. CASE FlushWrite
  BY <1>7, <1>i DEF FlushWrite
<1>8. CASE Reconfigure
  BY <1>8, <1>i DEF Reconfigure
<1>9. CASE UNCHANGED vars
  BY <1>9, <1>i, <1>c DEF vars
<1> QED
  BY <1>1, <1>2, <1>3, <1>4, <1>5, <1>6, <1>7, <1>8, <1>9 DEF Next

\* The strengthened invariant holds throughout every behaviour.
LEMMA InvariantHolds == LongWrites /\ QuietFlush => (Spec => []IInv)
<1> SUFFICES ASSUME LongWrites, QuietFlush PROVE Spec => []IInv
  OBVIOUS
<1>1. IInv /\ [Next]_vars => IInv'
  BY StepIInv
<1> QED
  BY InitIInv, <1>1, PTL DEF Spec

\* The pointers stay inside the ring, whatever the lengths of the writes and
\* whenever the host flushes.
THEOREM TypeCorrect == Spec => []TypeOK
<1>1. Init => TypeOK
  BY InitIInv DEF IInv
<1> QED
  BY <1>1, TypeStep, PTL DEF Spec

\* The interrupt never fires on an empty ring: no stale byte is sent.
THEOREM NoStaleByte == LongWrites /\ QuietFlush => (Spec => []NothingStaleSent)
<1> SUFFICES ASSUME LongWrites, QuietFlush PROVE Spec => []NothingStaleSent
  OBVIOUS
<1>1. IInv => NothingStaleSent
  <2> SUFFICES ASSUME IInv, udrie, pc # "flush" PROVE ReadPtr # WritePtr
    BY DEF NothingStaleSent
  <2>1. CASE pc = "enable"
    <3>1. ReadPtr \in Slots /\ WritePtr \in Slots /\ Count = Dist(ReadPtr, WritePtr)
      BY DEF IInv, TypeOK, Count, Dist
    <3>2. Count # 0
      BY <2>1, ByteWaits
    <3> QED
      BY <3>1, <3>2, DistZero
  <2> QED
    BY <2>1 DEF IInv, TypeOK, EnabledWithBytes, FlushQuiet
<1> QED
  BY InvariantHolds, <1>1, PTL

\* No byte waits with the interrupt disabled while the main program is elsewhere.
THEOREM NoByteStuck == LongWrites /\ QuietFlush => (Spec => []NoneStuck)
<1> SUFFICES ASSUME LongWrites, QuietFlush PROVE Spec => []NoneStuck
  OBVIOUS
<1>1. IInv => NoneStuck
  BY DEF IInv, TypeOK, EnabledWithBytes, NoneStuck
<1> QED
  BY InvariantHolds, <1>1, PTL

-----------------------------------------------------------------------------
(* The ring implements the queue. *)

\* The slot of the i-th byte from slot p on.
LEMMA SlotValue ==
  ASSUME NEW p \in Slots, NEW i \in 1..Size
  PROVE  /\ (p + i - 1) % Size = IF p + i - 1 < Size THEN p + i - 1 ELSE p + i - 1 - Size
         /\ (p + i - 1) % Size \in Slots
<1> USE RingAssumption DEF Slots
<1>1. CASE p + i - 1 < Size
  <2>1. p + i - 1 \in 0..Size - 1
    BY <1>1
  <2>2. (p + i - 1) % Size = p + i - 1
    BY <2>1
  <2> QED
    BY <1>1, <2>1, <2>2
<1>2. CASE p + i - 1 >= Size
  <2>1. p + i - 1 - Size \in 0..Size - 1 /\ p + i - 1 = (p + i - 1 - Size) + Size
    BY <1>2
  <2>2. ((p + i - 1 - Size) + Size) % Size = p + i - 1 - Size
    BY <2>1
  <2> QED
    BY <1>2, <2>1, <2>2
<1> QED
  BY <1>1, <1>2

\* The i-th slot is i - 1 slots away.
LEMMA SlotDist ==
  ASSUME NEW p \in Slots, NEW i \in 1..Size
  PROVE  Dist(p, (p + i - 1) % Size) = i - 1
<1> DEFINE q == (p + i - 1) % Size
<1>1. q = (IF p + i - 1 < Size THEN p + i - 1 ELSE p + i - 1 - Size) /\ q \in Slots
  BY SlotValue
<1> HIDE DEF q
<1>2. Dist(p, q) = IF p <= q THEN q - p ELSE q + Size - p
  BY <1>1, DistValue
<1>3. Dist(p, q) = i - 1
  BY <1>1, <1>2, RingAssumption DEF Slots
<1> QED
  BY <1>3 DEF q

\* The slots after the first one are those from the next one on.
LEMMA SlotAfter ==
  ASSUME NEW p \in Slots, NEW i \in 1..Size - 1
  PROVE  (Inc(p) + i - 1) % Size = (p + (i + 1) - 1) % Size
<1>1. /\ Inc(p) = IF p = Size - 1 THEN 0 ELSE p + 1
      /\ Inc(p) \in Slots
  BY IncValue
<1>2. i \in 1..Size /\ i + 1 \in 1..Size
  BY RingAssumption
<1> DEFINE q == Inc(p)
<1> HIDE DEF q
<1>3. (q + i - 1) % Size = IF q + i - 1 < Size THEN q + i - 1 ELSE q + i - 1 - Size
  BY <1>1, <1>2, SlotValue DEF q
<1> DEFINE j == i + 1
<1> HIDE DEF j
<1>4. (p + j - 1) % Size = IF p + j - 1 < Size THEN p + j - 1 ELSE p + j - 1 - Size
  BY <1>2, SlotValue DEF j
<1>5. (q + i - 1) % Size = (p + j - 1) % Size
  BY <1>1, <1>3, <1>4, RingAssumption DEF q, j, Slots
<1> QED
  BY <1>5 DEF q, j

\* The slots behind the bytes up to slot q are those from q on.
LEMMA SlotBehind ==
  ASSUME NEW p \in Slots, NEW q \in Slots, NEW j \in 1..Size,
         Dist(p, q) + j <= Size
  PROVE  (p + (Dist(p, q) + j) - 1) % Size = (q + j - 1) % Size
<1> DEFINE d == Dist(p, q)
           i == d + j
<1>1. /\ d = IF p <= q THEN q - p ELSE q + Size - p
      /\ d \in Slots
  BY DistValue
<1> HIDE DEF d
<1>2. i \in 1..Size
  BY <1>1, RingAssumption DEF Slots, d
<1> HIDE DEF i
<1>3. (p + i - 1) % Size = IF p + i - 1 < Size THEN p + i - 1 ELSE p + i - 1 - Size
  BY <1>2, SlotValue
<1>4. (q + j - 1) % Size = IF q + j - 1 < Size THEN q + j - 1 ELSE q + j - 1 - Size
  BY SlotValue
<1>5. (p + i - 1) % Size = (q + j - 1) % Size
  BY <1>1, <1>3, <1>4, RingAssumption DEF i, Slots
<1> QED
  BY <1>5 DEF i, d

\* A sequence that starts as one and goes on as another is their concatenation.
LEMMA ConcatIs ==
  ASSUME NEW S, NEW u \in Seq(S), NEW s \in Seq(S), NEW t \in Seq(S),
         Len(u) = Len(s) + Len(t),
         \A i \in 1..Len(s) : u[i] = s[i],
         \A j \in 1..Len(t) : u[Len(s) + j] = t[j]
  PROVE  u = s \o t
<1>1. /\ s \o t \in Seq(S)
      /\ Len(s \o t) = Len(s) + Len(t)
      /\ \A i \in 1..Len(s) + Len(t) :
           (s \o t)[i] = IF i <= Len(s) THEN s[i] ELSE t[i - Len(s)]
  BY ConcatProperties
<1>2. \A i \in 1..Len(u) : u[i] = (s \o t)[i]
  <2> TAKE i \in 1..Len(u)
  <2>0. Len(s) \in Nat /\ Len(t) \in Nat
    OBVIOUS
  <2>1. CASE i <= Len(s)
    BY <2>0, <2>1, <1>1
  <2>2. CASE i > Len(s)
    <3>1. i - Len(s) \in 1..Len(t) /\ Len(s) + (i - Len(s)) = i
      BY <2>0, <2>2
    <3> QED
      BY <3>1, <2>0, <2>2, <1>1
  <2> QED
    BY <2>0, <2>1, <2>2
<1> QED
  BY <1>1, <1>2, SeqEqual

\* What waits is a sequence of bytes, the i-th of them in the i-th slot from the
\* read pointer on.
UnsentShape ==
  /\ Count \in 0..Size - 1
  /\ Unsent \in Seq(Bytes) /\ Len(Unsent) = Count
  /\ \A i \in 1..Count : Unsent[i] = mem[(ReadPtr + i - 1) % Size]

\* It holds as soon as the pointers are inside the ring.
LEMMA UnsentIsSeq == TypeOK => UnsentShape
<1> SUFFICES ASSUME TypeOK PROVE UnsentShape
  OBVIOUS
<1>1. Count \in 0..Size - 1
  BY DistValue DEF TypeOK, Count, Dist, Slots
<1>2. \A i \in 1..Count : mem[(ReadPtr + i - 1) % Size] \in Bytes
  <2> TAKE i \in 1..Count
  <2>1. i \in 1..Size
    BY <1>1, RingAssumption
  <2>2. (ReadPtr + i - 1) % Size \in Slots
    BY <2>1, SlotValue DEF TypeOK
  <2> QED
    BY <2>2 DEF TypeOK
<1>3. Unsent \in [1..Count -> Bytes]
  BY <1>2 DEF Unsent
<1>4. Unsent \in Seq(Bytes) /\ Len(Unsent) = Count
  BY <1>1, <1>3, RingAssumption
<1> QED
  BY <1>1, <1>4 DEF Unsent, UnsentShape

\* A byte written behind the write pointer is none of those that wait.
LEMMA WriteInvisible ==
  ASSUME IInv, NEW b \in Bytes, WriteByte(b)
  PROVE  UNCHANGED Waiting
<1>t. TypeOK
  BY DEF IInv
<1>1. /\ pc = "fill" /\ left > 0 /\ mem' = [mem EXCEPT ![tmp] = b]
      /\ UNCHANGED <<WritePtr, ReadPtr, pc>>
  BY DEF WriteByte
<1>2. Count + Dist(WritePtr, tmp) + left < Size
  BY <1>1 DEF IInv, WriteFits
<1>3. /\ Count = Dist(ReadPtr, WritePtr) /\ Count \in Nat
      /\ Dist(WritePtr, tmp) \in Nat /\ left \in Nat /\ Size \in Nat
  BY <1>t, DistValue, RingAssumption DEF TypeOK, Count, Dist, Slots
<1>4. Dist(ReadPtr, tmp) = Count + Dist(WritePtr, tmp)
  <2>1. Dist(ReadPtr, WritePtr) + Dist(WritePtr, tmp) < Size
    BY <1>1, <1>2, <1>3
  <2> QED
    BY <2>1, <1>3, <1>t, DistAdd DEF TypeOK
<1>5. Count' = Count
  BY <1>1 DEF Count
<1>6. \A i \in 1..Count : mem'[(ReadPtr + i - 1) % Size] = mem[(ReadPtr + i - 1) % Size]
  <2> TAKE i \in 1..Count
  <2>1. i \in 1..Size
    BY <1>2, <1>3, <1>1
  <2>2. (ReadPtr + i - 1) % Size # tmp
    <3>1. Dist(ReadPtr, (ReadPtr + i - 1) % Size) = i - 1
      BY <2>1, <1>t, SlotDist DEF TypeOK
    <3> QED
      BY <3>1, <1>4, <1>3
  <2>3. (ReadPtr + i - 1) % Size \in Slots
    BY <2>1, <1>t, SlotValue DEF TypeOK
  <2> QED
    BY <2>2, <2>3, <1>1, <1>t DEF TypeOK
<1>7. Unsent' = Unsent
  BY <1>1, <1>5, <1>6 DEF Unsent
<1> QED
  BY <1>1, <1>7 DEF Waiting

\* Storing the write pointer puts the packet behind the bytes that wait.
LEMMA PublishPuts ==
  ASSUME IInv, TypeOK', Publish
  PROVE  Fifo!Put
<1>t. TypeOK
  BY DEF IInv
<1> DEFINE n == Dist(WritePtr, tmp)
           s == [j \in 1..n |-> mem[(WritePtr + j - 1) % Size]]
<1>1. /\ pc = "fill" /\ left = 0 /\ pc' = "enable"
      /\ WritePtr' = tmp /\ UNCHANGED <<ReadPtr, mem>>
  BY DEF Publish
<1>2. n \in MinWrite..MaxWrite /\ Count + n < Size
  <2>1. n \in Nat /\ Count \in Nat
    BY <1>t, DistValue DEF TypeOK, Count, Dist, Slots
  <2>2. n + left \in MinWrite..MaxWrite /\ Count + n + left < Size
    BY <1>1 DEF IInv, WriteFits
  <2> QED
    BY <1>1, <2>1, <2>2
<1>3. Count = Dist(ReadPtr, WritePtr) /\ Count \in Nat /\ n \in Nat /\ Size \in Nat
  BY <1>t, DistValue, RingAssumption DEF TypeOK, Count, Dist, Slots
<1>4. Count' = Count + n
  <2>1. Count' = Dist(ReadPtr, tmp)
    BY <1>1 DEF Count, Dist
  <2> QED
    BY <2>1, <1>2, <1>3, <1>t, DistAdd DEF TypeOK
<1> HIDE DEF n
<1>5. s \in [1..n -> Bytes] /\ s \in Seq(Bytes) /\ Len(s) = n
  <2>1. \A j \in 1..n : mem[(WritePtr + j - 1) % Size] \in Bytes
    <3> TAKE j \in 1..n
    <3>1. j \in 1..Size
      BY <1>2, <1>3
    <3>2. (WritePtr + j - 1) % Size \in Slots
      BY <3>1, <1>t, SlotValue DEF TypeOK
    <3> QED
      BY <3>2, <1>t DEF TypeOK
  <2>2. s \in [1..n -> Bytes]
    BY <2>1
  <2> QED
    BY <2>2, <1>3
<1>6. \A j \in 1..n : s[j] = mem[(WritePtr + j - 1) % Size]
  OBVIOUS
<1> HIDE DEF s
<1>7. /\ Unsent \in Seq(Bytes) /\ Len(Unsent) = Count
      /\ \A i \in 1..Count : Unsent[i] = mem[(ReadPtr + i - 1) % Size]
  BY <1>t, UnsentIsSeq DEF UnsentShape
<1>8. /\ Unsent' \in Seq(Bytes) /\ Len(Unsent') = Count + n
      /\ \A i \in 1..Count + n : Unsent'[i] = mem[(ReadPtr + i - 1) % Size]
  <2>1. UnsentShape'
    BY UnsentIsSeq, PTL
  <2> QED
    BY <2>1, <1>1, <1>4 DEF UnsentShape
<1>9. \A j \in 1..n : Unsent'[Count + j] = s[j]
  <2> TAKE j \in 1..n
  <2>1. j \in 1..Size /\ Count + j <= Size /\ Count + j \in 1..Count + n
    BY <1>2, <1>3
  <2>2. (ReadPtr + (Dist(ReadPtr, WritePtr) + j) - 1) % Size = (WritePtr + j - 1) % Size
    BY <2>1, <1>3, <1>t, SlotBehind DEF TypeOK
  <2> QED
    BY <2>1, <2>2, <1>3, <1>6, <1>8
<1>10. \A i \in 1..Count : Unsent'[i] = Unsent[i]
  <2> TAKE i \in 1..Count
  <2>1. i \in 1..Count + n
    BY <1>3
  <2> QED
    BY <2>1, <1>7, <1>8
<1>11. Unsent' = Unsent \o s
  BY <1>5, <1>7, <1>8, <1>9, <1>10, ConcatIs
<1>12. Waiting = Unsent /\ Waiting' = Unsent'
  BY <1>1 DEF Waiting
<1>13. Len(Waiting) + n <= Size - 1
  BY <1>2, <1>3, <1>7, <1>12
<1> QED
  BY <1>2, <1>5, <1>11, <1>12, <1>13 DEF Fifo!Put

\* The interrupt takes the oldest byte that waits.
LEMMA SendGets ==
  ASSUME LongWrites, IInv, TypeOK', SendByte
  PROVE  Fifo!Get
<1>t. TypeOK
  BY DEF IInv
<1>1. /\ udrie /\ ReadPtr' = Inc(ReadPtr)
      /\ UNCHANGED <<mem, WritePtr, pc>>
  BY DEF SendByte
<1>2. pc \in {"idle", "fill", "enable"}
  BY <1>1, <1>t DEF TypeOK, IInv, FlushQuiet
<1>3. Count = Dist(ReadPtr, WritePtr) /\ Count \in 0..Size - 1 /\ Size \in Nat
  BY <1>t, DistValue, RingAssumption DEF TypeOK, Count, Dist, Slots
<1>4. ReadPtr # WritePtr /\ Count >= 1
  <2>1. CASE pc = "enable"
    BY <2>1, <1>3, <1>t, ByteWaits, DistZero DEF TypeOK
  <2>2. CASE pc \in {"idle", "fill"}
    BY <2>2, <1>1, <1>3, <1>t, DistZero DEF TypeOK, IInv, EnabledWithBytes
  <2> QED
    BY <2>1, <2>2, <1>2
<1>5. Count' = Count - 1
  <2>1. Count' = Dist(Inc(ReadPtr), WritePtr)
    BY <1>1 DEF Count, Dist
  <2> QED
    BY <2>1, <1>3, <1>4, <1>t, DistIncFrom DEF TypeOK
<1>6. /\ Unsent \in Seq(Bytes) /\ Len(Unsent) = Count
      /\ \A i \in 1..Count : Unsent[i] = mem[(ReadPtr + i - 1) % Size]
  BY <1>t, UnsentIsSeq DEF UnsentShape
<1>7. /\ Unsent' \in Seq(Bytes) /\ Len(Unsent') = Count - 1
      /\ \A i \in 1..Count - 1 : Unsent'[i] = mem[(Inc(ReadPtr) + i - 1) % Size]
  <2>1. UnsentShape'
    BY UnsentIsSeq, PTL
  <2> QED
    BY <2>1, <1>1, <1>5 DEF UnsentShape
<1>8. Unsent # <<>>
  BY <1>3, <1>4, <1>6
<1>9. /\ Tail(Unsent) \in Seq(Bytes) /\ Len(Tail(Unsent)) = Count - 1
      /\ \A i \in 1..Count - 1 : Tail(Unsent)[i] = Unsent[i + 1]
  BY <1>6, <1>8, HeadTailProperties
<1>10. \A i \in 1..Count - 1 : Unsent'[i] = Tail(Unsent)[i]
  <2> TAKE i \in 1..Count - 1
  <2>1. i \in 1..Size - 1 /\ i + 1 \in 1..Count
    BY <1>3
  <2>2. (Inc(ReadPtr) + i - 1) % Size = (ReadPtr + (i + 1) - 1) % Size
    BY <2>1, <1>t, SlotAfter DEF TypeOK
  <2> QED
    BY <2>1, <2>2, <1>6, <1>7, <1>9
<1>11. Unsent' = Tail(Unsent)
  BY <1>7, <1>9, <1>10, SeqEqual
<1>12. Waiting = Unsent /\ Waiting' = Unsent'
  BY <1>1, <1>2 DEF Waiting
<1> QED
  BY <1>8, <1>11, <1>12 DEF Fifo!Get

\* Equal pointers, as at the start and after a quiet flush.
Drained == TypeOK /\ ReadPtr = WritePtr

NothingWaits == Waiting = <<>>

\* The queue the ring stands for is empty then.
LEMMA NothingUnsent == Drained => NothingWaits
<1> SUFFICES ASSUME TypeOK, ReadPtr = WritePtr PROVE Waiting = <<>>
  BY DEF Drained, NothingWaits
<1>1. Count = 0
  BY DistZero DEF TypeOK, Count, Dist
<1>2. Unsent = <<>>
  BY <1>1, UnsentIsSeq DEF UnsentShape
<1> QED
  BY <1>2 DEF Waiting

\* Every step of the ring is a step of the queue, or one it does not see.
LEMMA StepRefines ==
  ASSUME LongWrites, QuietFlush, IInv, IInv', [Next]_vars
  PROVE  [Fifo!Next]_Waiting
<1>t. TypeOK /\ TypeOK'
  BY DEF IInv
<1>1. ASSUME NEW n \in MinWrite..MaxWrite, Begin(n) PROVE UNCHANGED Waiting
  BY <1>1 DEF Begin, Waiting, Unsent, Count
<1>2. ASSUME NEW b \in Bytes, WriteByte(b) PROVE UNCHANGED Waiting
  BY <1>2, WriteInvisible
<1>3. CASE Publish
  BY <1>3, <1>t, PublishPuts DEF Fifo!Next
<1>4. CASE Enable
  BY <1>4 DEF Enable, Waiting, Unsent, Count
<1>5. CASE SendByte
  BY <1>5, <1>t, SendGets DEF Fifo!Next
<1>6. CASE FlushRead
  BY <1>6 DEF FlushRead, Waiting, Fifo!Next, Fifo!Flush
<1>7. CASE FlushWrite
  BY <1>7 DEF FlushWrite, Waiting
<1>8. CASE Reconfigure
  <2>1. Waiting = <<>>
    BY <1>8 DEF Reconfigure, Waiting
  <2>2. Drained'
    BY <1>8, <1>t DEF Reconfigure, IInv, FlushQuiet, Drained
  <2>3. NothingWaits'
    BY <2>2, NothingUnsent, PTL
  <2> QED
    BY <2>1, <2>3 DEF NothingWaits
<1>9. CASE UNCHANGED vars
  BY <1>9 DEF vars, Waiting, Unsent, Count
<1> QED
  BY <1>1, <1>2, <1>3, <1>4, <1>5, <1>6, <1>7, <1>8, <1>9 DEF Next

\* The ring implements the queue: whole packets go in when the write pointer is
\* stored, bytes come out in order, and nothing else comes out.
THEOREM RingIsQueue == LongWrites /\ QuietFlush => (Spec => FifoSpec)
<1> SUFFICES ASSUME LongWrites, QuietFlush PROVE Spec => FifoSpec
  OBVIOUS
<1>1. Init => Fifo!Init
  <2> SUFFICES ASSUME Init PROVE Waiting = <<>>
    BY DEF Fifo!Init
  <2>1. TypeOK
    BY InitIInv DEF IInv
  <2> QED
    BY <2>1, NothingUnsent DEF Init, Drained, NothingWaits
<1>2. IInv /\ IInv' /\ [Next]_vars => [Fifo!Next]_Waiting
  BY StepRefines
<1> QED
  BY InvariantHolds, <1>1, <1>2, PTL DEF Spec, FifoSpec, Fifo!Spec

-----------------------------------------------------------------------------
(* The modes. *)

\* RAM that was never written is none of the magic values, and the DFU bootloader
\* leaves the word alone.
PlainRam == PowerUp \subseteq {"ZERO", "GARBAGE"} /\ DfuLeaves = {}

\* The 328p boots after the 8u2 has reset it, not before.
OrderlyBoot == LateBoot = TRUE

-----------------------------------------------------------------------------
(* The inductive invariants, broken down by where main() is. *)

\* Until a mode is served, what the host is owed is what the wish in RAM, or the
\* serial flag, stands for.
Owing ==
  /\ mode = "reset" => \/ owed = Wish(bootloaderState)
                       \/ owed = <<>> /\ bootloaderState = "JUMP_BOOTLOADER_UNO"
  /\ mode = "dfu" => \/ owed = <<>> /\ bootloaderState = "ZERO"
                     \/ owed = <<"serial">> /\ bootloaderState = "JUMP_BOOTLOADER_UNO"
  /\ mode = "pulse" => owed = <<>> \/ (owed = <<"serial">> /\ serial)
  /\ mode \in {"pulse", "serial"} => bootloaderState = "ZERO"
  /\ mode \in {"await", "controller", "serial"} => owed = <<>>

OwingInv == ModesTypeOK /\ Owing

\* READY is in the register only when the 328p has sent it since its reset, and the
\* wait for it is skipped only when the 328p was not reset.
ReadyMeansRunning ==
  /\ mode \in {"reset", "dfu", "pulse"} => ~received
  /\ mode = "await" /\ received => mega = "running" \/ pressed
  /\ mode = "controller" => mega = "running" \/ pressed
  /\ mode = "reset" /\ bootloaderState = "SKIP_WAIT" => mega = "running" \/ pressed
  /\ mode = "dfu" => bootloaderState # "SKIP_WAIT"
  /\ mode = "serial" => bootloaderState = "ZERO"
  /\ mode = "pulse" => bootloaderState = "ZERO"

PeerInv == ModesTypeOK /\ ReadyMeansRunning

-----------------------------------------------------------------------------

\* Serving a mode takes it off the list when it is at its head (the lists a command
\* of commands.h can ask for).
LEMMA ServeValue ==
  ASSUME NEW m
  PROVE  /\ Serve(m) /\ owed = <<>> => owed' = <<>>
         /\ Serve(m) /\ owed = <<"dfu">> => owed' = IF m = "dfu" THEN <<>> ELSE owed
         /\ Serve(m) /\ owed = <<"serial">> => owed' = IF m = "serial" THEN <<>> ELSE owed
         /\ Serve(m) /\ owed = <<"dfu", "serial">> =>
              owed' = IF m = "dfu" THEN <<"serial">> ELSE owed
<1>1. Head(<<"dfu">>) = "dfu" /\ Tail(<<"dfu">>) = <<>> /\ <<"dfu">> # <<>>
  OBVIOUS
<1>2. Head(<<"serial">>) = "serial" /\ Tail(<<"serial">>) = <<>> /\ <<"serial">> # <<>>
  OBVIOUS
<1>3. /\ Head(<<"dfu", "serial">>) = "dfu" /\ Tail(<<"dfu", "serial">>) = <<"serial">>
      /\ <<"dfu", "serial">> # <<>>
  OBVIOUS
<1> QED
  BY <1>1, <1>2, <1>3 DEF Serve

\* Every step keeps the variables in their types.
LEMMA ModesTypeStep == ModesTypeOK /\ [ModesNext]_modesVars => ModesTypeOK'
<1> SUFFICES ASSUME ModesTypeOK, [ModesNext]_modesVars PROVE ModesTypeOK'
  OBVIOUS
<1> USE DEF ModesTypeOK
<1>p. PowerUp \subseteq States /\ DfuLeaves \subseteq States /\ MaxCycles \in Nat
  BY ModesAssumption
<1>c. \A c \in Commands : c \in States /\ Wish(c) \in {<<>>, <<"dfu">>, <<"serial">>, <<"dfu", "serial">>}
  BY DEF Commands, States, Wish
<1>1. CASE Start
  <2>1. Serve(mode')
    BY <1>1 DEF Start
  <2>2. owed' \in {<<>>, <<"dfu">>, <<"serial">>, <<"dfu", "serial">>}
    BY <2>1, ServeValue
  <2> QED
    BY <1>1, <2>2 DEF Start, States, Commands
<1>2. CASE Pulse
  <2>1. Serve(mode')
    BY <1>2 DEF Pulse
  <2>2. owed' \in {<<>>, <<"dfu">>, <<"serial">>, <<"dfu", "serial">>}
    BY <2>1, ServeValue
  <2> QED
    BY <1>2, <2>2 DEF Pulse
<1>3. CASE ReadyReceived
  BY <1>3 DEF ReadyReceived
<1>4. CASE GiveUp
  BY <1>4 DEF GiveUp, Reset, States, Commands
<1>5. CASE Exchange
  BY <1>5 DEF Exchange
<1>6. CASE RestartPacket
  BY <1>6 DEF RestartPacket, Reset, States
<1>7. ASSUME NEW c \in Commands, Command(c) PROVE ModesTypeOK'
  BY <1>7, <1>c DEF Command, Reset
<1>8. CASE Touch1200
  BY <1>8, <1>c DEF Touch1200, Reset, Commands
<1>9. CASE Touch2400
  BY <1>9 DEF Touch2400, Reset
<1>10. CASE Dtr
  BY <1>10 DEF Dtr
<1>11. CASE MegaBoot
  BY <1>11 DEF MegaBoot
<1>12. CASE Flash
  BY <1>12 DEF Flash
<1>13. CASE LeaveDfu
  <2>1. bootloaderState' \in States
    BY <1>13, <1>p DEF LeaveDfu, Reset
  <2>2. /\ mode' = "reset" /\ serial' = FALSE /\ waiting' = FALSE /\ received' = FALSE
        /\ UNCHANGED <<mega, firmware, cycles, pressed, owed>>
    BY <1>13 DEF LeaveDfu, Reset
  <2> QED
    BY <2>1, <2>2
<1>14. CASE ResetButton
  BY <1>14 DEF ResetButton
<1>15. CASE PowerCycle
  <2>1. cycles' \in 0..MaxCycles
    BY <1>15, <1>p DEF PowerCycle
  <2>2. bootloaderState' \in States /\ mode' = "reset" /\ serial' = FALSE
        /\ waiting' = FALSE /\ received' = FALSE
    BY <1>15, <1>p DEF PowerCycle, Reset
  <2>3. mega' = "bootloader" /\ owed' = <<>> /\ pressed' = FALSE /\ UNCHANGED firmware
    BY <1>15 DEF PowerCycle
  <2> QED
    BY <2>1, <2>2, <2>3
<1>16. CASE UNCHANGED modesVars
  BY <1>16 DEF modesVars
<1> QED
  BY <1>1, <1>2, <1>3, <1>4, <1>5, <1>6, <1>7, <1>8, <1>9, <1>10, <1>11, <1>12, <1>13,
     <1>14, <1>15, <1>16 DEF ModesNext

\* The initial states have the right types.
LEMMA ModesInitType == ModesInit => ModesTypeOK
<1> SUFFICES ASSUME ModesInit PROVE ModesTypeOK
  OBVIOUS
<1>1. bootloaderState \in States /\ cycles \in 0..MaxCycles
  BY ModesAssumption DEF ModesInit
<1> QED
  BY <1>1 DEF ModesInit, ModesTypeOK

\* Every step keeps account of what the host is owed.
LEMMA OwingStep ==
  PlainRam /\ OwingInv /\ [ModesNext]_modesVars => OwingInv'
<1> SUFFICES ASSUME PlainRam, OwingInv, [ModesNext]_modesVars PROVE Owing'
  BY ModesTypeStep DEF OwingInv
<1> USE DEF Owing
<1>t. ModesTypeOK /\ Owing
  BY DEF OwingInv
<1>1. CASE Start
  <2>1. Serve(mode') /\ mode = "reset"
    BY <1>1 DEF Start
  <2>2. CASE bootloaderState = "JUMP_BOOTLOADER"
    <3>1. owed = <<"dfu">> /\ mode' = "dfu" /\ bootloaderState' = "ZERO"
      BY <1>1, <1>t, <2>1, <2>2 DEF Start, Wish
    <3> QED
      BY <3>1, <2>1, ServeValue
  <2>3. CASE bootloaderState = "JUMP_BOOTLOADER_UNO_USB_THEN_SERIAL"
    <3>1. /\ owed = <<"dfu", "serial">> /\ mode' = "dfu"
          /\ bootloaderState' = "JUMP_BOOTLOADER_UNO"
      BY <1>1, <1>t, <2>1, <2>3 DEF Start, Wish
    <3> QED
      BY <3>1, <2>1, ServeValue
  <2>4. CASE bootloaderState = "JUMP_BOOTLOADER_UNO"
    <3>1. /\ owed \in {<<>>, <<"serial">>} /\ mode' = "pulse" /\ serial'
          /\ bootloaderState' = "ZERO"
      BY <1>1, <1>t, <2>1, <2>4 DEF Start, Wish
    <3> QED
      BY <3>1, <2>1, ServeValue
  <2>5. CASE bootloaderState \in {"REBOOT", "SKIP_WAIT", "ZERO", "GARBAGE"}
    <3>1. owed = <<>> /\ mode' \in {"pulse", "controller"} /\ bootloaderState' = "ZERO"
      BY <1>1, <1>t, <2>1, <2>5 DEF Start, Wish
    <3> QED
      BY <3>1, <2>1, ServeValue
  <2> QED
    BY <1>t, <2>2, <2>3, <2>4, <2>5 DEF ModesTypeOK, States, Commands
<1>2. CASE Pulse
  <2>1. /\ Serve(mode') /\ mode = "pulse" /\ mode' = IF serial THEN "serial" ELSE "await"
        /\ bootloaderState' = "ZERO"
    BY <1>2, <1>t DEF Pulse
  <2> QED
    BY <2>1, <1>t, ServeValue
<1>3. CASE ReadyReceived
  BY <1>3, <1>t DEF ReadyReceived
<1>4. CASE GiveUp
  BY <1>4, <1>t DEF GiveUp, Reset
<1>5. CASE Exchange
  BY <1>5, <1>t DEF Exchange
<1>6. CASE RestartPacket
  BY <1>6, <1>t DEF RestartPacket, Reset, Wish
<1>7. ASSUME NEW c \in Commands, Command(c) PROVE Owing'
  BY <1>7, <1>t DEF Command, Reset
<1>8. CASE Touch1200
  BY <1>8, <1>t DEF Touch1200, Reset
<1>9. CASE Touch2400
  BY <1>9, <1>t DEF Touch2400, Reset, Wish
<1>10. CASE Dtr
  BY <1>10, <1>t DEF Dtr
<1>11. CASE MegaBoot
  BY <1>11, <1>t DEF MegaBoot
<1>12. CASE Flash
  BY <1>12, <1>t DEF Flash
<1>13. CASE LeaveDfu
  BY <1>13, <1>t DEF LeaveDfu, Reset, Wish, PlainRam
<1>14. CASE ResetButton
  BY <1>14, <1>t DEF ResetButton
<1>15. CASE PowerCycle
  BY <1>15, <1>t DEF PowerCycle, Reset, Wish, PlainRam
<1>16. CASE UNCHANGED modesVars
  BY <1>16, <1>t DEF modesVars
<1> QED
  BY <1>1, <1>2, <1>3, <1>4, <1>5, <1>6, <1>7, <1>8, <1>9, <1>10, <1>11, <1>12, <1>13,
     <1>14, <1>15, <1>16 DEF ModesNext

\* Every step keeps the 8u2's belief about the 328p true.
LEMMA PeerStep == PlainRam /\ OrderlyBoot /\ PeerInv /\ [ModesNext]_modesVars => PeerInv'
<1> SUFFICES ASSUME PlainRam, OrderlyBoot, PeerInv, [ModesNext]_modesVars PROVE ReadyMeansRunning'
  BY ModesTypeStep DEF PeerInv
<1> USE DEF ReadyMeansRunning
<1>t. ModesTypeOK /\ ReadyMeansRunning
  BY DEF PeerInv
<1>1. CASE Start
  BY <1>1, <1>t DEF Start, ModesTypeOK
<1>2. CASE Pulse
  BY <1>2, <1>t DEF Pulse
<1>3. CASE ReadyReceived
  BY <1>3, <1>t DEF ReadyReceived
<1>4. CASE GiveUp
  BY <1>4 DEF GiveUp, Reset
<1>5. CASE Exchange
  BY <1>5, <1>t DEF Exchange
<1>6. CASE RestartPacket
  BY <1>6 DEF RestartPacket, Reset
<1>7. ASSUME NEW c \in Commands, Command(c) PROVE ReadyMeansRunning'
  BY <1>7, <1>t DEF Command, Reset, Commands
<1>8. CASE Touch1200
  BY <1>8 DEF Touch1200, Reset
<1>9. CASE Touch2400
  BY <1>9, <1>t DEF Touch2400, Reset
<1>10. CASE Dtr
  BY <1>10, <1>t DEF Dtr
<1>11. CASE MegaBoot
  BY <1>11, <1>t DEF MegaBoot, OrderlyBoot, ModesTypeOK
<1>12. CASE Flash
  BY <1>12, <1>t DEF Flash
<1>13. CASE LeaveDfu
  BY <1>13, <1>t DEF LeaveDfu, Reset, PlainRam
<1>14. CASE ResetButton
  BY <1>14, <1>t DEF ResetButton
<1>15. CASE PowerCycle
  BY <1>15 DEF PowerCycle, Reset, PlainRam
<1>16. CASE UNCHANGED modesVars
  BY <1>16, <1>t DEF modesVars
<1> QED
  BY <1>1, <1>2, <1>3, <1>4, <1>5, <1>6, <1>7, <1>8, <1>9, <1>10, <1>11, <1>12, <1>13,
     <1>14, <1>15, <1>16 DEF ModesNext

-----------------------------------------------------------------------------

\* The 8u2's state stays in its types through every mode change.
THEOREM ModesTypeCorrect == ModesSpec => []ModesTypeOK
BY ModesInitType, ModesTypeStep, PTL DEF ModesSpec

\* Every mode the host asked for is reached before the 8u2 waits for the 328p again,
\* and nobody is sent to the bootloader who did not ask.
THEOREM WishesAreServed == PlainRam => (ModesSpec => []WishesServed)
<1> SUFFICES ASSUME PlainRam PROVE ModesSpec => []WishesServed
  OBVIOUS
<1>1. ModesInit => OwingInv
  BY ModesInitType DEF ModesInit, OwingInv, Owing, PlainRam, Wish
<1>2. OwingInv /\ [ModesNext]_modesVars => OwingInv'
  BY OwingStep
<1>3. OwingInv => WishesServed
  BY DEF OwingInv, Owing, WishesServed, Wish
<1> QED
  BY <1>1, <1>2, <1>3, PTL DEF ModesSpec

\* A controller has a 328p that runs its program.
THEOREM PeerIsRunning == PlainRam /\ OrderlyBoot => (ModesSpec => []ControllerHasPeer)
<1> SUFFICES ASSUME PlainRam, OrderlyBoot PROVE ModesSpec => []ControllerHasPeer
  OBVIOUS
<1>1. ModesInit => PeerInv
  BY ModesInitType DEF ModesInit, PeerInv, ReadyMeansRunning, PlainRam
<1>2. PeerInv /\ [ModesNext]_modesVars => PeerInv'
  BY PeerStep
<1>3. PeerInv => ControllerHasPeer
  BY DEF PeerInv, ReadyMeansRunning, ControllerHasPeer
<1> QED
  BY <1>1, <1>2, <1>3, PTL DEF ModesSpec

================================================================================
