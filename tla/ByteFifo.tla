------------------------------ MODULE ByteFifo ------------------------------
(***************************************************************************)
(* What the 8u2's serial rings promise: whole packets go in at one end,    *)
(* bytes come out at the other, in order, and nothing else comes out.      *)
(***************************************************************************)
EXTENDS Naturals, Sequences

CONSTANTS
  Bytes,           \* what a byte may be
  MinPut, MaxPut,  \* lengths of what is put in at once
  Capacity         \* bytes that can wait

VARIABLE queue

Init == queue = <<>>

Put ==
  \E n \in MinPut..MaxPut : \E s \in [1..n -> Bytes] :
    /\ Len(queue) + n <= Capacity
    /\ queue' = queue \o s

Get == queue # <<>> /\ queue' = Tail(queue)

\* The line is reconfigured: what waits is dropped.
Flush == queue' = <<>>

Next == Put \/ Get \/ Flush

Spec == Init /\ [][Next]_queue

=============================================================================
