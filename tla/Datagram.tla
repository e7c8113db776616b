------------------------------ MODULE Datagram ------------------------------
(***************************************************************************)
(* What the framing makes of a faulty serial or radio line: datagrams that *)
(* may be lost, but are never invented, altered, duplicated or reordered.  *)
(***************************************************************************)
EXTENDS Naturals, Sequences

VARIABLES sent,        \* how many messages were sent
          received     \* the numbers of the messages delivered

vars == <<sent, received>>

Newest == IF received = << >> THEN 0 ELSE received[Len(received)]

Init == sent = 0 /\ received = << >>

Send == sent' = sent + 1 /\ UNCHANGED received

Deliver(n) == received' = Append(received, n) /\ UNCHANGED sent

Next == Send \/ \E n \in Newest + 1 .. sent : Deliver(n)

Spec == Init /\ [][Next]_vars
=============================================================================
