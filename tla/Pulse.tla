------------------------------- MODULE Pulse -------------------------------
(***************************************************************************)
(* What a trigger promises: an output that, once fired for a duration, is  *)
(* on for at least that long and at most Slack time units longer, counted  *)
(* from the last time it was fired.  Time here does not wrap.              *)
(***************************************************************************)
EXTENDS Naturals

CONSTANTS Durations, Slack

VARIABLES on, age, limit

vars == <<on, age, limit>>

Init == on = FALSE /\ age = 0 /\ limit = 0

Fire(d) == on' = TRUE /\ age' = 0 /\ limit' = d

Elapse == on /\ age < limit + Slack /\ age' = age + 1 /\ UNCHANGED <<on, limit>>

Release == on /\ age >= limit /\ on' = FALSE /\ UNCHANGED <<age, limit>>

Next == (\E d \in Durations : Fire(d)) \/ Elapse \/ Release

Spec == Init /\ [][Next]_vars
=============================================================================
