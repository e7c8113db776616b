------------------------------ MODULE Trigger ------------------------------
(***************************************************************************)
(* mcu/rx/trigger.h and mcu/rx/relaytrigger.h: one relay output, switched  *)
(* on by trigger and off by tick.  Somebody calls tick again after at most  *)
(* TickGap time units: ReceiverLoop shows that the receiver's scheduler    *)
(* does.                                                                   *)
(*                                                                         *)
(* age and sinceTick are real times, that no wrap-around touches: since    *)
(* the last call of trigger (while the output is on) and of tick.          *)
(***************************************************************************)
EXTENDS Clock

CONSTANTS Durations, TickGap

\* An output must be switched off before its elapsed time wraps: the longest
\* duration a FIRE frame can ask for is 12750 ms, ClockSize is 2^32 ms.
ASSUME TimeAssumption ==
    /\ TickGap \in Nat \ {0}
    /\ Durations \subseteq Nat
    /\ \A d \in Durations : d + TickGap < ClockSize

VARIABLES triggerStart, triggerDuration, state, pin, age, sinceTick

vars == <<millis, triggerStart, triggerDuration, state, pin, age, sinceTick>>

\* A LOW pin closes the relay: the pin starts HIGH.  The clock may have any
\* value: a device runs for longer than the 49 days it takes to wrap.
Init ==
    /\ millis \in 0 .. ClockSize - 1
    /\ triggerStart = 0 /\ triggerDuration = 0
    /\ state = "INACTIVE" /\ pin = "HIGH"
    /\ age = 0 /\ sinceTick = 0

onActivation == pin' = "LOW"

\* Mutant: the deactivation hook does nothing, as in the base class
noDeactivation == UNCHANGED pin

onDeactivation == pin' = "HIGH"

\* Mutant: a second call of trigger does not restart the time
triggerKeepsStart(d) ==
    /\ triggerStart' = IF state = "ACTIVE" THEN triggerStart ELSE millis
    /\ triggerDuration' = d
    /\ state' = "ACTIVE"
    /\ onActivation
    /\ age' = 0
    /\ UNCHANGED <<millis, sinceTick>>

trigger(d) ==
    /\ triggerStart' = millis
    /\ triggerDuration' = d
    /\ state' = "ACTIVE"
    /\ onActivation
    /\ age' = 0
    /\ UNCHANGED <<millis, sinceTick>>

Expired == Minus(millis, triggerStart) >= triggerDuration

tick ==
    /\ sinceTick' = 0
    /\ IF Expired /\ state = "ACTIVE"
       THEN state' = "INACTIVE" /\ onDeactivation
       ELSE UNCHANGED <<state, pin>>
    /\ UNCHANGED <<millis, triggerStart, triggerDuration, age>>

\* A time unit passes.
Tock ==
    /\ millis' = Later
    /\ sinceTick' = sinceTick + 1
    /\ age' = IF state = "ACTIVE" THEN age + 1 ELSE age
    /\ UNCHANGED <<triggerStart, triggerDuration, state, pin>>

Advance == sinceTick < TickGap /\ Tock

Trigger == \E d \in Durations : trigger(d)

Next == Trigger \/ tick \/ Advance

Spec == Init /\ [][Next]_vars

\* The scheduler keeps calling tick and time goes on; nobody has to fire.
FairSpec == Spec /\ WF_vars(tick) /\ WF_vars(Advance)
-----------------------------------------------------------------------------
TypeOK ==
    /\ millis \in 0 .. ClockSize - 1
    /\ triggerStart \in 0 .. ClockSize - 1
    /\ triggerDuration \in Durations \cup {0}
    /\ state \in {"ACTIVE", "INACTIVE"}
    /\ pin \in {"LOW", "HIGH"}
    /\ age \in Nat
    /\ sinceTick \in 0 .. TickGap

\* While an output is on, the difference of two millis() readings is the real
\* time since it was fired, wherever between them the clock wrapped.
ClockTracksAge == state = "ACTIVE" => Minus(millis, triggerStart) = age

\* The relay's pin implements the pulse: low from the call of trigger for at
\* least the duration asked for last and at most TickGap longer.
PulseOfPin == INSTANCE Pulse WITH on <- pin = "LOW", limit <- triggerDuration,
                                  Slack <- TickGap

PulseSpec == PulseOfPin!Spec

\* A relay that is not fired again and again is always switched off again.
Released == []<>(pin = "HIGH") \/ []<><<Trigger>>_vars
=============================================================================
