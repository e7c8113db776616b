------------------------------ MODULE BoomRTX ------------------------------
(***************************************************************************)
(* The fire chain: the transmitter and its receivers over the radio.  The  *)
(* coroutines of a device run one at a time in an order that is left open  *)
(* here; every one that is due runs before the next time unit, except that *)
(* a receiver's tick may slip into it.  What the transmitter writes is     *)
(* heard or lost within Latency units, or kept back for any time; the      *)
(* receivers' answers may take any time.                                   *)
(***************************************************************************)
EXTENDS Transmitter, Receiver

vars == <<transmitterVars, receiverVars, radioVars>>

Init == RadioInit /\ TransmitterInit /\ ReceiverInit

Elapse ==
    /\ RadioElapse
    /\ TransmitterElapse
    /\ ReceiverElapse

Press(pressed) ==
    \E slot \in Slot, relay \in Relay : checkSwitchesRoutine(pressed, slot, relay)

OfTransmitter ==
    /\ \/ pingRoutine
       \/ checkQualityRoutine
       \/ \E pressed \in BOOLEAN : Press(pressed)
       \/ \E c \in Command : configRoutine(c)
       \/ Answered
       \/ TransmitterRestart
    /\ UNCHANGED receiverVars

OfReceiver(d) ==
    /\ \/ radioRxRoutine(d) \/ HoldBack(d) \/ StrayEnd(d)
       \/ triggerTickRoutine(d)
       \/ ReceiverRestart(d)
    /\ UNCHANGED transmitterVars

Lose ==
    /\ LoseToTransmitter \/ \E d \in Device : LoseToReceiver(d)
    /\ UNCHANGED <<transmitterVars, receiverVars>>

Next == \/ OfTransmitter
        \/ \E d \in Device : OfReceiver(d)
        \/ Lose
        \/ Elapse

Spec == Init /\ [][Next]_vars

\* Every coroutine is scheduled again and again, and time goes on: it is not held
\* up by somebody who fires or restarts without end within a unit.
Fairness ==
    /\ []<><<Elapse>>_vars
    /\ WF_vars(pingRoutine /\ UNCHANGED receiverVars)
    /\ WF_vars(checkQualityRoutine /\ UNCHANGED receiverVars)
    /\ WF_vars(Answered /\ UNCHANGED receiverVars)
    /\ \A d \in Device :
          /\ WF_vars(radioRxRoutine(d) /\ UNCHANGED transmitterVars)
          /\ WF_vars(triggerTickRoutine(d) /\ UNCHANGED transmitterVars)

FairSpec == Spec /\ Fairness
-----------------------------------------------------------------------------
TypeOK == RadioTypeOK /\ TransmitterTypeOK /\ ReceiverTypeOK

\* The dead man's switch: a relay is on only if the transmitter fired at it, and
\* only for as long as a FIRE is on its way and lasts, and two units for the tick,
\* after the last time it did, whatever frames were lost, whoever restarted and
\* whatever was selected since.  The one exception is a FIRE that was kept back
\* for want of its end symbol, which may come any time later (belated).
DeadMan ==
    \A d \in Device, k \in Relay : k \in active[d] =>
        /\ sinceFire[d][k] # Never
        /\ k \notin belated[d] => sinceFire[d][k] <= Latency + MaxDuration + 2

\* The FIRE button does nothing once five ninths of the window's length and one
\* more PING have gone without an answer of the target of the time, also when
\* the target was changed meanwhile and the window still holds the old one's.
LinkGate ==
    [][toReceiver' # toReceiver /\ (\E pressed \in BOOLEAN : Press(pressed))
         => 9 * (silence - 1) < 5 * S]_vars

\* The FIRE light goes on only for a relay that was fired at: a report that comes
\* late is matched with the target and relay selected then, which may be nobody's.
LedNotInvented ==
    [][~fireLEDON /\ fireLEDON'
         => Target \in Device /\ targetRelay \in Relay
            /\ sinceFire[Target][targetRelay] # Never]_vars

\* A relay that is not fired at again and again goes off again and again, with or
\* without a transmitter that works.
Released ==
    \A d \in Device, k \in Relay : []<>(k \notin active[d]) \/ []<>(sinceFire[d][k] = 0)

\* A step that disturbs nothing: no frame is late, no PING and nothing on its way
\* is lost, nobody restarts, and the same device that is there to answer stays
\* selected.  Other frames may still find a buffer full.
Undisturbed ==
    /\ \/ Elapse /\ toTransmitter = << >> /\ \A d \in Device : toReceiver[d] = << >>
       \/ /\ \/ pingRoutine /\ \A d \in Device : Len(toReceiver[d]) < BufferFrames
             \/ checkQualityRoutine
             \/ \E pressed \in BOOLEAN : Press(pressed)
             \/ Answered
          /\ UNCHANGED receiverVars
       \/ /\ \E d \in Device : radioRxRoutine(d) \/ triggerTickRoutine(d)
          /\ UNCHANGED transmitterVars
    /\ Target' = Target /\ Target \in Device

\* With a radio that from some time on loses nothing, the link comes up and stays
\* up, so that the FIRE button works.
LinkComesUp == <>[][Undisturbed]_vars => <>[]radioLinkOK

\* Nobody fires in this step.
Ceasefire == (\E pressed \in BOOLEAN : Press(pressed)) => UNCHANGED <<toReceiver, sinceFire>>

\* The FIRE light, which only a report can switch off, does not stay on for a relay
\* that is off, as long as the radio loses nothing and nobody fires.
LightFollows == <>[][Undisturbed /\ Ceasefire]_vars => <>[]~fireLEDON

\* radioRxRoutine says of the FIRE_ACKs it writes: "Relay to config interface".
\* So none is ever sent to a receiver.
AcksForHostOnly ==
    \A d \in Device : \A i \in 1 .. Len(toReceiver[d]) : toReceiver[d][i].op # "FIRE_ACK"
=============================================================================
