--------------------------- MODULE BoomRTXProofs ---------------------------
(***************************************************************************)
(* The fire chain for any number of receivers, relays, target slots and    *)
(* commands, any window length and any duration: its types, the dead man's *)
(* switch and the gate of the FIRE button.                                 *)
(***************************************************************************)
EXTENDS BoomRTX, LinkQualityProofs

USE HorizonAssumption

\* What a buffer holds after a write: what it held and what was written, in
\* order, as far as it fits.
LEMMA FittingShape ==
    ASSUME NEW T, NEW q \in Seq(T), NEW fs \in Seq(T)
    PROVE  /\ Fitting(q \o fs) \in Seq(T)
           /\ Len(Fitting(q \o fs)) <= BufferFrames
           /\ \A i \in 1 .. Len(Fitting(q \o fs)) :
                 \/ i \in 1 .. Len(q) /\ Fitting(q \o fs)[i] = q[i]
                 \/ \E j \in 1 .. Len(fs) : Fitting(q \o fs)[i] = fs[j]
<1> DEFINE c == q \o fs
           m == IF Len(c) <= BufferFrames THEN Len(c) ELSE BufferFrames
<1>1. /\ c \in Seq(T) /\ Len(c) = Len(q) + Len(fs)
      /\ \A i \in 1 .. Len(c) : c[i] = IF i <= Len(q) THEN q[i] ELSE fs[i - Len(q)]
  OBVIOUS
<1>2. m \in Nat /\ m <= Len(c) /\ m <= BufferFrames
  BY <1>1, RadioAssumption
<1>3. \A i \in 1 .. m : c[i] \in T
  BY <1>1, <1>2
<1> HIDE DEF c
<1>4. [i \in 1 .. m |-> c[i]] \in Seq(T) /\ Len([i \in 1 .. m |-> c[i]]) = m
  <2> HIDE DEF m
  <2> QED BY <1>2, <1>3
<1>5. Fitting(c) = [i \in 1 .. m |-> c[i]]
  BY DEF Fitting
<1>6. ASSUME NEW i \in 1 .. m
      PROVE  \/ i \in 1 .. Len(q) /\ c[i] = q[i]
             \/ \E j \in 1 .. Len(fs) : c[i] = fs[j]
  <2>1. CASE i <= Len(q)
    BY <1>1, <1>2, <2>1
  <2>2. CASE ~(i <= Len(q))
    <3>1. i - Len(q) \in 1 .. Len(fs) /\ c[i] = fs[i - Len(q)]
      BY <1>1, <1>2, <2>2
    <3> QED BY <3>1
  <2> QED BY <2>1, <2>2
<1> HIDE DEF m
<1> QED BY <1>2, <1>4, <1>5, <1>6 DEF c

\* A sequence without its first element.
LEMMA TailShape ==
    ASSUME NEW T, NEW q \in Seq(T), q # << >>
    PROVE  /\ Tail(q) \in Seq(T) /\ Len(Tail(q)) = Len(q) - 1
           /\ Head(q) \in T /\ Head(q) = q[1] /\ Len(q) \in Nat \ {0}
           /\ \A i \in 1 .. Len(Tail(q)) : Tail(q)[i] = q[i + 1] /\ i + 1 \in 1 .. Len(q)
OBVIOUS

\* What comes first in a sequence with another one after it.
LEMMA JoinedHead ==
    ASSUME NEW T, NEW p \in Seq(T), NEW q \in Seq(T)
    PROVE  /\ p = << >> => p \o q = q
           /\ p # << >> => Head(p \o q) = p[1] /\ p[1] \in T /\ 1 \in 1 .. Len(p)
<1>1. CASE p = << >>
  BY <1>1
<1>2. CASE p # << >>
  <2>1. Len(p) \in Nat \ {0} /\ p[1] \in T
    BY <1>2
  <2>2. 1 \in 1 .. Len(p)
    BY <2>1
  <2>3. (p \o q)[1] = p[1] /\ Head(p \o q) = (p \o q)[1]
    BY <2>1
  <2> QED BY <1>2, <2>1, <2>2, <2>3
<1> QED BY <1>1, <1>2

\* A broadcast leaves typed buffers, in which nothing stands but what stood
\* there and what was written.
LEMMA BroadcastShape ==
    ASSUME RadioTypeOK, NEW fs \in Seq(ToReceiver), Broadcast(fs)
    PROVE  /\ toReceiver' \in [Device -> Seq(ToReceiver)]
           /\ \A d \in Device :
                 /\ Len(toReceiver'[d]) <= BufferFrames
                 /\ \A i \in 1 .. Len(toReceiver'[d]) :
                       \/ i \in 1 .. Len(toReceiver[d]) /\ toReceiver'[d][i] = toReceiver[d][i]
                       \/ \E j \in 1 .. Len(fs) : toReceiver'[d][i] = fs[j]
<1>1. toReceiver' = [d \in Device |-> Fitting(toReceiver[d] \o fs)]
  BY DEF Broadcast
<1>2. \A d \in Device : toReceiver[d] \in Seq(ToReceiver)
  BY DEF RadioTypeOK
<1> HIDE DEF ToReceiver
<1> QED BY <1>1, <1>2, FittingShape

\* A PING frame is one of those that receivers hear.
LEMMA WrittenPing == \A id \in Byte : PingFor(id) \in ToReceiver /\ PingFor(id).op = "PING"
BY RadioAssumption DEF PingFor, ToReceiver, Age

\* A FIRE frame names the target, relay and duration it is written for.
LEMMA WrittenFire ==
    \A id \in Byte, k \in Byte, n \in 0 .. MaxDuration :
       /\ FireFor(id, k, n) \in ToReceiver
       /\ FireFor(id, k, n).op = "FIRE" /\ FireFor(id, k, n).id = id
       /\ FireFor(id, k, n).relay = k /\ FireFor(id, k, n).age = 0
BY RadioAssumption DEF FireFor, ToReceiver, Age

\* A FIRE_ACK is no FIRE.
LEMMA WrittenFireAck ==
    \A id \in Byte, k \in Byte, on \in BOOLEAN :
       FireAckOf(id, k, on) \in ToReceiver /\ FireAckOf(id, k, on).op = "FIRE_ACK"
BY RadioAssumption DEF FireAckOf, ToReceiver, Age

-----------------------------------------------------------------------------
TypeInv == TypeOK /\ LinkInv

\* What the types say of the selected target, and of the elements of each array.
LEMMA Typed ==
    ASSUME TypeInv
    PROVE  /\ Target \in Byte /\ targetRelay \in Byte
           /\ \A d \in Device : \A k \in Relay :
                 left[d][k] \in 0 .. MaxDuration + 1 /\ sinceFire[d][k] \in 0 .. Never
           /\ \A d \in Device : active[d] \subseteq Relay /\ sinceTick[d] \in 0 .. 2
           /\ \A d \in Device : toReceiver[d] \in Seq(ToReceiver) /\ held[d] \in Seq(ToReceiver)
           /\ Relay \subseteq Byte /\ Never \in Nat
           /\ LinkInv /\ RadioTypeOK /\ TransmitterTypeOK /\ ReceiverTypeOK
<1>1. RadioTypeOK /\ TransmitterTypeOK /\ ReceiverTypeOK /\ LinkInv
  BY DEF TypeInv, TypeOK
<1>2. Relay \subseteq Byte /\ Never \in Nat
  BY RadioAssumption, TransmitterAssumption DEF Relay, Byte, Never
<1> QED BY <1>1, <1>2 DEF RadioTypeOK, TransmitterTypeOK, ReceiverTypeOK, Target

\* The types hold at the start.
LEMMA InitTypes == Init => TypeInv
<1> SUFFICES ASSUME Init PROVE TypeInv
  OBVIOUS
<1>1. LinkInv
  BY InitKeeps DEF Init, TransmitterInit
<1>2. RadioTypeOK
  BY RadioAssumption DEF Init, RadioInit, RadioTypeOK
<1>3. ReceiverTypeOK
  BY RadioAssumption DEF Init, ReceiverInit, ReceiverTypeOK
<1>4. TransmitterTypeOK
  <2>1. 0 \in Slot /\ 0 \in Byte /\ Never \in Nat
    BY TransmitterAssumption DEF Slot, Byte, Never
  <2>2. sinceFire \in [Device -> [Relay -> 0 .. Never]]
    BY <2>1 DEF Init, TransmitterInit
  <2>3. radioLinkOK \in BOOLEAN /\ fireLEDON \in BOOLEAN /\ checkDue \in BOOLEAN
        /\ useMechanicalTargetSelection \in BOOLEAN
    BY Zenon DEF Init, TransmitterInit
  <2> QED BY <1>1, <2>1, <2>2, <2>3, TransmitterAssumption
          DEF Init, TransmitterInit, TransmitterTypeOK, LinkInv, PingPeriod
<1> QED BY <1>1, <1>2, <1>3, <1>4 DEF TypeInv, TypeOK

\* A FIRE frame is written, and the buffers and the history stay typed.
LEMMA WriteFireTypes ==
    ASSUME TypeInv, NEW k \in Byte, NEW n \in 0 .. MaxDuration, WriteFire(k, n)
    PROVE  /\ toReceiver' \in [Device -> Seq(ToReceiver)]
           /\ \A d \in Device : Len(toReceiver'[d]) <= BufferFrames
           /\ sinceFire' \in [Device -> [Relay -> 0 .. Never]]
<1>1. <<FireFor(Target, k, n)>> \in Seq(ToReceiver) /\ RadioTypeOK
  BY Typed, WrittenFire
<1>2. Broadcast(<<FireFor(Target, k, n)>>)
  BY DEF WriteFire
<1>3. sinceFire' \in [Device -> [Relay -> 0 .. Never]]
  BY Typed DEF WriteFire
<1> QED BY <1>1, <1>2, <1>3, BroadcastShape

\* The transmitter's steps keep the types.
LEMMA TransmitterTypes ==
    ASSUME TypeInv, OfTransmitter
    PROVE  TypeInv'
<1> USE Typed
<1>a. ReceiverTypeOK'
  BY DEF OfTransmitter, receiverVars, ReceiverTypeOK
<1>1. CASE pingRoutine
  <2>1. <<PingFor(Target)>> \in Seq(ToReceiver)
    BY WrittenPing
  <2>2. RadioTypeOK'
    BY <1>1, <2>1, BroadcastShape DEF pingRoutine, RadioTypeOK
  <2>3. LinkInv'
    BY <1>1, PingKeeps DEF pingRoutine
  <2>4. TransmitterTypeOK'
    BY <1>1, <2>3 DEF pingRoutine, TransmitterTypeOK, selectionVars, PingPeriod, LinkInv
  <2> QED BY <1>a, <2>2, <2>3, <2>4 DEF TypeInv, TypeOK
<1>2. CASE checkQualityRoutine
  <2>1. RadioTypeOK' /\ LinkInv'
    BY <1>2 DEF checkQualityRoutine, radioVars, RadioTypeOK, linkVars, LinkInv,
                LinkTypeOK, SilentTail
  <2>2. TransmitterTypeOK'
    <3>1. radioLinkOK' \in BOOLEAN
      <4>1. Above80(pushes) \in BOOLEAN
        BY DEF Above80
      <4> QED BY <1>2, <4>1, Zenon DEF checkQualityRoutine
    <3>2. checkDue' \in BOOLEAN
      BY <1>2, Zenon DEF checkQualityRoutine
    <3> QED BY <1>2, <2>1, <3>1, <3>2 DEF checkQualityRoutine, TransmitterTypeOK, selectionVars, LinkInv
  <2> QED BY <1>a, <2>1, <2>2 DEF TypeInv, TypeOK
<1>3. CASE \E pressed \in BOOLEAN : Press(pressed)
  <2> PICK pressed \in BOOLEAN, slot \in Slot, relay \in Relay :
           checkSwitchesRoutine(pressed, slot, relay)
    BY <1>3 DEF Press
  <2>1. /\ toReceiver' \in [Device -> Seq(ToReceiver)]
        /\ \A d \in Device : Len(toReceiver'[d]) <= BufferFrames
        /\ sinceFire' \in [Device -> [Relay -> 0 .. Never]]
    <3>1. CASE ButtonFires(pressed)
      BY <3>1, WriteFireTypes, TransmitterAssumption DEF checkSwitchesRoutine
    <3>2. CASE ~ButtonFires(pressed)
      BY <3>2 DEF checkSwitchesRoutine, RadioTypeOK, TransmitterTypeOK
    <3> QED BY <3>1, <3>2
  <2>2. LinkInv'
    BY DEF checkSwitchesRoutine, linkVars, LinkInv, LinkTypeOK, SilentTail
  <2>3. RadioTypeOK'
    BY <2>1 DEF checkSwitchesRoutine, RadioTypeOK
  <2>4. targetDeviceSlot' \in Slot /\ targetRelay' \in Byte
    BY DEF checkSwitchesRoutine, TransmitterTypeOK
  <2>5. TransmitterTypeOK'
    BY <2>1, <2>2, <2>4 DEF checkSwitchesRoutine, TransmitterTypeOK, LinkInv
  <2> QED BY <1>a, <2>2, <2>3, <2>5 DEF TypeInv, TypeOK
<1>4. CASE \E c \in Command : configRoutine(c)
  <2> PICK c \in Command : configRoutine(c)
    BY <1>4
  <2>1. /\ toReceiver' \in [Device -> Seq(ToReceiver)]
        /\ \A d \in Device : Len(toReceiver'[d]) <= BufferFrames
        /\ sinceFire' \in [Device -> [Relay -> 0 .. Never]]
    <3>1. CASE TriggerFire(c)
      BY <3>1, WriteFireTypes, TransmitterAssumption DEF TriggerFire
    <3>2. CASE ToggleMechanical(c) \/ SelectTarget(c) \/ SetTargetId(c)
      BY <3>2 DEF ToggleMechanical, SelectTarget, SetTargetId, RadioTypeOK, TransmitterTypeOK
    <3> QED BY <3>1, <3>2 DEF configRoutine
  <2>2. LinkInv'
    BY DEF configRoutine, linkVars, LinkInv, LinkTypeOK, SilentTail
  <2>3. RadioTypeOK'
    BY <2>1 DEF configRoutine, RadioTypeOK
  <2>4. /\ targetDeviceIds' \in [Slot -> Byte]
        /\ targetDeviceSlot' \in Slot
        /\ targetRelay' \in Byte
        /\ useMechanicalTargetSelection' \in BOOLEAN
    BY TransmitterAssumption DEF configRoutine, TriggerFire, ToggleMechanical, SelectTarget,
       SetTargetId, TransmitterTypeOK
  <2>5. TransmitterTypeOK'
    BY <2>1, <2>2, <2>4 DEF configRoutine, TransmitterTypeOK, LinkInv
  <2> QED BY <1>a, <2>2, <2>3, <2>5 DEF TypeInv, TypeOK
<1>5. CASE Answered
  <2> DEFINE f  == Head(toTransmitter)
             on == targetRelay \in f.active
             fs == [i \in 1 .. NUM_RELAYS |-> FireAckOf(f.id, i - 1, i - 1 = targetRelay /\ on)]
  <2>1. toTransmitter' \in Seq(ToTransmitter) /\ Len(toTransmitter') <= BufferFrames
    BY <1>5, TailShape, RadioAssumption DEF Answered, RadioTypeOK
  <2>2. CASE IsTarget(f)
    <3>1. pushPong /\ Broadcast(fs) /\ fireLEDON' = on
      BY <1>5, <2>2 DEF Answered
    <3>2. fs \in Seq(ToReceiver)
      <4>1. f.id \in Byte
        BY <2>2 DEF IsTarget
      <4>2. \A i \in 1 .. NUM_RELAYS : i - 1 \in Byte
        BY RadioAssumption DEF Byte
      <4>3. \A i \in 1 .. NUM_RELAYS :
               FireAckOf(f.id, i - 1, i - 1 = targetRelay /\ on) \in ToReceiver
        <5> SUFFICES ASSUME NEW i \in 1 .. NUM_RELAYS
                     PROVE  FireAckOf(f.id, i - 1, i - 1 = targetRelay /\ on) \in ToReceiver
          OBVIOUS
        <5>1. (i - 1 = targetRelay /\ on) \in BOOLEAN
          OBVIOUS
        <5> HIDE DEF f, on
        <5> QED BY <4>1, <4>2, <5>1, WrittenFireAck, Zenon
      <4> HIDE DEF f, on
      <4> QED BY <4>3, RadioAssumption DEF Byte
    <3>3. RadioTypeOK'
      <4> HIDE DEF fs
      <4> QED BY <2>1, <3>1, <3>2, BroadcastShape DEF RadioTypeOK
    <3>4. LinkInv'
      BY <3>1, PongKeeps
    <3>5. TransmitterTypeOK'
      BY <1>5, <3>1, <3>4 DEF Answered, TransmitterTypeOK, selectionVars, LinkInv
    <3> QED BY <1>a, <3>3, <3>4, <3>5 DEF TypeInv, TypeOK
  <2>3. CASE ~IsTarget(f)
    <3>1. UNCHANGED <<linkVars, toReceiver, fireLEDON>>
      BY <1>5, <2>3 DEF Answered
    <3>2. RadioTypeOK'
      BY <2>1, <3>1 DEF RadioTypeOK
    <3>3. LinkInv'
      BY <3>1 DEF linkVars, LinkInv, LinkTypeOK, SilentTail
    <3>4. TransmitterTypeOK'
      BY <1>5, <3>1, <3>3 DEF Answered, TransmitterTypeOK, selectionVars, LinkInv
    <3> QED BY <1>a, <3>2, <3>3, <3>4 DEF TypeInv, TypeOK
  <2> QED BY <2>2, <2>3
<1>6. CASE TransmitterRestart
  <2>1. LinkInv'
    BY <1>6 DEF TransmitterRestart, LinkInv, LinkTypeOK, SilentTail
  <2>2. RadioTypeOK'
    BY <1>6, RadioAssumption DEF TransmitterRestart, RadioTypeOK
  <2>3. 0 \in Slot /\ 0 \in Byte
    BY TransmitterAssumption DEF Slot, Byte
  <2>4. TransmitterTypeOK'
    <3>1. radioLinkOK' \in BOOLEAN /\ fireLEDON' \in BOOLEAN /\ checkDue' \in BOOLEAN
          /\ useMechanicalTargetSelection' \in BOOLEAN
      BY <1>6, Zenon DEF TransmitterRestart
    <3> QED BY <1>6, <2>1, <2>3, <3>1
            DEF TransmitterRestart, TransmitterTypeOK, LinkInv, PingPeriod
  <2> QED BY <1>a, <2>1, <2>2, <2>4 DEF TypeInv, TypeOK
<1> QED BY <1>1, <1>2, <1>3, <1>4, <1>5, <1>6 DEF OfTransmitter

\* The frame a parser gives when another comes to it: the one it kept back, or
\* the one that came.
LEMMA NextFrame ==
    ASSUME TypeInv, NEW d \in Device, toReceiver[d] # << >>
    PROVE  /\ Head(held[d] \o toReceiver[d]) \in ToReceiver
           /\ held[d] = << >> => /\ Head(held[d] \o toReceiver[d]) = toReceiver[d][1]
                                 /\ 1 \in 1 .. Len(toReceiver[d])
           /\ held[d] # << >> => /\ Head(held[d] \o toReceiver[d]) = held[d][1]
                                 /\ 1 \in 1 .. Len(held[d])
<1>1. held[d] \in Seq(ToReceiver) /\ toReceiver[d] \in Seq(ToReceiver)
  BY Typed
<1> HIDE DEF ToReceiver
<1>2. CASE held[d] = << >>
  <2>1. held[d] \o toReceiver[d] = toReceiver[d]
    BY <1>1, <1>2, JoinedHead, Zenon
  <2> QED BY <1>1, <1>2, <2>1, TailShape
<1>3. CASE held[d] # << >>
  BY <1>1, <1>3, JoinedHead, Zenon
<1> QED BY <1>2, <1>3

\* What a parser that keeps a frame back gives at another end symbol.
LEMMA HeldFrame ==
    ASSUME TypeInv, NEW d \in Device, held[d] # << >>
    PROVE  Head(held[d]) \in ToReceiver /\ Head(held[d]) = held[d][1] /\ 1 \in 1 .. Len(held[d])
<1>1. held[d] \in Seq(ToReceiver)
  BY Typed
<1> HIDE DEF ToReceiver
<1> QED BY <1>1

\* A frame that is accepted keeps the types.
LEMMA AcceptTypes ==
    ASSUME TypeInv, NEW d \in Device, NEW f \in ToReceiver, Accept(d, f)
    PROVE  /\ ReceiverTypeOK'
           /\ toTransmitter' \in Seq(ToTransmitter) /\ Len(toTransmitter') <= BufferFrames
<1> USE Typed
<1>1. /\ held' \in [Device -> Seq(ToReceiver)]
      /\ \A e \in Device : Len(held'[e]) <= 1
      /\ sinceTick' = sinceTick
  <2>1. << >> \in Seq(ToReceiver) /\ Len(<< >>) = 0
    OBVIOUS
  <2> HIDE DEF ToReceiver
  <2> QED BY <2>1 DEF Accept, ReceiverTypeOK
<1>2. toTransmitter \in Seq(ToTransmitter) /\ Len(toTransmitter) <= BufferFrames
  BY DEF RadioTypeOK
<1>3. CASE AnswerPing(d, f)
  <2>1. RxPongOf(d, active[d]) \in ToTransmitter
    BY DEF RxPongOf, ToTransmitter
  <2>2. Append(toTransmitter, RxPongOf(d, active[d]))
          = toTransmitter \o <<RxPongOf(d, active[d])>>
    BY <2>1, <1>2
  <2>3. <<RxPongOf(d, active[d])>> \in Seq(ToTransmitter)
    BY <2>1
  <2>4. toTransmitter' = Fitting(toTransmitter \o <<RxPongOf(d, active[d])>>)
    BY <1>3, <2>2 DEF AnswerPing
  <2>5. toTransmitter' \in Seq(ToTransmitter) /\ Len(toTransmitter') <= BufferFrames
    BY <1>2, <2>3, <2>4, FittingShape
  <2>6. ReceiverTypeOK'
    BY <1>1, <1>3 DEF AnswerPing, ReceiverTypeOK
  <2> QED BY <2>5, <2>6
<1>4. CASE Fire(d, f)
  <2>1. f.relay \in Relay /\ f.duration \in 0 .. MaxDuration
    BY <1>4 DEF Fire, IsFireFor, ToReceiver
  <2>2. (IF f.duration = 0 THEN 0 ELSE f.duration + 1) \in 0 .. MaxDuration + 1
    BY <2>1, RadioAssumption
  <2>3. left' \in [Device -> [Relay -> 0 .. MaxDuration + 1]]
    <3> HIDE DEF ToReceiver
    <3> QED BY <1>4, <2>1, <2>2 DEF Fire, ReceiverTypeOK
  <2>4. active' \in [Device -> SUBSET Relay] /\ belated' \in [Device -> SUBSET Relay]
    <3> HIDE DEF ToReceiver
    <3> QED BY <1>4, <2>1 DEF Fire, ReceiverTypeOK
  <2>5. ReceiverTypeOK'
    <3> HIDE DEF ToReceiver
    <3> QED BY <1>1, <2>3, <2>4 DEF ReceiverTypeOK
  <2> QED BY <1>2, <1>4, <2>5 DEF Fire
<1>5. CASE Ignore(d, f)
  BY <1>1, <1>2, <1>5 DEF Ignore, ReceiverTypeOK
<1> QED BY <1>3, <1>4, <1>5 DEF Accept

\* A buffer without its front frame is one still.
LEMMA TailTypes ==
    ASSUME TypeInv, NEW d \in Device, toReceiver[d] # << >>,
           toReceiver' = [toReceiver EXCEPT ![d] = Tail(@)]
    PROVE  /\ toReceiver' \in [Device -> Seq(ToReceiver)]
           /\ \A e \in Device : Len(toReceiver'[e]) <= BufferFrames
           /\ Head(toReceiver[d]) \in ToReceiver
<1> USE Typed
<1>1. /\ Tail(toReceiver[d]) \in Seq(ToReceiver)
      /\ Len(Tail(toReceiver[d])) = Len(toReceiver[d]) - 1
      /\ Len(toReceiver[d]) \in Nat
      /\ Head(toReceiver[d]) \in ToReceiver
  <2> HIDE DEF ToReceiver
  <2> QED BY TailShape
<1>2. \A e \in Device : Len(toReceiver[e]) <= BufferFrames
  BY DEF RadioTypeOK
<1> HIDE DEF ToReceiver
<1> QED BY <1>1, <1>2, RadioAssumption DEF RadioTypeOK

\* A receiver's steps keep the types.
LEMMA ReceiverTypes ==
    ASSUME TypeInv, NEW d \in Device, OfReceiver(d)
    PROVE  TypeInv'
<1> USE Typed
<1> HIDE DEF ToReceiver
<1>a. TransmitterTypeOK' /\ LinkInv'
  BY DEF OfReceiver, transmitterVars, selectionVars, linkVars, TransmitterTypeOK, LinkInv,
         LinkTypeOK, SilentTail
<1>1. CASE radioRxRoutine(d)
  <2>1. Accept(d, Head(held[d] \o toReceiver[d])) /\ Head(held[d] \o toReceiver[d]) \in ToReceiver
    BY <1>1, NextFrame DEF radioRxRoutine
  <2>2. /\ toReceiver' \in [Device -> Seq(ToReceiver)]
        /\ \A e \in Device : Len(toReceiver'[e]) <= BufferFrames
    BY <1>1, TailTypes DEF radioRxRoutine
  <2>3. /\ ReceiverTypeOK'
        /\ toTransmitter' \in Seq(ToTransmitter) /\ Len(toTransmitter') <= BufferFrames
    BY <2>1, AcceptTypes
  <2> QED BY <1>a, <2>2, <2>3 DEF TypeInv, TypeOK, RadioTypeOK
<1>2. CASE HoldBack(d)
  <2>1. /\ toReceiver' \in [Device -> Seq(ToReceiver)]
        /\ \A e \in Device : Len(toReceiver'[e]) <= BufferFrames
        /\ Head(toReceiver[d]) \in ToReceiver
    BY <1>2, TailTypes DEF HoldBack
  <2>2. /\ held' \in [Device -> Seq(ToReceiver)]
        /\ \A e \in Device : Len(held'[e]) <= 1
    <3>1. <<Head(toReceiver[d])>> \in Seq(ToReceiver) /\ Len(<<Head(toReceiver[d])>>) = 1
      BY <2>1
    <3>2. held' = [held EXCEPT ![d] = <<Head(toReceiver[d])>>]
      BY <1>2 DEF HoldBack
    <3> QED BY <3>1, <3>2 DEF ReceiverTypeOK
  <2>3. ReceiverTypeOK'
    BY <1>2, <2>2 DEF HoldBack, ReceiverTypeOK
  <2>4. RadioTypeOK'
    BY <1>2, <2>1 DEF HoldBack, RadioTypeOK
  <2> QED BY <1>a, <2>3, <2>4 DEF TypeInv, TypeOK
<1>3. CASE StrayEnd(d)
  <2>1. Accept(d, Head(held[d])) /\ Head(held[d]) \in ToReceiver /\ toReceiver' = toReceiver
    BY <1>3, HeldFrame DEF StrayEnd
  <2>2. /\ ReceiverTypeOK'
        /\ toTransmitter' \in Seq(ToTransmitter) /\ Len(toTransmitter') <= BufferFrames
    BY <2>1, AcceptTypes
  <2>3. RadioTypeOK'
    BY <2>1, <2>2 DEF RadioTypeOK
  <2> QED BY <1>a, <2>2, <2>3 DEF TypeInv, TypeOK
<1>4. CASE triggerTickRoutine(d)
  <2> PICK early \in SUBSET Expiring(d) : Tick(d, Expired(d) \cup early)
    BY <1>4 DEF triggerTickRoutine
  <2>1. active' \in [Device -> SUBSET Relay]
    BY DEF Tick, ReceiverTypeOK
  <2>2. belated' \in [Device -> SUBSET Relay] /\ sinceTick' \in [Device -> 0 .. 2] /\ held' = held
    BY <1>4 DEF triggerTickRoutine, ReceiverTypeOK
  <2>3. left' \in [Device -> [Relay -> 0 .. MaxDuration + 1]]
    BY <1>4, RadioAssumption DEF triggerTickRoutine, ReceiverTypeOK
  <2>4. ReceiverTypeOK'
    BY <2>1, <2>2, <2>3 DEF ReceiverTypeOK
  <2>5. RadioTypeOK'
    BY <1>4 DEF triggerTickRoutine, radioVars, RadioTypeOK
  <2> QED BY <1>a, <2>4, <2>5 DEF TypeInv, TypeOK
<1>5. CASE ReceiverRestart(d)
  <2>1. /\ held' \in [Device -> Seq(ToReceiver)]
        /\ \A e \in Device : Len(held'[e]) <= 1
    BY <1>5 DEF ReceiverRestart, ReceiverTypeOK
  <2>2. ReceiverTypeOK'
    BY <1>5, <2>1, RadioAssumption DEF ReceiverRestart, ReceiverTypeOK
  <2>3. RadioTypeOK'
    BY <1>5, RadioAssumption DEF ReceiverRestart, RadioTypeOK
  <2> QED BY <1>a, <2>2, <2>3 DEF TypeInv, TypeOK
<1> QED BY <1>1, <1>2, <1>3, <1>4, <1>5 DEF OfReceiver

\* The radio's losses keep the types.
LEMMA LoseTypes ==
    ASSUME TypeInv, Lose
    PROVE  TypeInv'
<1> USE Typed
<1>a. TransmitterTypeOK' /\ LinkInv' /\ ReceiverTypeOK'
  BY DEF Lose, transmitterVars, receiverVars, selectionVars, linkVars, TransmitterTypeOK,
         LinkInv, LinkTypeOK, SilentTail, ReceiverTypeOK
<1>1. CASE LoseToTransmitter
  <2>1. RadioTypeOK'
    <3> HIDE DEF ToTransmitter
    <3>1. /\ Tail(toTransmitter) \in Seq(ToTransmitter)
          /\ Len(Tail(toTransmitter)) = Len(toTransmitter) - 1 /\ Len(toTransmitter) \in Nat
      BY <1>1, TailShape DEF LoseToTransmitter, RadioTypeOK
    <3> QED BY <1>1, <3>1, RadioAssumption DEF LoseToTransmitter, RadioTypeOK
  <2> QED BY <1>a, <2>1 DEF TypeInv, TypeOK
<1>2. CASE \E d \in Device : LoseToReceiver(d)
  <2> PICK d \in Device : LoseToReceiver(d)
    BY <1>2
  <2>1. /\ toReceiver' \in [Device -> Seq(ToReceiver)]
        /\ \A e \in Device : Len(toReceiver'[e]) <= BufferFrames
    BY TailTypes DEF LoseToReceiver
  <2>2. RadioTypeOK'
    BY <2>1 DEF LoseToReceiver, RadioTypeOK
  <2> QED BY <1>a, <2>2 DEF TypeInv, TypeOK
<1> QED BY <1>1, <1>2 DEF Lose

\* A frame that grows a unit older stays a frame, of the same kind and contents.
LEMMA OlderFrame ==
    ASSUME NEW f \in ToReceiver, f.age < Latency
    PROVE  LET g == [f EXCEPT !.age = @ + 1]
           IN  /\ g \in ToReceiver /\ g.age = f.age + 1 /\ f.age \in Nat
               /\ g.op = f.op /\ g.id = f.id /\ (f.op = "FIRE" => g.relay = f.relay)
<1>1. f.age \in Nat /\ f.age + 1 \in Age
  BY RadioAssumption DEF ToReceiver, Age
<1>2. CASE f \in [op : {"PING"}, id : Byte, age : Age]
  BY <1>1, <1>2 DEF ToReceiver
<1>3. CASE f \in [op : {"FIRE"}, id : Byte, relay : Byte, duration : 0 .. MaxDuration, age : Age]
  BY <1>1, <1>3 DEF ToReceiver
<1>4. CASE f \in [op : {"FIRE_ACK"}, id : Byte, relay : Byte, active : BOOLEAN, age : Age]
  BY <1>1, <1>4 DEF ToReceiver
<1> QED BY <1>2, <1>3, <1>4 DEF ToReceiver

\* When time passes every buffer keeps its frames, each a unit older.
LEMMA OlderBuffers ==
    ASSUME TypeInv, RadioElapse, NEW d \in Device
    PROVE  /\ toReceiver'[d] \in Seq(ToReceiver)
           /\ Len(toReceiver'[d]) = Len(toReceiver[d])
           /\ \A i \in 1 .. Len(toReceiver[d]) :
                 /\ toReceiver[d][i] \in ToReceiver /\ toReceiver[d][i].age < Latency
                 /\ toReceiver'[d][i] = [toReceiver[d][i] EXCEPT !.age = @ + 1]
<1>1. toReceiver[d] \in Seq(ToReceiver) /\ Len(toReceiver[d]) \in Nat
      /\ DOMAIN toReceiver[d] = 1 .. Len(toReceiver[d])
  BY Typed
<1>2. toReceiver'[d] = [i \in 1 .. Len(toReceiver[d]) |-> [toReceiver[d][i] EXCEPT !.age = @ + 1]]
  BY <1>1 DEF RadioElapse
<1>3. \A i \in 1 .. Len(toReceiver[d]) :
         toReceiver[d][i] \in ToReceiver /\ toReceiver[d][i].age < Latency
  <2> HIDE DEF ToReceiver
  <2> QED BY <1>1 DEF RadioElapse
<1>4. \A i \in 1 .. Len(toReceiver[d]) : [toReceiver[d][i] EXCEPT !.age = @ + 1] \in ToReceiver
  BY <1>3, OlderFrame
<1> HIDE DEF ToReceiver
<1> QED BY <1>1, <1>2, <1>3, <1>4

\* The passing of time keeps the types.
LEMMA ElapseTypes ==
    ASSUME TypeInv, Elapse
    PROVE  TypeInv'
<1> USE Typed
<1>1. RadioTypeOK' /\ LinkInv'
  <2>1. /\ \A d \in Device : toReceiver'[d] \in Seq(ToReceiver) /\ Len(toReceiver'[d]) <= BufferFrames
        /\ toTransmitter' = toTransmitter
    BY OlderBuffers DEF Elapse, RadioElapse, RadioTypeOK
  <2>2. toReceiver' \in [Device -> Seq(ToReceiver)]
    <3>1. \E F : toReceiver' = [d \in Device |-> F[d]]
      <4>1. toReceiver' = [d \in Device |-> toReceiver'[d]]
        BY DEF Elapse, RadioElapse
      <4> QED BY <4>1
    <3> HIDE DEF ToReceiver
    <3> QED BY <2>1, <3>1
  <2>3. LinkInv'
    BY DEF Elapse, TransmitterElapse, linkVars, LinkInv, LinkTypeOK, SilentTail
  <2> HIDE DEF ToReceiver
  <2> QED BY <2>1, <2>2, <2>3 DEF RadioTypeOK
<1>2. ReceiverTypeOK'
  <2>1. left' \in [Device -> [Relay -> 0 .. MaxDuration + 1]]
    BY RadioAssumption DEF Elapse, ReceiverElapse, ReceiverTypeOK
  <2>2. sinceTick' \in [Device -> 0 .. 2]
    <3>1. \A d \in Device : sinceTick[d] \in 0 .. 2 /\ sinceTick[d] < 2
      BY DEF Elapse, ReceiverElapse, ReceiverTypeOK
    <3>2. ASSUME NEW n, n \in 0 .. 2, n < 2
          PROVE  n + 1 \in 0 .. 2
      BY <3>2
    <3>3. \A d \in Device : sinceTick[d] + 1 \in 0 .. 2
      BY <3>1, <3>2, Zenon
    <3> QED BY <3>3 DEF Elapse, ReceiverElapse
  <2> QED BY <2>1, <2>2 DEF Elapse, ReceiverElapse, ReceiverTypeOK
<1>3. TransmitterTypeOK'
  <2>1. \A n \in 0 .. Never : Older(n) \in 0 .. Never
    BY TransmitterAssumption DEF Older, Never
  <2>2. sinceFire' \in [Device -> [Relay -> 0 .. Never]]
    BY <2>1 DEF Elapse, TransmitterElapse
  <2>3. sincePing' \in 0 .. PingPeriod
    BY DEF Elapse, TransmitterElapse, PingPeriod, TransmitterTypeOK
  <2> QED BY <1>1, <2>2, <2>3 DEF Elapse, TransmitterElapse, TransmitterTypeOK, selectionVars, LinkInv
<1> QED BY <1>1, <1>2, <1>3 DEF TypeInv, TypeOK

\* Every step keeps the types.
LEMMA NextTypes == TypeInv /\ [Next]_vars => TypeInv'
<1> SUFFICES ASSUME TypeInv, [Next]_vars PROVE TypeInv'
  OBVIOUS
<1>1. CASE Next
  BY <1>1, TransmitterTypes, ReceiverTypes, LoseTypes, ElapseTypes DEF Next
<1>2. CASE UNCHANGED vars
  BY <1>2, Typed DEF vars, transmitterVars, selectionVars, linkVars, receiverVars, radioVars,
     TypeInv, TypeOK, RadioTypeOK, TransmitterTypeOK, ReceiverTypeOK, LinkInv, LinkTypeOK,
     SilentTail
<1> QED BY <1>1, <1>2

\* The type invariant, with the shape of the window that the gate rests on.
LEMMA TypesHold == Spec => []TypeInv
BY InitTypes, NextTypes, PTL DEF Spec

\* The fire chain stays inside its types: no relay index, id or duration leaves
\* its range, and no buffer grows over its size.
THEOREM TypeCorrect == Spec => []TypeOK
<1>1. TypeInv => TypeOK
  BY DEF TypeInv
<1> QED BY <1>1, TypesHold, PTL

\* Five ninths of the window's length in PINGs without an answer take the link of
\* every fire chain down, whoever the answers before them came from.
THEOREM SilentLinkDown == Spec => []SilenceTakesDown
<1>1. TypeInv => SilenceTakesDown
  BY SilenceCounts DEF TypeInv
<1> QED BY <1>1, TypesHold, PTL
-----------------------------------------------------------------------------
(***************************************************************************)
(* The dead man's switch.  DeadMan is not inductive: a FIRE that waits at  *)
(* a receiver must be no younger than the last one its history knows, one  *)
(* that a parser keeps back must be in the history at all, and an output   *)
(* that is on must have left no more than the age of its last FIRE leaves  *)
(* it, or wait for the next tick.                                          *)
(***************************************************************************)
\* The transmitter fired at relay k of device d at some time.
Known(d, k) == sinceFire[d][k] # Never

\* Frame f is no FIRE for device d, or the history holds one as young.
FreshFor(d, f, since) ==
    IsFireFor(d, f) => since[d][f.relay] # Never /\ since[d][f.relay] <= f.age

FiresFresh == \A d \in Device : \A i \in 1 .. Len(toReceiver[d]) :
                 FreshFor(d, toReceiver[d][i], sinceFire)

HeldKnown == \A d \in Device : \A i \in 1 .. Len(held[d]) :
                IsFireFor(d, held[d][i]) => Known(d, held[d][i].relay)

KnownOn == \A d \in Device : \A k \in active[d] : Known(d, k)

\* What is on, and not for a FIRE that was kept back, is not on for too long.
InTime(since, l, tick) ==
    /\ l > 0 => since + l <= Latency + MaxDuration + 1
    /\ l = 0 => since <= Latency + MaxDuration + tick

Counted == \A d \in Device : \A k \in active[d] \ belated[d] :
              InTime(sinceFire[d][k], left[d][k], sinceTick[d])

Relays == HeldKnown /\ KnownOn /\ Counted

ChainInv == TypeInv /\ FiresFresh /\ Relays

\* What the types say of a relay's counts.
LEMMA CountTypes ==
    ASSUME TypeInv
    PROVE  \A d \in Device : \A k \in Relay :
              /\ sinceFire[d][k] \in Nat /\ left[d][k] \in Nat /\ sinceTick[d] \in 0 .. 2
              /\ left[d][k] <= MaxDuration + 1
BY Typed, RadioAssumption

\* A step that at most makes FIREs younger and leaves the receivers alone keeps
\* the relays' part of the invariant.
LEMMA YoungerKeeps ==
    ASSUME ChainInv, UNCHANGED receiverVars,
           \A d \in Device : \A k \in Relay : sinceFire'[d][k] \in {0, sinceFire[d][k]}
    PROVE  Relays'
<1>1. /\ held' = held /\ active' = active /\ left' = left
      /\ sinceTick' = sinceTick /\ belated' = belated
  BY DEF receiverVars
<1>2. TypeInv /\ Never # 0 /\ Never' = Never
  BY TransmitterAssumption DEF ChainInv, Never
<1>3. \A d \in Device : \A k \in Relay : Known(d, k) => Known(d, k)'
  BY <1>2 DEF Known
<1>4. HeldKnown'
  BY <1>1, <1>3 DEF ChainInv, Relays, HeldKnown, IsFireFor
<1>5. \A d \in Device : active[d] \subseteq Relay
  BY <1>2, Typed
<1>6. KnownOn'
  BY <1>1, <1>3, <1>5 DEF ChainInv, Relays, KnownOn
<1>7. Counted'
  <2> SUFFICES ASSUME NEW d \in Device, NEW k \in active[d] \ belated[d]
               PROVE  InTime(sinceFire'[d][k], left[d][k], sinceTick[d])
    BY <1>1 DEF Counted
  <2>1. InTime(sinceFire[d][k], left[d][k], sinceTick[d])
    BY DEF ChainInv, Relays, Counted
  <2>2. /\ sinceFire[d][k] \in Nat /\ left[d][k] \in Nat /\ sinceTick[d] \in Nat
        /\ left[d][k] <= MaxDuration + 1 /\ sinceFire'[d][k] \in {0, sinceFire[d][k]}
    BY <1>2, <1>5, CountTypes
  <2> QED BY <2>1, <2>2, RadioAssumption DEF InTime
<1> QED BY <1>4, <1>6, <1>7 DEF Relays

\* What is written is fresh if the history says so; what was there stays fresh.
LEMMA BroadcastKeeps ==
    ASSUME ChainInv, NEW fs \in Seq(ToReceiver), Broadcast(fs),
           \A d \in Device : \A k \in Relay : sinceFire'[d][k] \in {0, sinceFire[d][k]},
           \A d \in Device : \A j \in 1 .. Len(fs) : FreshFor(d, fs[j], sinceFire')
    PROVE  FiresFresh'
<1> SUFFICES ASSUME NEW d \in Device, NEW i \in 1 .. Len(toReceiver'[d])
             PROVE  FreshFor(d, toReceiver'[d][i], sinceFire')
  BY DEF FiresFresh
<1>1. \/ i \in 1 .. Len(toReceiver[d]) /\ toReceiver'[d][i] = toReceiver[d][i]
      \/ \E j \in 1 .. Len(fs) : toReceiver'[d][i] = fs[j]
  <2>1. RadioTypeOK
    BY Typed DEF ChainInv
  <2> QED BY <2>1, BroadcastShape
<1>2. CASE i \in 1 .. Len(toReceiver[d]) /\ toReceiver'[d][i] = toReceiver[d][i]
  <2>1. FreshFor(d, toReceiver[d][i], sinceFire)
    BY <1>2 DEF ChainInv, FiresFresh
  <2>2. Never # 0
    BY TransmitterAssumption DEF Never
  <2>3. toReceiver[d][i].age \in Nat
    <3>1. toReceiver[d] \in Seq(ToReceiver)
      BY Typed DEF ChainInv
    <3>2. toReceiver[d][i] \in ToReceiver
      <4> HIDE DEF ToReceiver
      <4> QED BY <1>2, <3>1
    <3> QED BY <3>2, RadioAssumption DEF ToReceiver, Age
  <2> QED BY <1>2, <2>1, <2>2, <2>3 DEF FreshFor, IsFireFor
<1>3. CASE \E j \in 1 .. Len(fs) : toReceiver'[d][i] = fs[j]
  BY <1>3
<1> QED BY <1>1, <1>2, <1>3

\* A FIRE that is written makes its relay's last FIRE the youngest there is.
LEMMA WriteFireKeeps ==
    ASSUME ChainInv, NEW k \in Byte, NEW n \in 0 .. MaxDuration, WriteFire(k, n)
    PROVE  /\ FiresFresh'
           /\ \A d \in Device : \A r \in Relay : sinceFire'[d][r] \in {0, sinceFire[d][r]}
<1> DEFINE f == FireFor(Target, k, n)
<1>1. TypeInv /\ Target \in Byte
  BY Typed DEF ChainInv
<1>2. Broadcast(<<f>>) /\ <<f>> \in Seq(ToReceiver) /\ f.id = Target /\ f.relay = k /\ f.age = 0
  BY <1>1, WrittenFire DEF WriteFire
<1>3. \A d \in Device : \A r \in Relay :
         /\ sinceFire'[d][r] \in {0, sinceFire[d][r]}
         /\ d = Target /\ r = k => sinceFire'[d][r] = 0
  BY DEF WriteFire
<1>4. \A d \in Device : FreshFor(d, f, sinceFire')
  <2>1. Never # 0
    BY TransmitterAssumption DEF Never
  <2> HIDE DEF f
  <2> QED BY <1>2, <1>3, <2>1 DEF FreshFor, IsFireFor
<1>5. FiresFresh'
  <2>1. \A d \in Device : \A j \in 1 .. Len(<<f>>) : FreshFor(d, <<f>>[j], sinceFire')
    <3> HIDE DEF f
    <3> QED BY <1>4
  <2> HIDE DEF f
  <2> QED BY <1>2, <1>3, <2>1, BroadcastKeeps
<1> QED BY <1>3, <1>5

\* The transmitter's steps keep the chain's invariant.
LEMMA TransmitterKeeps ==
    ASSUME ChainInv, OfTransmitter
    PROVE  ChainInv'
<1>a. TypeInv /\ TypeInv'
  BY TransmitterTypes DEF ChainInv
<1>b. SUFFICES /\ FiresFresh'
               /\ \A d \in Device : \A k \in Relay : sinceFire'[d][k] \in {0, sinceFire[d][k]}
  <2>1. UNCHANGED receiverVars
    BY DEF OfTransmitter
  <2> QED BY <1>a, <2>1, YoungerKeeps DEF ChainInv
<1>c. ASSUME UNCHANGED <<toReceiver, sinceFire>>
      PROVE  /\ FiresFresh'
             /\ \A d \in Device : \A k \in Relay : sinceFire'[d][k] \in {0, sinceFire[d][k]}
  BY <1>c DEF ChainInv, FiresFresh, FreshFor, IsFireFor
<1>1. CASE pingRoutine
  <2> DEFINE fs == <<PingFor(Target)>>
  <2>1. fs \in Seq(ToReceiver) /\ Broadcast(fs) /\ sinceFire' = sinceFire
    BY <1>1, <1>a, Typed, WrittenPing DEF pingRoutine
  <2>2. \A d \in Device : \A j \in 1 .. Len(fs) : FreshFor(d, fs[j], sinceFire')
    BY <1>a, Typed, WrittenPing DEF FreshFor, IsFireFor
  <2> HIDE DEF fs
  <2> QED BY <2>1, <2>2, BroadcastKeeps
<1>2. CASE checkQualityRoutine
  BY <1>2, <1>c DEF checkQualityRoutine, radioVars
<1>3. CASE \E pressed \in BOOLEAN : Press(pressed)
  <2> PICK pressed \in BOOLEAN, slot \in Slot, relay \in Relay :
           checkSwitchesRoutine(pressed, slot, relay)
    BY <1>3 DEF Press
  <2>1. CASE ButtonFires(pressed)
    BY <2>1, <1>a, Typed, WriteFireKeeps, TransmitterAssumption DEF checkSwitchesRoutine
  <2>2. CASE ~ButtonFires(pressed)
    BY <2>2, <1>c DEF checkSwitchesRoutine
  <2> QED BY <2>1, <2>2
<1>4. CASE \E c \in Command : configRoutine(c)
  <2> PICK c \in Command : configRoutine(c)
    BY <1>4
  <2>1. CASE TriggerFire(c)
    BY <2>1, WriteFireKeeps, TransmitterAssumption DEF TriggerFire
  <2>2. CASE ToggleMechanical(c) \/ SelectTarget(c) \/ SetTargetId(c)
    BY <2>2, <1>c DEF ToggleMechanical, SelectTarget, SetTargetId
  <2> QED BY <2>1, <2>2 DEF configRoutine
<1>5. CASE Answered
  <2> DEFINE f  == Head(toTransmitter)
             on == targetRelay \in f.active
             fs == [i \in 1 .. NUM_RELAYS |-> FireAckOf(f.id, i - 1, i - 1 = targetRelay /\ on)]
  <2>1. CASE IsTarget(f)
    <3>1. Broadcast(fs) /\ sinceFire' = sinceFire
      BY <1>5, <2>1 DEF Answered
    <3>2. f.id \in Byte
      BY <2>1, <1>a, Typed DEF IsTarget
    <3>3. ASSUME NEW i \in 1 .. NUM_RELAYS
          PROVE  /\ FireAckOf(f.id, i - 1, i - 1 = targetRelay /\ on) \in ToReceiver
                 /\ FireAckOf(f.id, i - 1, i - 1 = targetRelay /\ on).op = "FIRE_ACK"
      <4>1. i - 1 \in Byte
        BY RadioAssumption DEF Byte
      <4>2. (i - 1 = targetRelay /\ on) \in BOOLEAN
        OBVIOUS
      <4> HIDE DEF f, on
      <4> QED BY <3>2, <4>1, <4>2, WrittenFireAck, Zenon
    <3>4. NUM_RELAYS \in Nat
      BY RadioAssumption DEF Byte
    <3>5. /\ fs \in Seq(ToReceiver) /\ Len(fs) = NUM_RELAYS
          /\ \A i \in 1 .. NUM_RELAYS : fs[i].op = "FIRE_ACK"
      <4> HIDE DEF f, on, ToReceiver
      <4> QED BY <3>3, <3>4
    <3>6. \A d \in Device : \A j \in 1 .. Len(fs) : FreshFor(d, fs[j], sinceFire')
      <4> HIDE DEF fs
      <4> QED BY <3>5 DEF FreshFor, IsFireFor
    <3> HIDE DEF fs
    <3> QED BY <3>1, <3>5, <3>6, BroadcastKeeps
  <2>2. CASE ~IsTarget(f)
    BY <1>5, <2>2, <1>c DEF Answered
  <2> QED BY <2>1, <2>2
<1>6. CASE TransmitterRestart
  BY <1>6, <1>c DEF TransmitterRestart
<1> QED BY <1>1, <1>2, <1>3, <1>4, <1>5, <1>6 DEF OfTransmitter

\* Losing or reading the front of a buffer leaves the rest as fresh as it was.
LEMMA TailKeeps ==
    ASSUME ChainInv, NEW e \in Device, toReceiver[e] # << >>,
           toReceiver' = [toReceiver EXCEPT ![e] = Tail(@)], sinceFire' = sinceFire
    PROVE  FiresFresh'
<1> SUFFICES ASSUME NEW d \in Device, NEW i \in 1 .. Len(toReceiver'[d])
             PROVE  FreshFor(d, toReceiver'[d][i], sinceFire')
  BY DEF FiresFresh
<1>1. toReceiver \in [Device -> Seq(ToReceiver)]
  BY Typed DEF ChainInv, RadioTypeOK
<1>2. CASE d # e
  <2>1. toReceiver'[d] = toReceiver[d]
    BY <1>1, <1>2
  <2> QED BY <2>1 DEF ChainInv, FiresFresh, FreshFor, IsFireFor
<1>3. CASE d = e
  <2>1. toReceiver'[d] = Tail(toReceiver[d]) /\ toReceiver[d] \in Seq(ToReceiver)
    BY <1>1, <1>3
  <2>2. Tail(toReceiver[d])[i] = toReceiver[d][i + 1] /\ i + 1 \in 1 .. Len(toReceiver[d])
    <3> HIDE DEF ToReceiver
    <3> QED BY <1>3, <2>1, TailShape
  <2> QED BY <2>1, <2>2 DEF ChainInv, FiresFresh, FreshFor, IsFireFor
<1> QED BY <1>2, <1>3

\* A FIRE that is accepted is one of the history, and as young as it says unless
\* it was kept back.
LEMMA AcceptKeeps ==
    ASSUME ChainInv, NEW e \in Device, NEW f \in ToReceiver, Accept(e, f), sinceFire' = sinceFire,
           IsFireFor(e, f) => Known(e, f.relay),
           held[e] = << >> => FreshFor(e, f, sinceFire)
    PROVE  Relays'
<1>a. TypeInv /\ HeldKnown /\ KnownOn /\ Counted
  BY DEF ChainInv, Relays
<1>b. /\ held \in [Device -> Seq(ToReceiver)]
      /\ active \in [Device -> SUBSET Relay] /\ belated \in [Device -> SUBSET Relay]
      /\ left \in [Device -> [Relay -> 0 .. MaxDuration + 1]]
  BY <1>a, Typed DEF ReceiverTypeOK
<1>c. sinceTick' = sinceTick /\ held' = [held EXCEPT ![e] = << >>]
  BY DEF Accept
<1> HIDE DEF ToReceiver
<1>1. HeldKnown'
  <2> SUFFICES ASSUME NEW d \in Device, NEW i \in 1 .. Len(held'[d]), IsFireFor(d, held'[d][i])
               PROVE  sinceFire'[d][held'[d][i].relay] # Never
    BY DEF HeldKnown, Known, IsFireFor, Never, Relay
  <2>1. d # e /\ held'[d] = held[d]
    BY <1>b, <1>c
  <2> QED BY <1>a, <2>1 DEF HeldKnown, Known, Never
<1>2. CASE Fire(e, f)
  <2> DEFINE k == f.relay
             n == IF f.duration = 0 THEN 0 ELSE f.duration + 1
  <2>1. IsFireFor(e, f) /\ k \in Relay /\ f.duration \in 0 .. MaxDuration /\ f.age \in 0 .. Latency
    BY <1>2 DEF Fire, IsFireFor, ToReceiver, Age
  <2>2. /\ active' = [active EXCEPT ![e] = @ \cup {k}]
        /\ left' = [left EXCEPT ![e][k] = n]
        /\ belated' = [belated EXCEPT ![e] = IF held[e] = << >> THEN @ \ {k} ELSE @ \cup {k}]
    BY <1>2 DEF Fire
  <2>3. KnownOn'
    BY <1>a, <1>b, <2>1, <2>2 DEF KnownOn, Known, Never
  <2>4. Counted'
    <3> SUFFICES ASSUME NEW d \in Device, NEW r \in active'[d] \ belated'[d]
                 PROVE  InTime(sinceFire[d][r], left'[d][r], sinceTick[d])
      BY <1>c DEF Counted
    <3> HIDE DEF n
    <3>1. CASE d = e /\ r = k
      <4>1. held[e] = << >>
        BY <1>b, <2>2, <3>1
      <4>2. sinceFire[e][k] <= Latency
        BY <1>a, <2>1, <4>1, CountTypes, RadioAssumption DEF FreshFor
      <4>3. left'[d][r] = n
        BY <1>b, <2>1, <2>2, <3>1
      <4>4. sinceFire[e][k] \in Nat /\ sinceTick[e] \in 0 .. 2
        BY <1>a, <2>1, CountTypes
      <4> QED BY <2>1, <3>1, <4>2, <4>3, <4>4, RadioAssumption DEF InTime, n
    <3>2. CASE ~(d = e /\ r = k)
      <4>1. r \in active[d] \ belated[d] /\ r \in Relay
        BY <1>b, <2>1, <2>2, <3>2
      <4>2. left'[d][r] = left[d][r]
        BY <1>b, <2>2, <3>2, <4>1
      <4> QED BY <1>a, <4>1, <4>2 DEF Counted
    <3> QED BY <3>1, <3>2
  <2> QED BY <1>1, <2>3, <2>4 DEF Relays
<1>3. CASE AnswerPing(e, f) \/ Ignore(e, f)
  <2>1. active' = active /\ left' = left /\ belated' = belated
    BY <1>3 DEF AnswerPing, Ignore
  <2>2. KnownOn' /\ Counted'
    BY <1>a, <1>c, <2>1 DEF KnownOn, Counted, Known, Never
  <2> QED BY <1>1, <2>2 DEF Relays
<1> QED BY <1>2, <1>3 DEF Accept

\* A receiver's steps keep the chain's invariant.
LEMMA ReceiverKeeps ==
    ASSUME ChainInv, NEW e \in Device, OfReceiver(e)
    PROVE  FiresFresh' /\ Relays'
<1>a. TypeInv /\ FiresFresh /\ HeldKnown /\ KnownOn /\ Counted /\ sinceFire' = sinceFire
  BY DEF ChainInv, Relays, OfReceiver, transmitterVars
<1>b. /\ toReceiver \in [Device -> Seq(ToReceiver)]
      /\ active \in [Device -> SUBSET Relay] /\ belated \in [Device -> SUBSET Relay]
      /\ left \in [Device -> [Relay -> 0 .. MaxDuration + 1]]
      /\ held \in [Device -> Seq(ToReceiver)] /\ sinceTick \in [Device -> 0 .. 2]
  BY <1>a, Typed DEF ReceiverTypeOK, RadioTypeOK
<1> HIDE DEF ToReceiver
<1>1. CASE radioRxRoutine(e)
  <2> DEFINE f == Head(held[e] \o toReceiver[e])
  <2>1. f \in ToReceiver /\ Accept(e, f)
    BY <1>a, <1>1, NextFrame DEF radioRxRoutine
  <2>2. held[e] = << >> => FreshFor(e, f, sinceFire)
    BY <1>a, <1>1, NextFrame DEF radioRxRoutine, FiresFresh
  <2>3. IsFireFor(e, f) => Known(e, f.relay)
    <3>1. CASE held[e] = << >>
      <4> HIDE DEF f
      <4> QED BY <2>2, <3>1 DEF FreshFor, Known
    <3>2. CASE held[e] # << >>
      BY <1>a, <1>1, <3>2, NextFrame DEF radioRxRoutine, HeldKnown
    <3> QED BY <3>1, <3>2
  <2>4. FiresFresh'
    BY <1>1, <1>a, TailKeeps DEF radioRxRoutine
  <2> HIDE DEF f
  <2> QED BY <1>a, <2>1, <2>2, <2>3, <2>4, AcceptKeeps
<1>2. CASE HoldBack(e)
  <2> DEFINE f == Head(toReceiver[e])
  <2>1. FiresFresh'
    BY <1>2, <1>a, TailKeeps DEF HoldBack
  <2>2. /\ active' = active /\ left' = left /\ belated' = belated /\ sinceTick' = sinceTick
        /\ held' = [held EXCEPT ![e] = <<f>>]
    BY <1>2 DEF HoldBack
  <2>3. f = toReceiver[e][1] /\ 1 \in 1 .. Len(toReceiver[e])
    BY <1>2, <1>b, TailShape DEF HoldBack
  <2>4. FreshFor(e, f, sinceFire)
    <3> HIDE DEF f
    <3> QED BY <1>a, <2>3 DEF FiresFresh
  <2> HIDE DEF f
  <2>5. HeldKnown'
    <3> SUFFICES ASSUME NEW d \in Device, NEW i \in 1 .. Len(held'[d]), IsFireFor(d, held'[d][i])
                 PROVE  sinceFire'[d][held'[d][i].relay] # Never
      BY DEF HeldKnown, Known, IsFireFor, Never, Relay
    <3>1. CASE d = e
      <4>1. held'[d][i] = f
        BY <1>b, <2>2, <3>1
      <4> QED BY <1>a, <2>4, <3>1, <4>1 DEF FreshFor, Known, Never
    <3>2. CASE d # e
      <4>1. held'[d] = held[d]
        BY <1>b, <2>2, <3>2
      <4> QED BY <1>a, <4>1 DEF HeldKnown, Known, Never
    <3> QED BY <3>1, <3>2
  <2>6. KnownOn' /\ Counted'
    BY <1>a, <2>2 DEF KnownOn, Counted, Known, Never
  <2> QED BY <2>1, <2>5, <2>6 DEF Relays
<1>3. CASE StrayEnd(e)
  <2> DEFINE f == Head(held[e])
  <2>1. f \in ToReceiver /\ Accept(e, f) /\ held[e] # << >>
    BY <1>a, <1>3, HeldFrame DEF StrayEnd
  <2>2. IsFireFor(e, f) => Known(e, f.relay)
    BY <1>a, <1>3, HeldFrame DEF StrayEnd, HeldKnown
  <2>3. FiresFresh'
    BY <1>3, <1>a DEF StrayEnd, FiresFresh, FreshFor, IsFireFor, Never
  <2> HIDE DEF f
  <2> QED BY <1>a, <2>1, <2>2, <2>3, AcceptKeeps
<1>4. CASE triggerTickRoutine(e)
  <2> PICK early \in SUBSET Expiring(e) : Tick(e, Expired(e) \cup early)
    BY <1>4 DEF triggerTickRoutine
  <2>1. FiresFresh' /\ held' = held
    BY <1>4, <1>a DEF triggerTickRoutine, radioVars, FiresFresh, FreshFor, IsFireFor, Never
  <2>2. HeldKnown'
    BY <1>a, <2>1 DEF HeldKnown, IsFireFor, Known, Never
  <2>3. ASSUME NEW d \in Device, NEW k \in active'[d]
        PROVE  /\ k \in active[d] /\ k \in Relay
               /\ k \notin belated'[d] => k \notin belated[d]
               /\ left'[d][k] = left[d][k]
               /\ d = e => left[d][k] # 0
               /\ d # e => sinceTick'[d] = sinceTick[d]
    <3>1. k \in active[d] /\ k \in Relay /\ (d = e => left[d][k] # 0)
      BY <1>b DEF Tick, Expired
    <3>2. k \notin belated'[d] => k \notin belated[d]
      BY <1>4, <1>b DEF triggerTickRoutine
    <3>3. left'[d][k] = left[d][k]
      BY <1>4, <1>b, <3>1 DEF triggerTickRoutine
    <3>4. d # e => sinceTick'[d] = sinceTick[d]
      BY <1>4, <1>b DEF triggerTickRoutine
    <3> QED BY <3>1, <3>2, <3>3, <3>4
  <2>4. KnownOn'
    BY <1>a, <2>3 DEF KnownOn, Known, Never
  <2>5. Counted'
    <3> SUFFICES ASSUME NEW d \in Device, NEW k \in active'[d] \ belated'[d]
                 PROVE  InTime(sinceFire[d][k], left'[d][k], sinceTick'[d])
      BY <1>a DEF Counted
    <3>1. InTime(sinceFire[d][k], left[d][k], sinceTick[d])
      BY <1>a, <2>3 DEF Counted
    <3> QED BY <2>3, <3>1 DEF InTime
  <2> QED BY <2>1, <2>2, <2>4, <2>5 DEF Relays
<1>5. CASE ReceiverRestart(e)
  <2>1. \A d \in Device :
           /\ d # e => /\ active'[d] = active[d] /\ left'[d] = left[d] /\ held'[d] = held[d]
                       /\ sinceTick'[d] = sinceTick[d] /\ toReceiver'[d] = toReceiver[d]
                       /\ belated'[d] = belated[d]
           /\ d = e => active'[d] = {} /\ toReceiver'[d] = << >> /\ held'[d] = << >>
    BY <1>5, <1>b DEF ReceiverRestart
  <2>2. FiresFresh'
    BY <1>a, <2>1 DEF FiresFresh, FreshFor, IsFireFor, Never
  <2>3. HeldKnown'
    BY <1>a, <2>1 DEF HeldKnown, IsFireFor, Known, Never
  <2>4. KnownOn' /\ Counted'
    BY <1>a, <2>1 DEF KnownOn, Counted, Known, Never
  <2> QED BY <2>2, <2>3, <2>4 DEF Relays
<1> QED BY <1>1, <1>2, <1>3, <1>4, <1>5 DEF OfReceiver

\* A lost frame keeps the chain's invariant.
LEMMA LoseKeeps == ASSUME ChainInv, Lose PROVE FiresFresh' /\ Relays'
<1>1. UNCHANGED receiverVars /\ sinceFire' = sinceFire
  BY DEF Lose, transmitterVars
<1>2. Relays'
  BY <1>1, YoungerKeeps
<1>3. FiresFresh'
  <2>1. CASE LoseToTransmitter
    BY <1>1, <2>1 DEF LoseToTransmitter, ChainInv, FiresFresh, FreshFor, IsFireFor, Never
  <2>2. CASE \E d \in Device : LoseToReceiver(d)
    BY <1>1, <2>2, TailKeeps DEF LoseToReceiver
  <2> QED BY <2>1, <2>2 DEF Lose
<1> QED BY <1>2, <1>3

\* The history grows by at most a unit, and does not forget that there was a FIRE.
LEMMA OlderHistory ==
    ASSUME TypeInv, Elapse, NEW d \in Device, NEW k \in Relay
    PROVE  /\ sinceFire'[d][k] \in Nat /\ sinceFire'[d][k] <= sinceFire[d][k] + 1
           /\ Known(d, k) => sinceFire'[d][k] # Never
<1>1. sinceFire'[d][k] = Older(sinceFire[d][k])
  BY DEF Elapse, TransmitterElapse
<1>2. sinceFire[d][k] \in 0 .. Never
  BY Typed
<1> QED BY <1>1, <1>2, TransmitterAssumption DEF Older, Never, Known

\* A time unit passes: what waits and what is known of it grow older together, and
\* an output that is on loses a unit of what it has left, or waits for a tick.
LEMMA ElapseKeeps == ASSUME ChainInv, Elapse PROVE FiresFresh' /\ Relays'
<1>a. TypeInv /\ FiresFresh /\ HeldKnown /\ KnownOn /\ Counted /\ Never' = Never
  BY DEF ChainInv, Relays, Never
<1>b. /\ held' = held /\ active' = active /\ belated' = belated
      /\ \A d \in Device : active[d] \subseteq Relay
  BY <1>a, Typed DEF Elapse, ReceiverElapse
<1>1. FiresFresh'
  <2> SUFFICES ASSUME NEW d \in Device, NEW i \in 1 .. Len(toReceiver'[d])
               PROVE  FreshFor(d, toReceiver'[d][i], sinceFire')
    BY <1>a DEF FiresFresh, FreshFor, IsFireFor
  <2> DEFINE f == toReceiver[d][i]
             g == toReceiver'[d][i]
  <2>1. /\ i \in 1 .. Len(toReceiver[d]) /\ f \in ToReceiver /\ f.age < Latency
        /\ g = [f EXCEPT !.age = @ + 1]
    BY <1>a, OlderBuffers DEF Elapse
  <2>2. FreshFor(d, f, sinceFire)
    BY <1>a, <2>1 DEF FiresFresh
  <2> HIDE DEF f, g, ToReceiver
  <2>3. /\ g.age = f.age + 1 /\ f.age \in Nat
        /\ g.op = f.op /\ g.id = f.id /\ (f.op = "FIRE" => g.relay = f.relay)
    BY <2>1, OlderFrame
  <2>4. ASSUME IsFireFor(d, g)
        PROVE  sinceFire'[d][g.relay] # Never /\ sinceFire'[d][g.relay] <= g.age
    <3>1. IsFireFor(d, f) /\ g.relay = f.relay /\ f.relay \in Relay
      BY <2>3, <2>4 DEF IsFireFor
    <3>2. sinceFire[d][f.relay] <= f.age /\ Known(d, f.relay) /\ sinceFire[d][f.relay] \in Nat
      BY <1>a, <2>2, <3>1, CountTypes DEF FreshFor, Known
    <3>3. /\ sinceFire'[d][f.relay] \in Nat /\ sinceFire'[d][f.relay] <= sinceFire[d][f.relay] + 1
          /\ sinceFire'[d][f.relay] # Never
      BY <1>a, <3>1, <3>2, OlderHistory
    <3> QED BY <2>3, <3>1, <3>2, <3>3
  <2>5. FreshFor(d, g, sinceFire')
    BY <1>a, <2>4 DEF FreshFor
  <2> QED BY <2>5 DEF g
<1>2. HeldKnown'
  BY <1>a, <1>b, OlderHistory DEF HeldKnown, IsFireFor, Known
<1>3. KnownOn'
  BY <1>a, <1>b, OlderHistory DEF KnownOn, Known
<1>4. Counted'
  <2> SUFFICES ASSUME NEW d \in Device, NEW k \in active[d] \ belated[d]
               PROVE  InTime(sinceFire'[d][k], left'[d][k], sinceTick'[d])
    BY <1>b DEF Counted
  <2>1. /\ InTime(sinceFire[d][k], left[d][k], sinceTick[d]) /\ k \in Relay
        /\ sinceFire[d][k] \in Nat /\ left[d][k] \in Nat /\ sinceTick[d] \in 0 .. 2
    BY <1>a, <1>b, CountTypes DEF Counted
  <2>2. /\ left'[d][k] = IF left[d][k] = 0 THEN 0 ELSE left[d][k] - 1
        /\ sinceTick'[d] = sinceTick[d] + 1
    BY <2>1 DEF Elapse, ReceiverElapse
  <2>3. sinceFire'[d][k] \in Nat /\ sinceFire'[d][k] <= sinceFire[d][k] + 1
    BY <1>a, <2>1, OlderHistory
  <2> QED BY <2>1, <2>2, <2>3, RadioAssumption DEF InTime
<1> QED BY <1>1, <1>2, <1>3, <1>4 DEF Relays

\* The chain's invariant is inductive.
LEMMA ChainInductive == ChainInv /\ [Next]_vars => ChainInv'
<1> SUFFICES ASSUME ChainInv, [Next]_vars PROVE ChainInv'
  OBVIOUS
<1>1. TypeInv'
  BY NextTypes DEF ChainInv
<1>2. FiresFresh' /\ Relays'
  <2>1. CASE OfTransmitter
    BY <2>1, TransmitterKeeps DEF ChainInv
  <2>2. CASE \E d \in Device : OfReceiver(d)
    BY <2>2, ReceiverKeeps
  <2>3. CASE Lose
    BY <2>3, LoseKeeps
  <2>4. CASE Elapse
    BY <2>4, ElapseKeeps
  <2>5. CASE UNCHANGED vars
    <3>1. UNCHANGED <<receiverVars, toReceiver, sinceFire>>
      BY <2>5 DEF vars, transmitterVars, radioVars
    <3>2. Relays'
      BY <3>1, YoungerKeeps
    <3> QED BY <3>1, <3>2 DEF ChainInv, FiresFresh, FreshFor, IsFireFor, Never
  <2> QED BY <2>1, <2>2, <2>3, <2>4, <2>5 DEF Next
<1> QED BY <1>1, <1>2 DEF ChainInv

\* The strengthened dead man's switch is an invariant.
LEMMA ChainHolds == Spec => []ChainInv
<1>1. Init => ChainInv
  <2>1. ASSUME Init
        PROVE  FiresFresh /\ Relays
    <3>1. \A d \in Device : toReceiver[d] = << >> /\ active[d] = {} /\ held[d] = << >>
      BY <2>1 DEF Init, RadioInit, ReceiverInit
    <3> QED BY <3>1 DEF FiresFresh, Relays, HeldKnown, KnownOn, Counted
  <2> QED BY <2>1, InitTypes DEF ChainInv
<1> QED BY <1>1, ChainInductive, PTL DEF Spec

\* The dead man's switch holds in every fire chain: a relay that is on was fired
\* at by the transmitter, and unless the FIRE was kept back for want of its end
\* symbol, no longer ago than a FIRE is on its way and lasts, and two units.
THEOREM DeadManHolds == Spec => []DeadMan
<1>1. ChainInv => DeadMan
  <2> SUFFICES ASSUME ChainInv, NEW d \in Device, NEW k \in Relay, k \in active[d]
               PROVE  /\ sinceFire[d][k] # Never
                      /\ k \notin belated[d] => sinceFire[d][k] <= Latency + MaxDuration + 2
    BY DEF DeadMan
  <2>1. sinceFire[d][k] # Never
    BY DEF ChainInv, Relays, KnownOn, Known
  <2>2. ASSUME k \notin belated[d]
        PROVE  sinceFire[d][k] <= Latency + MaxDuration + 2
    <3>1. InTime(sinceFire[d][k], left[d][k], sinceTick[d])
      BY <2>2 DEF ChainInv, Relays, Counted
    <3>2. sinceFire[d][k] \in Nat /\ left[d][k] \in Nat /\ sinceTick[d] \in 0 .. 2
      BY CountTypes DEF ChainInv
    <3> QED BY <3>1, <3>2, RadioAssumption DEF InTime
  <2> QED BY <2>1, <2>2
<1> QED BY <1>1, ChainHolds, PTL
-----------------------------------------------------------------------------
(***************************************************************************)
(* The gate of the FIRE button.  radioLinkOK is what checkQualityRoutine   *)
(* last saw, so it lags behind the window: by one PING at most, since      *)
(* between two of them the quality is checked.                             *)
(***************************************************************************)
Gate == radioLinkOK =>
            \/ 9 * silence < 5 * S
            \/ /\ 9 * (silence - 1) < 5 * S
               /\ sincePing = 0 \/ (sincePing = 1 /\ checkDue)

\* The lag of the link's flag is an invariant.
LEMMA GateInductive == TypeInv /\ Gate /\ [Next]_vars => Gate'
<1> SUFFICES ASSUME TypeInv, Gate, [Next]_vars PROVE Gate'
  OBVIOUS
<1>a. silence \in 0 .. S /\ sincePing \in 0 .. 2 /\ S \in Nat \ {0}
  BY Typed DEF TransmitterTypeOK, LinkTypeOK, PingPeriod
<1>1. CASE pingRoutine
  <2>1. radioLinkOK' = radioLinkOK /\ sincePing = 2 /\ sincePing' = 0
    BY <1>1 DEF pingRoutine, PingPeriod
  <2>2. silence' = IF silence < S THEN silence + 1 ELSE S
    BY <1>1 DEF pingRoutine, pushPing
  <2>3. radioLinkOK => 9 * silence < 5 * S
    BY <2>1 DEF Gate
  <2>4. CASE radioLinkOK
    <3>1. 9 * (silence' - 1) < 5 * S
      BY <1>a, <2>2, <2>3, <2>4
    <3> QED BY <2>1, <3>1 DEF Gate
  <2> QED BY <2>1, <2>4 DEF Gate
<1>2. CASE checkQualityRoutine
  <2>1. radioLinkOK' = Above80(pushes) /\ silence' = silence
    BY <1>2 DEF checkQualityRoutine, linkVars
  <2>2. 9 * silence >= 5 * S => ~Above80(pushes)
    BY Typed, SilenceCounts DEF SilenceTakesDown
  <2>3. radioLinkOK' => 9 * silence' < 5 * S
    BY <1>a, <2>1, <2>2
  <2> QED BY <2>3 DEF Gate
<1>3. CASE UNCHANGED <<linkVars, radioLinkOK, sincePing, checkDue>>
  BY <1>3 DEF linkVars, Gate
<1>4. CASE Answered
  <2>1. UNCHANGED <<radioLinkOK, sincePing, checkDue>> /\ (silence' = 0 \/ silence' = silence)
    BY <1>4 DEF Answered, pushPong, linkVars
  <2>2. CASE silence' = 0
    <3>1. 9 * silence' < 5 * S
      BY <1>a, <2>2
    <3> QED BY <3>1 DEF Gate
  <2>3. CASE silence' = silence
    BY <2>1, <2>3 DEF Gate
  <2> QED BY <2>1, <2>2, <2>3
<1>5. CASE TransmitterRestart
  <2>1. ~radioLinkOK'
    BY <1>5 DEF TransmitterRestart
  <2> QED BY <2>1 DEF Gate
<1>6. CASE Elapse
  <2>1. /\ radioLinkOK' = radioLinkOK /\ silence' = silence /\ ~checkDue /\ checkDue'
        /\ sincePing < 2 /\ sincePing' = sincePing + 1
    BY <1>6 DEF Elapse, TransmitterElapse, linkVars, PingPeriod
  <2>2. sincePing = 0 => sincePing' = 1
    BY <2>1
  <2>3. sincePing = 0 \/ (sincePing = 1 /\ checkDue) => sincePing' = 1 /\ checkDue'
    BY <2>1, <2>2
  <2> QED BY <2>1, <2>3 DEF Gate
<1>7. CASE \E pressed \in BOOLEAN : Press(pressed)
  BY <1>3, <1>7 DEF Press, checkSwitchesRoutine
<1>8. CASE \E c \in Command : configRoutine(c)
  BY <1>3, <1>8 DEF configRoutine
<1>9. CASE Lose \/ (\E d \in Device : OfReceiver(d)) \/ UNCHANGED vars
  BY <1>3, <1>9 DEF Lose, OfReceiver, vars, transmitterVars
<1> QED BY <1>1, <1>2, <1>4, <1>5, <1>6, <1>7, <1>8, <1>9 DEF Next, OfTransmitter

\* The FIRE button of every fire chain is dead after a silence of five ninths of
\* the window and one PING more, whatever the window held before.
THEOREM LinkGateHolds == Spec => LinkGate
<1> DEFINE A == toReceiver' # toReceiver /\ (\E pressed \in BOOLEAN : Press(pressed))
                  => 9 * (silence - 1) < 5 * S
<1>1. Init => Gate
  <2>1. Init => ~radioLinkOK
    BY DEF Init, TransmitterInit
  <2> QED BY <2>1 DEF Gate
<1>2. TypeInv /\ Gate /\ [Next]_vars => [A]_vars
  <2> SUFFICES ASSUME TypeInv, Gate, NEW pressed \in BOOLEAN, Press(pressed), toReceiver' # toReceiver
               PROVE  9 * (silence - 1) < 5 * S
    OBVIOUS
  <2>1. radioLinkOK
    BY DEF Press, checkSwitchesRoutine, ButtonFires
  <2>2. silence \in 0 .. S /\ S \in Nat \ {0}
    BY Typed DEF TransmitterTypeOK, LinkTypeOK
  <2> QED BY <2>1, <2>2 DEF Gate
<1>3. LinkGate <=> [][A]_vars
  BY DEF LinkGate
<1> HIDE DEF A
<1> QED BY <1>1, <1>2, <1>3, TypesHold, GateInductive, PTL DEF Spec
-----------------------------------------------------------------------------
(***************************************************************************)
(* The FIRE light.  A report may wait at the transmitter for any time, but *)
(* what it says of a relay was true of a FIRE once, and history does not   *)
(* forget that there was one.                                              *)
(***************************************************************************)
ReportsKnown ==
    \A i \in 1 .. Len(toTransmitter) : \A k \in toTransmitter[i].active : Known(toTransmitter[i].id, k)

\* A relay that was fired at stays one.
LEMMA KnownStays ==
    ASSUME TypeInv, [Next]_vars
    PROVE  \A d \in Device : \A k \in Relay : Known(d, k) => Known(d, k)'
<1>a. ASSUME NEW n, NEW r, WriteFire(r, n)
      PROVE  \A d \in Device : \A k \in Relay : Known(d, k) => Known(d, k)'
  <2>1. \A d \in Device : \A k \in Relay : sinceFire'[d][k] \in {0, sinceFire[d][k]}
    BY <1>a DEF WriteFire
  <2>2. Never # 0
    BY TransmitterAssumption DEF Never
  <2> QED BY <2>1, <2>2 DEF Known, Never
<1>b. ASSUME UNCHANGED sinceFire
      PROVE  \A d \in Device : \A k \in Relay : Known(d, k) => Known(d, k)'
  BY <1>b DEF Known, Never
<1>1. CASE Elapse
  <2>1. ASSUME NEW d \in Device, NEW k \in Relay, Known(d, k)
        PROVE  sinceFire'[d][k] # Never
    <3>1. sinceFire'[d][k] = Older(sinceFire[d][k])
      BY <1>1 DEF Elapse, TransmitterElapse
    <3>2. sinceFire[d][k] \in 0 .. Never /\ sinceFire[d][k] # Never
      BY <2>1, Typed DEF Known
    <3> QED BY <3>1, <3>2, TransmitterAssumption DEF Older, Never
  <2> QED BY <2>1 DEF Known, Never
<1>2. CASE OfTransmitter
  <2>1. CASE pingRoutine
    BY <1>b, <2>1 DEF pingRoutine
  <2>2. CASE checkQualityRoutine
    BY <1>b, <2>2 DEF checkQualityRoutine
  <2>3. CASE \E pressed \in BOOLEAN : Press(pressed)
    BY <1>a, <1>b, <2>3 DEF Press, checkSwitchesRoutine
  <2>4. CASE \E c \in Command : configRoutine(c)
    BY <1>a, <1>b, <2>4 DEF configRoutine, TriggerFire, ToggleMechanical, SelectTarget, SetTargetId
  <2>5. CASE Answered
    BY <1>b, <2>5 DEF Answered
  <2>6. CASE TransmitterRestart
    BY <1>b, <2>6 DEF TransmitterRestart
  <2> QED BY <1>2, <2>1, <2>2, <2>3, <2>4, <2>5, <2>6 DEF OfTransmitter
<1>3. CASE Lose \/ (\E d \in Device : OfReceiver(d)) \/ UNCHANGED vars
  BY <1>b, <1>3 DEF Lose, OfReceiver, vars, transmitterVars
<1> QED BY <1>1, <1>2, <1>3 DEF Next

\* Reports stay true of the history: a new one tells what the dead man's switch
\* says of the relays that are on.
LEMMA ReportsKept == ChainInv /\ ReportsKnown /\ [Next]_vars => ReportsKnown'
<1> SUFFICES ASSUME ChainInv, ReportsKnown, [Next]_vars PROVE ReportsKnown'
  OBVIOUS
<1>a. /\ TypeInv /\ toTransmitter \in Seq(ToTransmitter)
      /\ \A i \in 1 .. Len(toTransmitter) :
            toTransmitter[i].id \in Device /\ toTransmitter[i].active \subseteq Relay
  <2>1. TypeInv /\ toTransmitter \in Seq(ToTransmitter)
    BY Typed DEF ChainInv, RadioTypeOK
  <2>2. \A i \in 1 .. Len(toTransmitter) : toTransmitter[i] \in ToTransmitter
    <3> HIDE DEF ToTransmitter
    <3> QED BY <2>1
  <2> QED BY <2>1, <2>2 DEF ToTransmitter
<1>b. \A d \in Device : \A k \in Relay : Known(d, k) => Known(d, k)'
  BY <1>a, KnownStays
<1>c. CASE \A i \in 1 .. Len(toTransmitter') :
              \E j \in 1 .. Len(toTransmitter) : toTransmitter'[i] = toTransmitter[j]
  <2> SUFFICES ASSUME NEW i \in 1 .. Len(toTransmitter'), NEW k \in toTransmitter'[i].active
               PROVE  Known(toTransmitter[i].id, k)'
    BY DEF ReportsKnown
  <2>1. PICK j \in 1 .. Len(toTransmitter) : toTransmitter'[i] = toTransmitter[j]
    BY <1>c
  <2>2. Known(toTransmitter[j].id, k)
    BY <2>1 DEF ReportsKnown
  <2> QED BY <1>a, <1>b, <2>1, <2>2 DEF Known
<1>d. CASE toTransmitter' = toTransmitter
  BY <1>c, <1>d
<1>e. CASE toTransmitter # << >> /\ toTransmitter' = Tail(toTransmitter)
  <2>1. \A i \in 1 .. Len(toTransmitter') :
           toTransmitter'[i] = toTransmitter[i + 1] /\ i + 1 \in 1 .. Len(toTransmitter)
    <3> HIDE DEF ToTransmitter
    <3> QED BY <1>a, <1>e, TailShape
  <2> QED BY <1>c, <2>1
<1>1. CASE \E d \in Device : OfReceiver(d)
  <2> PICK e \in Device : OfReceiver(e)
    BY <1>1
  <2> DEFINE p == RxPongOf(e, active[e])
             fs == <<p>>
  <2>1. ASSUME NEW f, AnswerPing(e, f)
        PROVE  ReportsKnown'
    <3>1. p.id = e /\ p.active = active[e] /\ p \in ToTransmitter
      BY <1>a, Typed DEF RxPongOf, ToTransmitter
    <3>2. \A k \in active[e] : k \in Relay /\ Known(e, k)
      BY <1>a, Typed DEF ChainInv, Relays, KnownOn
    <3>3. Append(toTransmitter, p) = toTransmitter \o fs /\ fs \in Seq(ToTransmitter)
          /\ Len(fs) = 1 /\ fs[1] = p
      <4> HIDE DEF p, ToTransmitter
      <4> QED BY <1>a, <3>1
    <3>4. toTransmitter' = Fitting(toTransmitter \o fs)
      BY <2>1, <3>3 DEF AnswerPing
    <3> HIDE DEF p, fs, ToTransmitter
    <3>5. \A i \in 1 .. Len(toTransmitter') :
             \/ i \in 1 .. Len(toTransmitter) /\ toTransmitter'[i] = toTransmitter[i]
             \/ \E j \in 1 .. Len(fs) : toTransmitter'[i] = fs[j]
      BY <1>a, <3>3, <3>4, FittingShape
    <3> SUFFICES ASSUME NEW i \in 1 .. Len(toTransmitter'), NEW k \in toTransmitter'[i].active
                 PROVE  Known(toTransmitter[i].id, k)'
      BY DEF ReportsKnown
    <3>6. CASE i \in 1 .. Len(toTransmitter) /\ toTransmitter'[i] = toTransmitter[i]
      <4>1. Known(toTransmitter[i].id, k)
        BY <3>6 DEF ReportsKnown
      <4> QED BY <1>a, <1>b, <3>6, <4>1 DEF Known
    <3>7. CASE toTransmitter'[i] = p
      BY <1>b, <3>1, <3>2, <3>7 DEF Known
    <3> QED BY <3>3, <3>5, <3>6, <3>7
  <2>2. ASSUME NEW f, Accept(e, f)
        PROVE  ReportsKnown'
    BY <1>d, <2>1, <2>2 DEF Accept, Fire, Ignore
  <2>3. CASE radioRxRoutine(e) \/ StrayEnd(e)
    BY <2>2, <2>3 DEF radioRxRoutine, StrayEnd
  <2>4. CASE triggerTickRoutine(e) \/ ReceiverRestart(e) \/ HoldBack(e)
    BY <1>d, <2>4 DEF triggerTickRoutine, ReceiverRestart, HoldBack, radioVars
  <2> QED BY <2>3, <2>4 DEF OfReceiver
<1>2. CASE Answered \/ Lose
  BY <1>d, <1>e, <1>2 DEF Answered, Lose, LoseToTransmitter, LoseToReceiver
<1>3. CASE TransmitterRestart
  <2>1. toTransmitter' = << >>
    BY <1>3 DEF TransmitterRestart
  <2> QED BY <2>1 DEF ReportsKnown
<1>4. CASE pingRoutine \/ checkQualityRoutine \/ Elapse \/ UNCHANGED vars
  BY <1>d, <1>4 DEF pingRoutine, checkQualityRoutine, radioVars, Elapse, RadioElapse, vars
<1>5. CASE \E pressed \in BOOLEAN : Press(pressed)
  BY <1>d, <1>5 DEF Press, checkSwitchesRoutine
<1>6. CASE \E c \in Command : configRoutine(c)
  BY <1>d, <1>6 DEF configRoutine
<1> QED BY <1>1, <1>2, <1>3, <1>4, <1>5, <1>6 DEF Next, OfTransmitter

\* The FIRE light of every fire chain goes on only for a target and relay that
\* the transmitter fired at some time, however late the report comes.
THEOREM LightHonest == Spec => LedNotInvented
<1> DEFINE A == ~fireLEDON /\ fireLEDON'
                  => Target \in Device /\ targetRelay \in Relay
                     /\ sinceFire[Target][targetRelay] # Never
<1>1. Init => ReportsKnown
  BY DEF Init, RadioInit, ReportsKnown
<1>2. TypeInv /\ ReportsKnown /\ [Next]_vars => [A]_vars
  <2> SUFFICES ASSUME TypeInv, ReportsKnown, [Next]_vars, ~fireLEDON, fireLEDON'
               PROVE  Target \in Device /\ targetRelay \in Relay
                      /\ sinceFire[Target][targetRelay] # Never
    OBVIOUS
  <2>1. Answered
    <3>1. fireLEDON' # fireLEDON
      OBVIOUS
    <3>2. ~(pingRoutine \/ checkQualityRoutine \/ TransmitterRestart)
      BY <3>1 DEF pingRoutine, checkQualityRoutine, TransmitterRestart
    <3>3. ~(\E pressed \in BOOLEAN : Press(pressed)) /\ ~(\E c \in Command : configRoutine(c))
      BY <3>1 DEF Press, checkSwitchesRoutine, configRoutine
    <3>4. ~(Lose \/ Elapse \/ (\E d \in Device : OfReceiver(d)) \/ UNCHANGED vars)
      BY <3>1 DEF Lose, Elapse, TransmitterElapse, OfReceiver, vars, transmitterVars
    <3> QED BY <3>2, <3>3, <3>4 DEF Next, OfTransmitter
  <2> DEFINE f == Head(toTransmitter)
  <2>2. IsTarget(f) /\ targetRelay \in f.active /\ toTransmitter # << >>
    BY <2>1 DEF Answered
  <2>3. f.id = Target
    BY <2>2 DEF IsTarget
  <2>4. f = toTransmitter[1] /\ 1 \in 1 .. Len(toTransmitter)
    <3>1. toTransmitter \in Seq(ToTransmitter)
      BY Typed DEF RadioTypeOK
    <3> HIDE DEF ToTransmitter
    <3> QED BY <2>2, <3>1, TailShape
  <2>5. f \in ToTransmitter
    <3>1. toTransmitter \in Seq(ToTransmitter)
      BY Typed DEF RadioTypeOK
    <3> HIDE DEF ToTransmitter
    <3> QED BY <2>2, <3>1, TailShape
  <2>6. Target \in Device /\ targetRelay \in Relay
    BY <2>2, <2>3, <2>5 DEF ToTransmitter
  <2> QED BY <2>2, <2>3, <2>4, <2>6 DEF ReportsKnown, Known
<1>3. LedNotInvented <=> [][A]_vars
  BY DEF LedNotInvented
<1> HIDE DEF A
<1> QED BY <1>1, <1>2, <1>3, TypesHold, ChainHolds, ReportsKept, PTL DEF Spec
=============================================================================
