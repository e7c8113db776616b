---------------------------- MODULE Transmitter ----------------------------
(***************************************************************************)
(* mcu/tx/tx.ino: the transmitter.  An action is one run of a coroutine    *)
(* between two yields, for one frame where the coroutine loops over all    *)
(* that are available.  The time unit is checkQualityRoutine's delay, half *)
(* of pingRoutine's.  Pins that the firmware only writes when a flag       *)
(* changes are that flag.  A target slot keeps its id over a restart: it   *)
(* is in the EEPROM before the handler that sets it ends.                  *)
(***************************************************************************)
EXTENDS Radio, LinkQuality

CONSTANTS NUM_TARGET_DEVICES, \* how many slots for a target's id
          StoredIds,         \* their ids in the EEPROM when the system starts
          TRIGGER_DURATION,  \* of the FIRE button, in time units
          Command,           \* frames that come in by the config interface
          Forgotten          \* time units after which a FIRE is history

Slot == 0 .. NUM_TARGET_DEVICES - 1

\* Ids and relays are bytes of a frame, whatever they name.
ASSUME TransmitterAssumption ==
    /\ NUM_TARGET_DEVICES \in Byte \ {0}
    /\ StoredIds \in [Slot -> Byte]
    /\ TRIGGER_DURATION \in 0 .. MaxDuration
    /\ Forgotten \in Nat \ {0}
    /\ \A c \in Command :
          /\ c.op = "TRIGGER_FIRE" => c.relay \in Byte /\ c.duration \in 0 .. MaxDuration
          /\ c.op = "SET_TARGET_ID" => c.id \in Byte

VARIABLES targetDeviceIds, targetDeviceSlot, targetRelay,
          useMechanicalTargetSelection,
          radioLinkOK, fireLEDON,
          sincePing,         \* time units since pingRoutine ran
          checkDue,          \* checkQualityRoutine's delay is over
          sinceFire          \* history: time units since a FIRE for each device
                             \* and relay was written; Never before the first

selectionVars == <<targetDeviceIds, targetDeviceSlot, targetRelay, useMechanicalTargetSelection>>
transmitterVars ==
    <<linkVars, selectionVars, radioLinkOK, fireLEDON, sincePing, checkDue, sinceFire>>

PingPeriod == 2                    \* 100 ms

Never == Forgotten + 1

Target == targetDeviceIds[targetDeviceSlot]

TransmitterInit ==
    /\ LinkInit
    /\ targetDeviceIds = StoredIds
    /\ targetDeviceSlot = 0 /\ targetRelay = 0
    /\ useMechanicalTargetSelection = TRUE
    /\ radioLinkOK = FALSE /\ fireLEDON = FALSE
    /\ sincePing = PingPeriod /\ checkDue = TRUE
    /\ sinceFire = [d \in Device |-> [k \in Relay |-> Never]]

pingRoutine ==
    /\ sincePing = PingPeriod
    /\ Broadcast(<<PingFor(Target)>>)
    /\ pushPing
    /\ sincePing' = 0
    /\ UNCHANGED <<selectionVars, radioLinkOK, fireLEDON, checkDue, sinceFire, toTransmitter>>

checkQualityRoutine ==
    /\ checkDue
    /\ radioLinkOK' = Above80(pushes)
    /\ checkDue' = FALSE
    /\ UNCHANGED <<linkVars, selectionVars, fireLEDON, sincePing, sinceFire, radioVars>>

\* A FIRE frame for relay k of the target is written.
WriteFire(k, n) ==
    /\ Broadcast(<<FireFor(Target, k, n)>>)
    /\ sinceFire' = [d \in Device |-> [r \in Relay |->
                        IF d = Target /\ r = k THEN 0 ELSE sinceFire[d][r]]]

\* Mutant: the button fires whatever the state of the link
ButtonFiresAlways(pressed) == pressed

ButtonFires(pressed) == pressed /\ radioLinkOK

\* One scan of the three switches.  The FIRE goes to the target and relay of the
\* scan before; only then are the selectors read.
checkSwitchesRoutine(pressed, slot, relay) ==
    /\ IF ButtonFires(pressed)
       THEN WriteFire(targetRelay, TRIGGER_DURATION)
       ELSE UNCHANGED <<toReceiver, sinceFire>>
    /\ IF useMechanicalTargetSelection
       THEN targetDeviceSlot' = slot /\ targetRelay' = relay
       ELSE UNCHANGED <<targetDeviceSlot, targetRelay>>
    /\ UNCHANGED <<linkVars, targetDeviceIds, useMechanicalTargetSelection, radioLinkOK,
                   fireLEDON, sincePing, checkDue, toTransmitter>>

\* configRoutine, OP_TRIGGER_FIRE: the relay index is not checked, and neither
\* is the link.
TriggerFire(c) ==
    /\ c.op = "TRIGGER_FIRE"
    /\ WriteFire(c.relay, c.duration)
    /\ targetRelay' = IF useMechanicalTargetSelection THEN targetRelay ELSE c.relay
    /\ UNCHANGED <<targetDeviceIds, targetDeviceSlot, useMechanicalTargetSelection>>

\* OP_TX_TOGGLE_MECHANICAL_TARGET_SELECTION: values other than 0 and 1 do nothing.
ToggleMechanical(c) ==
    /\ c.op = "TOGGLE"
    /\ useMechanicalTargetSelection' =
           IF c.value \in {0, 1} THEN c.value = 1 ELSE useMechanicalTargetSelection
    /\ UNCHANGED <<targetDeviceIds, targetDeviceSlot, targetRelay, toReceiver, sinceFire>>

\* OP_TX_SELECT_TARGET
SelectTarget(c) ==
    /\ c.op = "SELECT"
    /\ targetDeviceSlot' = IF c.slot \in Slot THEN c.slot ELSE targetDeviceSlot
    /\ UNCHANGED <<targetDeviceIds, targetRelay, useMechanicalTargetSelection,
                   toReceiver, sinceFire>>

\* OP_SET_TARGET_ID
SetTargetId(c) ==
    /\ c.op = "SET_TARGET_ID"
    /\ targetDeviceIds' = [s \in Slot |-> IF s = c.slot THEN c.id ELSE targetDeviceIds[s]]
    /\ UNCHANGED <<targetDeviceSlot, targetRelay, useMechanicalTargetSelection,
                   toReceiver, sinceFire>>

\* The commands that bear on who is fired at.  The acknowledgements they write to
\* the host are read by nobody in this model.
configRoutine(c) ==
    /\ TriggerFire(c) \/ ToggleMechanical(c) \/ SelectTarget(c) \/ SetTargetId(c)
    /\ UNCHANGED <<linkVars, radioLinkOK, fireLEDON, sincePing, checkDue, toTransmitter>>

\* Mutant: a PONG of any device counts
IsTargetAnyone(f) == f.op = "RX_PONG"

IsTarget(f) == f.op = "RX_PONG" /\ f.id = Target

\* radioRxRoutine for one frame.  The state of every relay, the selected one's as
\* reported and the others' as off, is written back to the radio.
Answered ==
    /\ toTransmitter # << >>
    /\ toTransmitter' = Tail(toTransmitter)
    /\ LET f == Head(toTransmitter)
           on == targetRelay \in f.active
       IN  IF IsTarget(f)
           THEN /\ pushPong
                /\ Broadcast([i \in 1 .. NUM_RELAYS |->
                                 FireAckOf(f.id, i - 1, i - 1 = targetRelay /\ on)])
                /\ fireLEDON' = on
           ELSE UNCHANGED <<linkVars, toReceiver, fireLEDON>>
    /\ UNCHANGED <<selectionVars, radioLinkOK, sincePing, checkDue, sinceFire>>

\* The power fails and comes back: all but the slots' ids is lost.
TransmitterRestart ==
    /\ pushes' = << >> /\ silence' = 0
    /\ targetDeviceSlot' = 0 /\ targetRelay' = 0
    /\ useMechanicalTargetSelection' = TRUE
    /\ radioLinkOK' = FALSE /\ fireLEDON' = FALSE
    /\ sincePing' = PingPeriod /\ checkDue' = TRUE
    /\ toTransmitter' = << >>
    /\ UNCHANGED <<targetDeviceIds, sinceFire, toReceiver>>

Older(n) == IF n < Forgotten THEN n + 1 ELSE n

\* A time unit passes: the scheduler has run every coroutine that was due.
TransmitterElapse ==
    /\ sincePing < PingPeriod /\ ~checkDue
    /\ sincePing' = sincePing + 1
    /\ checkDue' = TRUE
    /\ sinceFire' = [d \in Device |-> [k \in Relay |-> Older(sinceFire[d][k])]]
    /\ UNCHANGED <<linkVars, selectionVars, radioLinkOK, fireLEDON>>
-----------------------------------------------------------------------------
TransmitterTypeOK ==
    /\ LinkTypeOK
    /\ targetDeviceIds \in [Slot -> Byte]
    /\ targetDeviceSlot \in Slot
    /\ targetRelay \in Byte
    /\ useMechanicalTargetSelection \in BOOLEAN
    /\ radioLinkOK \in BOOLEAN /\ fireLEDON \in BOOLEAN
    /\ sincePing \in 0 .. PingPeriod
    /\ checkDue \in BOOLEAN
    /\ sinceFire \in [Device -> [Relay -> 0 .. Never]]
=============================================================================
