----------------------------- MODULE ConfigTool -----------------------------
(***************************************************************************)
(* tools/boomconfig/mainwindow.cpp: what the configuration tool knows of   *)
(* the device at the other end of its serial port, and what it shows.  It  *)
(* asks for the settings once, when a PONG brings a new id.                *)
(***************************************************************************)
EXTENDS ConfigLine

CONSTANTS Typed,     \* what the user may type, by item
          PingFrames \* bound: a PING is written behind fewer frames than this

ASSUME ToolAssumption == /\ PingFrames \in Nat \ {0}
                         /\ DOMAIN Typed \subseteq Item
                         /\ \A i \in DOMAIN Typed : Typed[i] \subseteq Byte

VARIABLES isConnected, deviceId, shown, shownType

toolVars == <<isConnected, deviceId, shown, shownType>>

ToolInit ==
    /\ isConnected = FALSE
    /\ deviceId = Nothing
    /\ shown = [i \in Item |-> Nothing]
    /\ shownType = Nothing

serialPing ==
    /\ isConnected
    /\ Len(toDevice) < PingFrames
    /\ toDevice' = Append(toDevice, PingFor)
    /\ UNCHANGED <<toolVars, toTool>>

\* The settings that are asked for: a transmitter's slots too, last.
Request(i) == IF i \in Item THEN <<GetFor(i)>> ELSE << >>
Requests(t) ==
    Request("channel") \o Request("power")
    \o (IF t = "TRANSMITTER" THEN Request("target1") \o Request("target2") ELSE << >>)

\* Mutant: the values of the device before are not asked for again
NewIdOnce(f) == deviceId = Nothing

NewId(f) == f.id # deviceId

\* Requests that find no room on the line are lost.
ProcessPong(f) ==
    /\ f.op = "PONG"
    /\ shownType' = f.type
    /\ IF NewId(f)
       THEN /\ deviceId' = f.id
            /\ shown' = [shown EXCEPT !["id"] = f.id]
            /\ toDevice' = IF Room(toDevice, Len(Requests(f.type)))
                            THEN toDevice \o Requests(f.type)
                            ELSE toDevice
       ELSE UNCHANGED <<deviceId, shown, toDevice>>

\* Mutant: a field keeps what the user has typed
ProcessAckOnce(f) ==
    /\ f.op = "ACK"
    /\ shown' = [shown EXCEPT ![f.item] = IF @ = Nothing THEN f.value ELSE @]
    /\ UNCHANGED <<deviceId, shownType, toDevice>>

\* The id of the device that acknowledges is not looked at.
ProcessAck(f) ==
    /\ f.op = "ACK"
    /\ shown' = [shown EXCEPT ![f.item] = f.value]
    /\ UNCHANGED <<deviceId, shownType, toDevice>>

readData ==
    /\ isConnected
    /\ toTool # << >>
    /\ LET f == Head(toTool) IN ProcessPong(f) \/ ProcessAck(f)
    /\ toTool' = Tail(toTool)
    /\ UNCHANGED isConnected

\* The user types v and clicks: the field shows it, whatever becomes of it.
Update(i, v) ==
    /\ IF isConnected
       THEN Room(toDevice, 1) /\ toDevice' = Append(toDevice, SetFor(i, v))
       ELSE UNCHANGED toDevice
    /\ shown' = [shown EXCEPT ![i] = v]
    /\ UNCHANGED <<isConnected, deviceId, shownType, toTool>>

\* The port is opened; where that fails the tool is as Disconnect leaves it.
Connect ==
    /\ isConnected' = TRUE
    /\ UNCHANGED <<deviceId, shown, shownType, lineVars>>

\* What waited in the port is gone; what is shown stays.
Disconnect ==
    /\ isConnected' = FALSE
    /\ toTool' = << >>
    /\ UNCHANGED <<deviceId, shown, shownType, toDevice>>
-----------------------------------------------------------------------------
ToolTypeOK ==
    /\ isConnected \in BOOLEAN
    /\ deviceId \in Byte \cup {Nothing}
    /\ shown \in [Item -> Byte \cup {Nothing}]
    /\ shownType \in Type \cup {Nothing}
=============================================================================
