--------------------------- MODULE ConfigSession ---------------------------
(***************************************************************************)
(* A configuration tool and the devices that are plugged in one after the  *)
(* other.  Frames may be lost, the device's power may fail at any step,    *)
(* and the user may connect, disconnect, change devices and type at any    *)
(* time; devices are changed only while the port is closed.                *)
(***************************************************************************)
EXTENDS DeviceConfig, ConfigTool

VARIABLE spoiled   \* history: since the settings were last asked for, something
                   \* happened that the tool cannot know of

vars == <<deviceVars, said, toolVars, lineVars, spoiled>>

Init == LineInit /\ DeviceInit /\ ToolInit /\ spoiled = FALSE

\* A frame that somebody waits for
Matters(f) == f.op \notin {"PING", "PONG"}
Waited(q) == \E n \in 1 .. Len(q) : Matters(q[n])

Spoil(b) == spoiled' = (spoiled \/ b)

\* A SET's answer that nobody can hear spoils what is shown.
OfDevice ==
    /\ DeviceStep(isConnected)
    /\ Spoil(~isConnected /\ (todo = {"answer"} \/ (Idle /\ Matters(Head(toDevice)))))
    /\ UNCHANGED toolVars

Ping == serialPing /\ Silent /\ UNCHANGED <<deviceVars, spoiled>>

Read ==
    /\ readData
    /\ LET f == Head(toTool)
       IN  spoiled' = IF f.op = "PONG" /\ NewId(f) THEN ~Room(toDevice, Len(Requests(f.type)))
                      ELSE spoiled
    /\ Silent
    /\ UNCHANGED deviceVars

TypeValue(i) == \E v \in Typed[i] : Update(i, v)

User ==
    /\ \/ \E i \in DOMAIN Typed : TypeValue(i) /\ Spoil(~isConnected \/ ~(i = "id" \/ Knows(i)))
       \/ Connect /\ Spoil(FALSE)
       \/ Disconnect /\ Spoil(Waited(toTool))
    /\ Silent
    /\ UNCHANGED deviceVars

Lose ==
    /\ \/ LoseToDevice /\ Spoil(Matters(Head(toDevice)))
       \/ LoseToTool /\ Spoil(Matters(Head(toTool)))
    /\ Silent
    /\ UNCHANGED <<deviceVars, toolVars>>

Fail ==
    /\ PowerCut
    /\ Spoil(todo # {} \/ Waited(toDevice))
    /\ UNCHANGED toolVars

Change ==
    /\ ~isConnected
    /\ Plug
    /\ spoiled' = TRUE
    /\ UNCHANGED toolVars

Next == OfDevice \/ Ping \/ Read \/ User \/ Lose \/ Fail \/ Change

Spec == Init /\ [][Next]_vars

\* The firmware's loop runs, and Qt's event loop delivers timers and data.
Fairness == WF_vars(OfDevice) /\ WF_vars(Ping) /\ WF_vars(Read)

FairSpec == Spec /\ Fairness
-----------------------------------------------------------------------------
TypeOK == LineTypeOK /\ DeviceTypeOK /\ ToolTypeOK /\ spoiled \in BOOLEAN

\* A transmitter that is through with a handler or with setup uses the radio
\* settings it has in memory, keeps them in the EEPROM, and listens to the air,
\* wherever its power failed before.
RadioFollows ==
    deviceType = "TRANSMITTER" /\ Idle =>
        /\ ~setMode
        /\ \A i \in RadioItem : radio[i] = memory[i] /\ memory[i] = Durable[i]

\* The settings of a device are registers that keep their value, and no answer
\* tells of a value that a power cut could still undo.
Register == INSTANCE ConfigRegister
    WITH value <- Durable, Legal <- [i \in Item |-> {v \in Byte : Sanitize(i, v) = v}]

RegisterSpec == Register!Init /\ [][Register!Next \/ Change]_<<Durable, said>>

\* Once the frames on the way have arrived, the tool shows what the device has in
\* memory, provided that nothing was lost behind its back.
Quiet == todo = {} /\ ~Waited(toDevice) /\ ~Waited(toTool)

Shows(i) == shown[i] = memory[i]

ScreenTrue ==
    ~spoiled /\ Quiet /\ deviceId = memory["id"] =>
        /\ shownType = deviceType
        /\ \A i \in Item : i = "id" \/ Knows(i) => Shows(i)

\* A step that disturbs nothing.
Calm == isConnected /\ (OfDevice \/ Ping \/ Read)

\* A tool that stays connected learns who is there, whatever it took for its
\* device before, and then shows that device's settings unless a frame is lost.
Settles ==
    <>[]isConnected /\ <>[][Calm]_vars
        => <>[](deviceId = memory["id"] /\ (spoiled \/ \A i \in Item : Knows(i) => Shows(i)))

\* docs/frame.md says of a channel's acknowledgement: "that we succesfully changed
\* our radio channel".  So a device whose last word is the acknowledgement of a radio
\* setting, and that has nothing left to do, uses that setting.
AckTrue ==
    ~spoiled /\ Idle /\ toTool # << >> =>
        LET f == toTool[Len(toTool)]
        IN  f.op = "ACK" /\ f.item \in RadioItem => radio[f.item] = f.value
=============================================================================
