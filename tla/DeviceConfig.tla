---------------------------- MODULE DeviceConfig ----------------------------
(***************************************************************************)
(* configRoutine and setup of mcu/tx/tx.ino and mcu/rx/rx.ino, as far as   *)
(* they keep settings: each is in memory, in the EEPROM and, for a         *)
(* transmitter's radio, in the radio.  A handler is split into its writes, *)
(* for the power may fail between any two of them.  Nothing else runs in   *)
(* between.  A receiver is built without USE_HC12 and tells its radio      *)
(* nothing.                                                                *)
(***************************************************************************)
EXTENDS HC12

CONSTANTS EEPROMs,   \* what the EEPROM of a device may hold when it is plugged in
          Radios     \* what its radio may be set to

ASSUME DeviceAssumption == /\ EEPROMs \subseteq [Item -> Byte]
                           /\ Radios \subseteq [RadioItem -> Byte]

VARIABLES deviceType, stored, memory,
          handled,   \* the item of the SET being handled, or Nothing
          todo,      \* what its handler has still to do, "store" before "answer"
          untold,    \* the settings that its radio has still to be told
          said       \* history: the answer that the last step has written, or Nothing

deviceVars == <<deviceType, stored, memory, handled, todo, untold, hc12Vars>>

Sanitize(i, v) ==
    CASE i = "channel" -> IF v \in 1 .. 127 THEN v ELSE 1
      [] i = "power"   -> IF v \in 1 .. 8 THEN v ELSE 8
      [] OTHER         -> v

Durable == [i \in Item |-> Sanitize(i, stored[i])]

\* The settings that a device of type t tells its radio.
Told(t) == IF t = "TRANSMITTER" THEN RadioItem ELSE {}

Silent == said' = Nothing

\* setup() of a device of type t with EEPROM e: the settings are read, and the
\* radio's told to it.
Setup(t, e) ==
    /\ deviceType' = t /\ stored' = e
    /\ memory' = [i \in Item |-> Sanitize(i, e[i])]
    /\ handled' = Nothing /\ todo' = {}
    /\ untold' = Told(t)
    /\ setMode' = FALSE /\ telling' = Nothing
    /\ Silent

DeviceInit ==
    /\ deviceType \in Type
    /\ stored \in EEPROMs
    /\ memory = Durable
    /\ handled = Nothing /\ todo = {}
    /\ untold = Told(deviceType)
    /\ setMode = FALSE /\ telling = Nothing
    /\ radio \in Radios
    /\ said = Nothing

Idle == todo = {} /\ untold = {} /\ telling = Nothing

\* Serial.write waits while the host does not read, and writes into the void when
\* it has not opened the port.
Write(open, f) ==
    IF open THEN Room(toTool, 1) /\ toTool' = Append(toTool, f) ELSE UNCHANGED toTool

AnswerPing(open, f) ==
    /\ f.op = "PING"
    /\ Write(open, PongOf(memory["id"], deviceType))
    /\ Silent
    /\ UNCHANGED deviceVars

\* A receiver knows no slots, and nobody asks for the id.
Knows(i) == i \in RadioItem \/ (i \in SlotItem /\ deviceType = "TRANSMITTER")

AnswerGet(open, f) ==
    /\ f.op = "GET" /\ Knows(f.item)
    /\ Write(open, AckOf(f.item, memory[f.item]))
    /\ said' = AckOf(f.item, memory[f.item])
    /\ UNCHANGED <<deviceType, stored, memory, handled, todo, untold, hc12Vars>>

BeginSet(f) ==
    /\ f.op = "SET" /\ (f.item = "id" \/ Knows(f.item))
    /\ memory' = [memory EXCEPT ![f.item] = Sanitize(f.item, f.value)]
    /\ handled' = f.item
    /\ todo' = IF f.item = "id" THEN {"store"} ELSE {"store", "answer"}
    /\ Silent
    /\ UNCHANGED <<deviceType, stored, untold, toTool, hc12Vars>>

Ignore(f) ==
    /\ f.op # "PING" /\ ~Knows(f.item) /\ ~(f.op = "SET" /\ f.item = "id")
    /\ Silent
    /\ UNCHANGED <<deviceVars, toTool>>

configRoutine(open) ==
    /\ Idle
    /\ toDevice # << >>
    /\ LET f == Head(toDevice)
       IN  AnswerPing(open, f) \/ AnswerGet(open, f) \/ BeginSet(f) \/ Ignore(f)
    /\ toDevice' = Tail(toDevice)

\* Mutant: the radio is told of whatever was set
DoneTellAll(step) ==
    /\ todo' = todo \ {step}
    /\ IF todo = {step}
       THEN handled' = Nothing /\ untold' = {handled}
       ELSE UNCHANGED <<handled, untold>>

\* The handler's next write: what follows "store" and "answer" is the radio's.
Done(step) ==
    /\ todo' = todo \ {step}
    /\ IF todo = {step}
       THEN handled' = Nothing /\ untold' = Told(deviceType) \cap {handled}
       ELSE UNCHANGED <<handled, untold>>

Store ==
    /\ "store" \in todo
    /\ stored' = [stored EXCEPT ![handled] = memory[handled]]
    /\ Done("store")
    /\ Silent
    /\ UNCHANGED <<deviceType, memory, hc12Vars, lineVars>>

\* Mutant: the answer comes before the EEPROM is written
AnswerFirst(open) ==
    /\ "answer" \in todo
    /\ Write(open, AckOf(handled, memory[handled]))
    /\ said' = AckOf(handled, memory[handled])
    /\ Done("answer")
    /\ UNCHANGED <<deviceType, stored, memory, hc12Vars, toDevice>>

Answer(open) ==
    /\ todo = {"answer"}
    /\ Write(open, AckOf(handled, memory[handled]))
    /\ said' = AckOf(handled, memory[handled])
    /\ Done("answer")
    /\ UNCHANGED <<deviceType, stored, memory, hc12Vars, toDevice>>

\* setup tells the channel first.
FirstOf(s) == IF "channel" \in s THEN "channel" ELSE "power"

EnterSetMode ==
    /\ untold # {}
    /\ Enter(FirstOf(untold))
    /\ Silent
    /\ UNCHANGED <<deviceType, stored, memory, handled, todo, untold, lineVars>>

TellRadio ==
    /\ telling \in untold
    /\ Tell(memory[telling])
    /\ untold' = untold \ {telling}
    /\ Silent
    /\ UNCHANGED <<deviceType, stored, memory, handled, todo, lineVars>>

LeaveSetMode ==
    /\ telling # Nothing /\ telling \notin untold
    /\ Leave
    /\ Silent
    /\ UNCHANGED <<deviceType, stored, memory, handled, todo, untold, lineVars>>

DeviceStep(open) ==
    \/ configRoutine(open)
    \/ Store \/ Answer(open)
    \/ EnterSetMode \/ TellRadio \/ LeaveSetMode

\* The power fails and comes back.
PowerCut ==
    /\ Setup(deviceType, stored)
    /\ toDevice' = << >>
    /\ UNCHANGED <<radio, toTool>>

\* Another device is plugged in.
Plug ==
    /\ \E t \in Type, e \in EEPROMs : Setup(t, e)
    /\ radio' \in Radios
    /\ toDevice' = << >> /\ UNCHANGED toTool
-----------------------------------------------------------------------------
DeviceTypeOK ==
    /\ deviceType \in Type
    /\ stored \in [Item -> Byte]
    /\ memory \in [Item -> Byte]
    /\ handled \in Item \cup {Nothing}
    /\ todo \subseteq {"store", "answer"}
    /\ untold \subseteq RadioItem
    /\ said \in [op : {"ACK"}, item : Item \ {"id"}, value : Byte] \cup {Nothing}
    /\ setMode \in BOOLEAN
    /\ telling \in RadioItem \cup {Nothing}
    /\ radio \in [RadioItem -> Byte]
=============================================================================
