----------------------------- MODULE ConfigLine -----------------------------
(***************************************************************************)
(* The serial (USB) line between the configuration tool and the device it  *)
(* is plugged into, frame by frame, and the settings they talk about.  A   *)
(* frame that is hit on the way is lost, and nobody is told.               *)
(***************************************************************************)
EXTENDS Naturals, Sequences

CONSTANTS Item,      \* "id", settings of the radio, and slots of a transmitter
          Nothing,   \* no item, no id, no value
          LineFrames \* bound: how many frames wait in each direction

Byte == 0 .. 255

RadioItem == Item \cap {"channel", "power"}
SlotItem  == Item \ {"id", "channel", "power"}

\* The settings of the firmware: a transmitter has two slots (NUM_TARGET_DEVICES).
Setting == {"id", "channel", "power", "target1", "target2"}

ASSUME LineAssumption == /\ "id" \in Item /\ Item \subseteq Setting
                         /\ Nothing \notin Item /\ Nothing \notin Byte
                         /\ LineFrames \in Nat \ {0}

VARIABLES toDevice, toTool

lineVars == <<toDevice, toTool>>

PingFor         == [op |-> "PING"]
GetFor(i)       == [op |-> "GET", item |-> i]
SetFor(i, v)    == [op |-> "SET", item |-> i, value |-> v]
PongOf(id, t)   == [op |-> "PONG", id |-> id, type |-> t]
AckOf(i, v)     == [op |-> "ACK", item |-> i, value |-> v]

LineInit == toDevice = << >> /\ toTool = << >>

Room(q, n) == Len(q) + n <= LineFrames

LoseToDevice == toDevice # << >> /\ toDevice' = Tail(toDevice) /\ UNCHANGED toTool
LoseToTool   == toTool # << >> /\ toTool' = Tail(toTool) /\ UNCHANGED toDevice
-----------------------------------------------------------------------------
Type == {"TRANSMITTER", "RECEIVER"}

ToDevice == [op : {"PING"}] \cup [op : {"GET"}, item : Item]
            \cup [op : {"SET"}, item : Item, value : Byte]

ToTool == [op : {"PONG"}, id : Byte, type : Type]
          \cup [op : {"ACK"}, item : Item \ {"id"}, value : Byte]

LineTypeOK == toDevice \in Seq(ToDevice) /\ toTool \in Seq(ToTool)
=============================================================================
