----------------------------- MODULE MCBoomRTX -----------------------------
(***************************************************************************)
(* Small fire chains.  MCCommands are commands of the configuration tool,  *)
(* with a slot and a toggle value that do not exist and a FIRE of no time. *)
(* Slot s holds the id s + 1: where there is one device and two slots, the *)
(* second slot names nobody until the tool gives it the device's id.       *)
(***************************************************************************)
EXTENDS BoomRTX

OneEach == [s \in Slot |-> s + 1]

MCCommands ==
    {[op |-> "TRIGGER_FIRE", relay |-> 0, duration |-> n] : n \in {0, 1}}
    \cup {[op |-> "TOGGLE", value |-> v] : v \in {0, 1, 2}}
    \cup {[op |-> "SELECT", slot |-> s] : s \in {1, 9}}
    \cup {[op |-> "SET_TARGET_ID", slot |-> s, id |-> 1] : s \in {1, 9}}
=============================================================================
