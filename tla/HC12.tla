-------------------------------- MODULE HC12 --------------------------------
(***************************************************************************)
(* mcu/common/HC12/HC12.h: the driver of a transmitter's radio, which      *)
(* listens to AT commands while its SET pin is low.  A call of setChannel  *)
(* or setPowerLevel blocks the program for three steps, over a second in   *)
(* all.  The radio keeps its settings without power, and obeys a command:  *)
(* the driver throws its answer away unread.                               *)
(***************************************************************************)
EXTENDS ConfigLine

VARIABLES setMode,   \* _setMode, and with it the SET pin
          telling,   \* the setting whose call is in progress, or Nothing
          radio      \* what the radio uses, by setting

hc12Vars == <<setMode, telling, radio>>

Enter(i) == telling = Nothing /\ telling' = i /\ setMode' = TRUE /\ UNCHANGED radio

\* Deaf unless in set mode: then the command would go to the air.
Tell(v) ==
    /\ radio' = [radio EXCEPT ![telling] = IF setMode THEN v ELSE @]
    /\ UNCHANGED <<setMode, telling>>

\* Mutant: the call returns before it has left set mode, as getChannel does
LeaveNot == telling' = Nothing /\ UNCHANGED <<setMode, radio>>

Leave == telling' = Nothing /\ setMode' = FALSE /\ UNCHANGED radio
=============================================================================
