-------------------------- MODULE MCConfigSession --------------------------
(***************************************************************************)
(* Two devices to plug in.  The channel of one was never written, and its   *)
(* EEPROM holds 255 there; the user asks for a channel that is out of       *)
(* range, for an id that is the other device's, and for a target.           *)
(***************************************************************************)
EXTENDS ConfigSession

MCEEPROMs == {[i \in Item |-> CASE i = "id" -> 1 [] i = "channel" -> 255 [] OTHER -> 2],
              [i \in Item |-> IF i = "id" THEN 2 ELSE 5]}
MCRadios  == {[i \in RadioItem |-> 7]}
MCTyped   == [i \in Item |-> IF i = "channel" THEN {0} ELSE {2}]
=============================================================================
