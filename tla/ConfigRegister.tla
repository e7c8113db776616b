--------------------------- MODULE ConfigRegister ---------------------------
(***************************************************************************)
(* What a device promises about its settings: each is a register that      *)
(* holds its value without power, a SET either writes a legal value or     *)
(* does nothing, and every answer tells the value that is kept.            *)
(***************************************************************************)
CONSTANTS Item, Legal, Nothing

VARIABLES value, said      \* the answer that the last step has given, or Nothing

Init ==
    /\ value \in [Item -> UNION {Legal[i] : i \in Item}]
    /\ \A i \in Item : value[i] \in Legal[i]
    /\ said = Nothing

Write(i) ==
    /\ value'[i] \in Legal[i]
    /\ value' = [value EXCEPT ![i] = value'[i]]
    /\ said' = Nothing

Answer(i) ==
    /\ said' = [op |-> "ACK", item |-> i, value |-> value[i]]
    /\ UNCHANGED value

Hush == said' = Nothing /\ UNCHANGED value

Next == (\E i \in Item : Write(i) \/ Answer(i)) \/ Hush
=============================================================================
