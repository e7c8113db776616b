---------------------------- MODULE BoundedDeque ----------------------------
(***************************************************************************)
(* What a CircularBuffer promises its user, LinkQuality: a double-ended    *)
(* queue of at most S values that makes room at the far end.               *)
(***************************************************************************)
EXTENDS Integers, Sequences

CONSTANTS Value, S

VARIABLES items,     \* the values, first to last
          added,     \* what the last push or unshift returned: nothing was lost
          got        \* what the last shift, pop, first, last or [] returned

vars == <<items, added, got>>

Init == items = << >> /\ added = TRUE /\ got \in Value

Push(v) ==
    /\ added' = (Len(items) < S)
    /\ items' = Append(IF Len(items) < S THEN items ELSE Tail(items), v)
    /\ UNCHANGED got

Unshift(v) ==
    /\ added' = (Len(items) < S)
    /\ items' = [i \in 1 .. (IF Len(items) < S THEN Len(items) + 1 ELSE S) |->
                    IF i = 1 THEN v ELSE items[i - 1]]
    /\ UNCHANGED got

Shift ==
    /\ items # << >>
    /\ got' = items[1]
    /\ items' = Tail(items)
    /\ UNCHANGED added

Pop ==
    /\ items # << >>
    /\ got' = items[Len(items)]
    /\ items' = [i \in 1 .. Len(items) - 1 |-> items[i]]
    /\ UNCHANGED added

\* first is At(1), last is At(Len(items))
At(i) ==
    /\ got' = items[i]
    /\ UNCHANGED <<items, added>>

Clear == items' = << >> /\ UNCHANGED <<added, got>>

Next == \/ \E v \in Value : Push(v) \/ Unshift(v)
        \/ Shift
        \/ Pop
        \/ \E i \in 1 .. Len(items) : At(i)
        \/ Clear

Spec == Init /\ [][Next]_vars
=============================================================================
