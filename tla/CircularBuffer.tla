--------------------------- MODULE CircularBuffer ---------------------------
(***************************************************************************)
(* common/circularbuffer__.h: the ring of S elements behind LinkQuality.   *)
(* head and tail are pointers into the array, here their distance from     *)
(* its beginning; count tells an empty ring from a full one.  The values   *)
(* an array starts with are whatever the memory held.  shift and pop abort *)
(* the program on an empty ring, and first, last and [] read a stale       *)
(* element there: those calls are the guards.                              *)
(***************************************************************************)
EXTENDS Integers, Sequences

CONSTANTS Value, S

ASSUME CapacityAssumption == S \in Nat \ {0}
ASSUME ValueAssumption == Value # {}

VARIABLES buffer, head, tail, count,
          added, got            \* the values returned, as in BoundedDeque

vars == <<buffer, head, tail, count, added, got>>

Init ==
    /\ buffer \in [0 .. S - 1 -> Value]
    /\ head = 0 /\ tail = 0 /\ count = 0
    /\ added = TRUE /\ got \in Value

\* Mutant: the wrap test of ++p one element too late
AfterLate(p) == IF p = S THEN 0 ELSE p + 1

\* Mutant: --p stays at the first element
BeforeStuck(p) == IF p = 0 THEN 0 ELSE p - 1

\* The neighbours of a pointer in the ring.
After(p)  == IF p + 1 = S THEN 0 ELSE p + 1
Before(p) == IF p = 0 THEN S - 1 ELSE p - 1

Unshift(v) ==
    /\ head' = Before(head)
    /\ buffer' = [buffer EXCEPT ![head'] = v]
    /\ IF count = S
       THEN /\ tail' = Before(tail)
            /\ added' = FALSE
            /\ UNCHANGED count
       ELSE /\ tail' = IF count = 0 THEN head' ELSE tail
            /\ added' = TRUE
            /\ count' = count + 1
    /\ UNCHANGED got

Push(v) ==
    /\ tail' = After(tail)
    /\ buffer' = [buffer EXCEPT ![tail'] = v]
    /\ IF count = S
       THEN /\ head' = After(head)
            /\ added' = FALSE
            /\ UNCHANGED count
       ELSE /\ head' = IF count = 0 THEN tail' ELSE head
            /\ added' = TRUE
            /\ count' = count + 1
    /\ UNCHANGED got

\* Mutant: the element is read after the pointer moved
ShiftReadsLate ==
    /\ count > 0
    /\ got' = buffer[After(head)]
    /\ head' = After(head)
    /\ count' = count - 1
    /\ UNCHANGED <<buffer, tail, added>>

Shift ==
    /\ count > 0
    /\ got' = buffer[head]
    /\ head' = IF head + 1 >= S THEN 0 ELSE head + 1
    /\ count' = count - 1
    /\ UNCHANGED <<buffer, tail, added>>

Pop ==
    /\ count > 0
    /\ got' = buffer[tail]
    /\ tail' = IF tail - 1 < 0 THEN S - 1 ELSE tail - 1
    /\ count' = count - 1
    /\ UNCHANGED <<buffer, head, added>>

First == count > 0 /\ got' = buffer[head] /\ UNCHANGED <<buffer, head, tail, count, added>>

Last == count > 0 /\ got' = buffer[tail] /\ UNCHANGED <<buffer, head, tail, count, added>>

\* operator[]
Index(i) ==
    /\ i < count
    /\ got' = buffer[(head + i) % S]
    /\ UNCHANGED <<buffer, head, tail, count, added>>

Clear ==
    /\ head' = 0 /\ tail' = 0 /\ count' = 0
    /\ UNCHANGED <<buffer, added, got>>

Next == \/ \E v \in Value : Unshift(v) \/ Push(v)
        \/ Shift
        \/ Pop
        \/ First
        \/ Last
        \/ \E i \in 0 .. S - 1 : Index(i)
        \/ Clear

Spec == Init /\ [][Next]_vars

isEmpty == count = 0
-----------------------------------------------------------------------------
\* Both pointers stay inside the array and the count inside the capacity.
TypeOK ==
    /\ buffer \in [0 .. S - 1 -> Value]
    /\ head \in 0 .. S - 1
    /\ tail \in 0 .. S - 1
    /\ count \in 0 .. S
    /\ added \in BOOLEAN
    /\ got \in Value

\* head, tail and count describe one stretch of the ring, wrapped or not: the
\* two pointers, each moved by other operations than the other, never disagree
\* about how many elements lie between them.
PointersAgree == ~isEmpty => tail = (head + count - 1) % S

\* The ring implements the bounded deque: it keeps the last S values pushed, in
\* order, across every wrap-around and every mix of operations at both ends.
items == [i \in 1 .. count |-> buffer[(head + (i - 1)) % S]]

Deque == INSTANCE BoundedDeque

DequeSpec == Deque!Spec
=============================================================================
