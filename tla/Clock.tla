------------------------------- MODULE Clock -------------------------------
(***************************************************************************)
(* millis(): an unsigned number that wraps at ClockSize (2^32 in the       *)
(* firmware), and the differences of two of its readings.                  *)
(***************************************************************************)
EXTENDS Naturals

CONSTANT ClockSize

ASSUME ClockAssumption == ClockSize \in Nat \ {0}

VARIABLE millis

\* Mutant: the elapsed time is read as zero when the clock has wrapped
MinusSaturating(a, b) == IF a >= b THEN a - b ELSE 0

\* a - b in unsigned arithmetic
Minus(a, b) == IF a >= b THEN a - b ELSE (ClockSize - b) + a

\* The reading after this one
Later == IF millis + 1 = ClockSize THEN 0 ELSE millis + 1
=============================================================================
