---------------------------- MODULE LinkQuality ----------------------------
(***************************************************************************)
(* common/linkquality.h: the share of answered PINGs in the last S events. *)
(* The ring is a bounded sequence here, as CircularBufferProofs justifies. *)
(* A quality is the fraction Pongs / Pings; the program computes it in     *)
(* floating point, which rounds none of the fractions with S <= 40 across  *)
(* the threshold or an integer.                                            *)
(***************************************************************************)
EXTENDS Naturals, Sequences, FiniteSets

CONSTANT S

ASSUME HorizonAssumption == S \in Nat \ {0}

VARIABLES pushes,      \* the last S events, oldest first: 0 for a PING, 1 for a PONG
          silence      \* history: PINGs since the last PONG or the start, S of them at most

linkVars == <<pushes, silence>>

LinkInit == pushes = << >> /\ silence = 0

\* Mutant: when the window is full it is the newest event that is lost, as in
\* trim() of the USE_DEQUE variant of the file
PushedFrozen(q, v) == IF Len(q) < S THEN Append(q, v) ELSE q

\* Mutant: the window is one event too long
PushedLong(q, v) == Append(IF Len(q) <= S THEN q ELSE Tail(q), v)

Pushed(q, v) == Append(IF Len(q) < S THEN q ELSE Tail(q), v)

pushPing ==
    /\ pushes' = Pushed(pushes, 0)
    /\ silence' = IF silence < S THEN silence + 1 ELSE S

pushPong == pushes' = Pushed(pushes, 1) /\ silence' = 0

Pings(q) == Cardinality({i \in 1 .. Len(q) : q[i] = 0})
Pongs(q) == Cardinality({i \in 1 .. Len(q) : q[i] = 1})

\* quality() > 0.8, the transmitter's idea of a link that is up.  0 / 0 is not a
\* number, and above nothing; n / 0 is above everything.
Above80(q) == 5 * Pongs(q) > 4 * Pings(q)

\* uint8_t( quality() * 255.0 ), what the transmitter reports.  Out of range the
\* conversion is undefined: the AVR's keeps the low byte, except of n / 0 and
\* 0 / 0, which may become anything.
Reports(q) == IF Pings(q) = 0
              THEN 0 .. 255
              ELSE {((255 * Pongs(q)) \div Pings(q)) % 256}
-----------------------------------------------------------------------------
LinkTypeOK == pushes \in Seq({0, 1}) /\ Len(pushes) <= S /\ silence \in 0 .. S

\* A link that fell silent goes down: whatever the window held before, five
\* ninths of its length in PINGs without an answer bring it below the threshold.
SilenceTakesDown == 9 * silence >= 5 * S => ~Above80(pushes)
=============================================================================
