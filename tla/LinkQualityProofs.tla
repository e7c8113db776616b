------------------------- MODULE LinkQualityProofs -------------------------
(***************************************************************************)
(* What every user of LinkQuality may count on, for every window length:   *)
(* the newest events of the window are the PINGs of the silence, and the   *)
(* rest is all the PONGs there can be.                                     *)
(***************************************************************************)
EXTENDS LinkQuality, FiniteSetTheorems, TLAPS

USE HorizonAssumption

\* The silence is inside the window, and all of it is PINGs.
SilentTail ==
    /\ silence <= Len(pushes)
    /\ \A i \in 1 .. Len(pushes) : i > Len(pushes) - silence => pushes[i] = 0

LinkInv == LinkTypeOK /\ SilentTail

\* What one more event makes of a window: its length, and where each event went.
LEMMA PushedShape ==
    ASSUME NEW q \in Seq({0, 1}), Len(q) <= S, NEW v \in {0, 1}
    PROVE  /\ Pushed(q, v) \in Seq({0, 1})
           /\ Len(Pushed(q, v)) = IF Len(q) < S THEN Len(q) + 1 ELSE S
           /\ Pushed(q, v)[Len(Pushed(q, v))] = v
           /\ \A i \in 1 .. Len(Pushed(q, v)) - 1 :
                 Pushed(q, v)[i] = IF Len(q) < S THEN q[i] ELSE q[i + 1]
<1>1. CASE Len(q) < S
  <2>1. Pushed(q, v) = Append(q, v)
    BY <1>1 DEF Pushed
  <2> QED BY <1>1, <2>1
<1>2. CASE Len(q) = S
  <2>1. Pushed(q, v) = Append(Tail(q), v)
    BY <1>2 DEF Pushed
  <2>2. Tail(q) \in Seq({0, 1}) /\ Len(Tail(q)) = S - 1
    BY <1>2
  <2>3. \A i \in 1 .. S - 1 : Tail(q)[i] = q[i + 1]
    BY <1>2
  <2> QED BY <1>2, <2>1, <2>2, <2>3
<1> QED BY <1>1, <1>2

\* A new window, and that of a transmitter that restarted, is empty.
LEMMA InitKeeps == LinkInit => LinkInv
BY DEF LinkInit, LinkInv, LinkTypeOK, SilentTail

\* A PING lengthens the silence at the window's end by one.
LEMMA PingKeeps == LinkInv /\ pushPing => LinkInv'
<1> SUFFICES ASSUME LinkInv, pushPing PROVE LinkInv'
  OBVIOUS
<1>1. pushes \in Seq({0, 1}) /\ Len(pushes) <= S /\ silence \in 0 .. S
  BY DEF LinkInv, LinkTypeOK
<1>2. /\ pushes' = Pushed(pushes, 0)
      /\ silence' = IF silence < S THEN silence + 1 ELSE S
  BY DEF pushPing
<1>3. /\ pushes' \in Seq({0, 1})
      /\ Len(pushes') = IF Len(pushes) < S THEN Len(pushes) + 1 ELSE S
      /\ pushes'[Len(pushes')] = 0
      /\ \A i \in 1 .. Len(pushes') - 1 :
            pushes'[i] = IF Len(pushes) < S THEN pushes[i] ELSE pushes[i + 1]
  BY <1>1, <1>2, PushedShape
<1>4. LinkTypeOK'
  BY <1>1, <1>2, <1>3 DEF LinkTypeOK
<1>5. silence' <= Len(pushes')
  BY <1>1, <1>2, <1>3 DEF LinkInv, SilentTail
<1>6. ASSUME NEW i \in 1 .. Len(pushes'), i > Len(pushes') - silence' PROVE pushes'[i] = 0
  <2>1. CASE i = Len(pushes')
    BY <1>3, <2>1
  <2>2. CASE i # Len(pushes') /\ Len(pushes) < S
    <3>1. i \in 1 .. Len(pushes) /\ i > Len(pushes) - silence
      BY <1>1, <1>2, <1>3, <1>6, <2>2 DEF LinkInv, SilentTail
    <3> QED BY <1>1, <1>3, <2>2, <3>1 DEF LinkInv, SilentTail
  <2>3. CASE i # Len(pushes') /\ Len(pushes) = S
    <3>1. i + 1 \in 1 .. Len(pushes) /\ i + 1 > Len(pushes) - silence
      BY <1>1, <1>2, <1>3, <1>6, <2>3
    <3> QED BY <1>1, <1>3, <2>3, <3>1 DEF LinkInv, SilentTail
  <2> QED BY <1>1, <2>1, <2>2, <2>3
<1> QED BY <1>4, <1>5, <1>6 DEF LinkInv, SilentTail

\* A PONG ends the silence.
LEMMA PongKeeps == LinkInv /\ pushPong => LinkInv'
<1> SUFFICES ASSUME LinkInv, pushPong PROVE LinkInv'
  OBVIOUS
<1>1. /\ pushes' \in Seq({0, 1}) /\ Len(pushes') <= S
      /\ silence' = 0
  BY PushedShape DEF LinkInv, LinkTypeOK, pushPong
<1> QED BY <1>1 DEF LinkInv, LinkTypeOK, SilentTail

\* FS_Interval for the two ends of a window.
LEMMA IntervalSize ==
    ASSUME NEW a \in Nat, NEW b \in Nat, a <= b + 1
    PROVE  IsFiniteSet(a .. b) /\ Cardinality(a .. b) = b - a + 1
<1>1. a \in Int /\ b \in Int
  OBVIOUS
<1>2. /\ IsFiniteSet(a .. b)
      /\ Cardinality(a .. b) = IF a > b THEN 0 ELSE b - a + 1
  BY <1>1, FS_Interval, Zenon
<1> QED BY <1>2

\* A set of numbers counts no more than an interval that holds it, and no less
\* than one that it holds.
LEMMA SizeBetween ==
    ASSUME NEW P, NEW a \in Nat, NEW b \in Nat, a <= b + 1
    PROVE  /\ P \subseteq a .. b => Cardinality(P) \in Nat /\ Cardinality(P) <= b - a + 1
           /\ IsFiniteSet(P) /\ a .. b \subseteq P
                => Cardinality(P) \in Nat /\ Cardinality(P) >= b - a + 1
<1>1. IsFiniteSet(a .. b) /\ Cardinality(a .. b) = b - a + 1
  BY IntervalSize
<1>2. ASSUME P \subseteq a .. b
      PROVE  IsFiniteSet(P) /\ Cardinality(P) <= Cardinality(a .. b)
  BY <1>1, <1>2, FS_Subset, Zenon
<1>3. ASSUME IsFiniteSet(P), a .. b \subseteq P
      PROVE  Cardinality(a .. b) <= Cardinality(P)
  BY <1>3, FS_Subset, Zenon
<1>4. IsFiniteSet(P) => Cardinality(P) \in Nat
  BY FS_CardinalityType, Zenon
<1> QED BY <1>1, <1>2, <1>3, <1>4

\* The counting argument: no PONG among the last events of a silence.
LEMMA SilenceCounts == LinkInv => SilenceTakesDown
<1> SUFFICES ASSUME LinkInv, 9 * silence >= 5 * S PROVE ~Above80(pushes)
  BY DEF SilenceTakesDown
<1> DEFINE n    == Len(pushes)
           Pi   == {i \in 1 .. n : pushes[i] = 0}
           Po   == {i \in 1 .. n : pushes[i] = 1}
<1>1. n \in 0 .. S /\ silence \in 0 .. n
  BY DEF LinkInv, LinkTypeOK, SilentTail
<1>2. Cardinality(Po) \in Nat /\ Cardinality(Po) <= n - silence
  <2>1. Po \subseteq 1 .. (n - silence)
    BY <1>1 DEF LinkInv, SilentTail
  <2>2. n - silence \in Nat /\ 1 <= n - silence + 1 /\ (n - silence) - 1 + 1 = n - silence
    BY <1>1
  <2> HIDE DEF Po, n
  <2> QED BY <2>1, <2>2, SizeBetween
<1>3. Cardinality(Pi) \in Nat /\ Cardinality(Pi) >= silence
  <2>1. (n - silence + 1) .. n \subseteq Pi
    BY <1>1 DEF LinkInv, SilentTail
  <2>2. IsFiniteSet(Pi)
    <3>1. Pi \subseteq 1 .. n /\ 1 \in Nat /\ n \in Nat /\ 1 <= n + 1
      BY <1>1
    <3>2. IsFiniteSet(1 .. n)
      BY <3>1, IntervalSize
    <3> QED BY <3>1, <3>2, FS_Subset, Zenon
  <2>3. n - silence + 1 \in Nat /\ n \in Nat /\ n - silence + 1 <= n + 1
        /\ n - (n - silence + 1) + 1 = silence
    BY <1>1
  <2> HIDE DEF Pi, n
  <2> QED BY <2>1, <2>2, <2>3, SizeBetween
<1>4. Pings(pushes) = Cardinality(Pi) /\ Pongs(pushes) = Cardinality(Po)
  BY DEF Pings, Pongs
<1> HIDE DEF Pi, Po
<1>5. 5 * Cardinality(Po) <= 4 * Cardinality(Pi)
  BY <1>1, <1>2, <1>3
<1> QED BY <1>2, <1>3, <1>4, <1>5 DEF Above80
=============================================================================
