------------------------- MODULE ReceiverLoopProofs -------------------------
(***************************************************************************)
(* First Trigger, for every clock size, set of durations and tick gap that *)
(* satisfy TimeAssumption: its pin implements Pulse.  Then the receiver's  *)
(* loop, for every clock size, delay and length of a run that satisfy      *)
(* LoopAssumption: it implements Trigger, so that a relay that the         *)
(* scheduler ticks is a pulse.                                             *)
(***************************************************************************)
EXTENDS ReceiverLoop, Integers, TLAPS

\* The two facts about the clock and the tick that bound the age of an active
\* output: it is what the clock difference says, and it had not reached the
\* duration at the last tick unless the output was fired since.
AgeAtLastTick ==
    state = "ACTIVE" => /\ triggerDuration \in Durations
                        /\ \/ age <= sinceTick
                           \/ age < triggerDuration + sinceTick

PinShowsState == pin = "LOW" <=> state = "ACTIVE"

IInv == TypeOK /\ PinShowsState /\ ClockTracksAge /\ AgeAtLastTick

USE ClockAssumption, TimeAssumption

\* IInv holds initially.
LEMMA InitIInv == Init => IInv
BY DEF Init, IInv, TypeOK, PinShowsState, ClockTracksAge, AgeAtLastTick

\* The bound every property here needs: an active output is younger than the
\* clock is wide, with the next time unit included if no tick is due.
LEMMA AgeBound ==
    ASSUME IInv, state = "ACTIVE"
    PROVE  /\ triggerDuration \in Nat
           /\ age <= triggerDuration + sinceTick
           /\ sinceTick < TickGap => age + 1 < ClockSize
<1>1. triggerDuration \in Nat /\ triggerDuration + TickGap < ClockSize
  BY DEF IInv, AgeAtLastTick
<1>2. age <= triggerDuration + sinceTick /\ sinceTick \in 0 .. TickGap /\ age \in Nat
  BY <1>1 DEF IInv, TypeOK, AgeAtLastTick
<1> QED BY <1>1, <1>2

\* Each step keeps IInv.
LEMMA NextIInv == IInv /\ [Next]_vars => IInv'
<1> SUFFICES ASSUME IInv, [Next]_vars PROVE IInv'
  OBVIOUS
<1> USE DEF IInv, TypeOK, PinShowsState, ClockTracksAge, AgeAtLastTick
<1>1. ASSUME NEW d \in Durations, trigger(d) PROVE IInv'
  BY <1>1 DEF trigger, onActivation, Minus
<1>2. CASE tick
  BY <1>2 DEF tick, Expired, onDeactivation, Minus
<1>3. CASE Advance
  <2>1. TypeOK' /\ PinShowsState' /\ AgeAtLastTick'
    BY <1>3 DEF Advance, Tock, Later
  <2>2. ASSUME state = "ACTIVE" PROVE Minus(millis', triggerStart) = age + 1
    <3>1. age + 1 < ClockSize
      BY <1>3, <2>2, AgeBound DEF Advance, Tock, Later
    <3> QED BY <1>3, <2>2, <3>1 DEF Advance, Tock, Later, Minus
  <2>3. ClockTracksAge'
    BY <1>3, <2>2 DEF Advance, Tock, Later, Minus
  <2> QED BY <2>1, <2>3
<1>4. CASE UNCHANGED vars
  BY <1>4 DEF vars, Minus
<1> QED BY <1>1, <1>2, <1>3, <1>4 DEF Next, Trigger

\* The invariant of the specification everything below follows from.
THEOREM Invariance == Spec => []IInv
BY InitIInv, NextIInv, PTL DEF Spec

\* Both pointers into time keep their types, the clock wraps where it should.
THEOREM TypeCorrect == Spec => []TypeOK
<1>1. IInv => TypeOK
  BY DEF IInv
<1> QED BY <1>1, Invariance, PTL

\* millis() - _triggerStart is the real time an output has been on, across any
\* wrap-around of the clock.
THEOREM ClockCorrect == Spec => []ClockTracksAge
<1>1. IInv => ClockTracksAge
  BY DEF IInv
<1> QED BY <1>1, Invariance, PTL

\* Initially the pin is off, as the pulse is.
LEMMA InitPulse == Init => PulseOfPin!Init
BY DEF Init, PulseOfPin!Init

\* Every step of the trigger is a step of the pulse or leaves it alone: calls
\* of trigger fire it, a tick releases it only at or after its limit, and time
\* passes only while the limit and the slack allow it.
LEMMA StepPulse == IInv /\ [Next]_vars => [PulseOfPin!Next]_PulseOfPin!vars
<1> SUFFICES ASSUME IInv, [Next]_vars PROVE [PulseOfPin!Next]_PulseOfPin!vars
  OBVIOUS
<1> USE DEF PulseOfPin!vars
<1>1. ASSUME NEW d \in Durations, trigger(d) PROVE PulseOfPin!Next
  BY <1>1 DEF trigger, onActivation, PulseOfPin!Next, PulseOfPin!Fire
<1>2. ASSUME tick PROVE PulseOfPin!Release \/ UNCHANGED PulseOfPin!vars
  <2>1. CASE state' = state
    BY <1>2, <2>1 DEF tick, Expired, IInv, TypeOK
  <2>2. CASE state' # state
    <3>1. state = "ACTIVE" /\ age >= triggerDuration
      BY <1>2, <2>2 DEF tick, Expired, IInv, ClockTracksAge
    <3> QED BY <1>2, <2>2, <3>1 DEF tick, Expired, onDeactivation, IInv, PinShowsState,
               PulseOfPin!Release
  <2> QED BY <2>1, <2>2
<1>3. ASSUME Advance PROVE PulseOfPin!Elapse \/ UNCHANGED PulseOfPin!vars
  <2>1. CASE state = "ACTIVE"
    <3>1. age < triggerDuration + TickGap
      BY <1>3, <2>1, AgeBound DEF Advance, Tock, Later, IInv, TypeOK
    <3> QED BY <1>3, <2>1, <3>1 DEF Advance, Tock, Later, IInv, PinShowsState, PulseOfPin!Elapse
  <2>2. CASE state # "ACTIVE"
    BY <1>3, <2>2 DEF Advance, Tock, Later
  <2> QED BY <2>1, <2>2
<1>4. CASE UNCHANGED vars
  BY <1>4 DEF vars
<1> QED BY <1>1, <1>2, <1>3, <1>4 DEF Next, Trigger, PulseOfPin!Next

\* The relay's pin implements Pulse: never early, never late, counted from the
\* last time it was fired.
THEOREM ImplementsPulse == Spec => PulseSpec
<1>1. Spec => PulseOfPin!Init /\ [][PulseOfPin!Next]_PulseOfPin!vars
  BY InitPulse, StepPulse, Invariance, PTL DEF Spec
<1> QED BY <1>1 DEF PulseSpec, PulseOfPin!Spec
-----------------------------------------------------------------------------
\* A multiple of n less than n away from 0 is 0.
LEMMA SmallMultiple ==
    ASSUME NEW n \in Nat \ {0}, NEW d \in Int, n * d < n, 0 - n < n * d
    PROVE  d = 0
<1>1. ASSUME d >= 1 PROVE n * d >= n
  BY <1>1, SMT
<1>2. ASSUME d <= -1 PROVE n * d <= 0 - n
  BY <1>2, SMT
<1> QED BY <1>1, <1>2

\* Quotient and remainder.
LEMMA Division ==
    ASSUME NEW x \in Nat, NEW n \in Nat \ {0}
    PROVE  x \div n \in Nat /\ x % n \in 0 .. n - 1 /\ x = n * (x \div n) + (x % n)
OBVIOUS

\* The remainder is the only one there is.
LEMMA RemainderUnique ==
    ASSUME NEW n \in Nat \ {0}, NEW p \in Int, NEW q \in Int,
           NEW a \in 0 .. n - 1, NEW b \in 0 .. n - 1, n * p + a = n * q + b
    PROVE  a = b
<1>1. n * (p - q) = b - a
  BY SMT
<1>2. n * (p - q) < n /\ 0 - n < n * (p - q)
  BY <1>1
<1>3. p - q = 0
  BY <1>2, SmallMultiple
<1> QED BY <1>1, <1>3

\* Counting on modulo n.
LEMMA RemainderNext ==
    ASSUME NEW x \in Nat, NEW n \in Nat \ {0}
    PROVE  (x + 1) % n = IF (x % n) + 1 = n THEN 0 ELSE (x % n) + 1
<1> DEFINE r == x % n
           q == x \div n
           s == (x + 1) % n
           p == (x + 1) \div n
<1>1. q \in Nat /\ r \in 0 .. n - 1 /\ x = n * q + r
  BY Division
<1>2. p \in Nat /\ s \in 0 .. n - 1 /\ x + 1 = n * p + s
  <2>1. x + 1 \in Nat
    OBVIOUS
  <2> QED BY <2>1, Division DEF p, s
<1> HIDE DEF r, q, s, p
<1>3. CASE r + 1 = n
  <2>1. n * (q + 1) + 0 = n * p + s
    BY <1>1, <1>2, <1>3, SMT
  <2>2. s = 0
    BY <1>1, <1>2, <2>1, RemainderUnique
  <2> QED BY <1>3, <2>2 DEF r, s
<1>4. CASE r + 1 # n
  <2>1. n * q + (r + 1) = n * p + s /\ r + 1 \in 0 .. n - 1
    BY <1>1, <1>2, <1>4, SMT
  <2>2. s = r + 1
    BY <1>1, <1>2, <2>1, RemainderUnique
  <2> QED BY <1>4, <2>2 DEF r, s
<1> QED BY <1>3, <1>4

\* A number without its low part has low part 0.
LEMMA NoLowPart ==
    ASSUME NEW x \in Nat, NEW n \in Nat \ {0}
    PROVE  x % n <= x /\ (x - (x % n)) % n = 0
<1> DEFINE q == x \div n
           y == n * q
<1>1. q \in Nat /\ x % n \in 0 .. n - 1 /\ x = y + (x % n)
  BY Division
<1>2. y \in Nat
  BY <1>1, SMT
<1>3. y \div n \in Nat /\ y % n \in 0 .. n - 1 /\ y = n * (y \div n) + (y % n)
  BY <1>2, Division
<1> HIDE DEF q
<1>4. y % n = 0
  <2>1. n * (y \div n) + (y % n) = n * q + 0
    BY <1>1, <1>3
  <2> QED BY <1>1, <1>3, <2>1, RemainderUnique
<1> HIDE DEF y
<1>5. x - (x % n) = y /\ x % n <= x
  BY <1>1, <1>2
<1> QED BY <1>4, <1>5

USE ClockAssumption, TimeAssumption, LoopAssumption

\* The 16-bit clock is no longer than the whole one.
LEMMA DelayClockFits == DelayClock <= ClockSize
<1>1. ASSUME ClockSize < DelayClock PROVE FALSE
  <2> DEFINE q == ClockSize \div DelayClock
  <2>1. q \in Nat /\ ClockSize = DelayClock * q + (ClockSize % DelayClock)
    BY Division
  <2> HIDE DEF q
  <2>2. DelayClock * 0 + ClockSize = DelayClock * q + 0
    BY <2>1, SMT
  <2>3. ClockSize \in 0 .. DelayClock - 1 /\ 0 \in 0 .. DelayClock - 1
    BY <1>1
  <2>4. ClockSize = 0
    BY <2>1, <2>2, <2>3, RemainderUnique
  <2> QED BY <2>4
<1> QED BY <1>1
-----------------------------------------------------------------------------
Names == {"configRoutine", "radioRxRoutine", "triggerTickRoutine"}

LoopTypeOK ==
    /\ millis \in 0 .. ClockSize - 1
    /\ sinceTick \in Nat
    /\ current \in 1 .. 4
    /\ status \in [Names -> {"Yielding", "Delaying"}]
    /\ delayStart \in [Names -> 0 .. DelayClock - 1]
    /\ spent \in 0 .. MaxRun

\* How many calls of loop since it looked at triggerTickRoutine
Behind == IF current = 4 THEN 0 ELSE current - 1

\* When triggerTickRoutine was last looked at its delay was not over, and no call
\* since has taken longer than MaxRun.
GapBound == sinceTick <= TickDelay - 1 + Behind * MaxRun + spent

LoopIInv == LoopTypeOK /\ DelayTracksTick /\ GapBound

\* LoopIInv holds initially.
LEMMA InitLoop == LoopInit => LoopIInv
BY DEF LoopInit, Init, Sched!Init, LoopIInv, LoopTypeOK, DelayTracksTick, GapBound, Behind,
       Sched!Name, Coroutines, Names

\* Whatever the coroutine, its call moves on in the list and may only start a
\* delay; a coroutine that does not run leaves the relay alone.
LEMMA LookTypes ==
    ASSUME LoopTypeOK, NEW c \in Names, Sched!Runs(c) \/ Sched!Skips(c)
    PROVE  /\ current' \in 1 .. 4
           /\ status' \in [Names -> {"Yielding", "Delaying"}]
           /\ delayStart' \in [Names -> 0 .. DelayClock - 1]
           /\ c = "configRoutine" => current \in {1, 4} /\ current' = 2
           /\ c = "radioRxRoutine" => current = 2 /\ current' = 3
           /\ c = "triggerTickRoutine" => current = 3 /\ current' = 4
<1>1. millis % DelayClock \in 0 .. DelayClock - 1
  BY DEF LoopTypeOK
<1> QED BY <1>1 DEF LoopTypeOK, Sched!Runs, Sched!Skips, Sched!Looks, Sched!At, Coroutines, Names

\* Runs of the other two coroutines.
LEMMA OtherRuns ==
    ASSUME LoopIInv, NEW c \in {"configRoutine", "radioRxRoutine"},
           Sched!Runs(c) \/ Sched!Skips(c), UNCHANGED <<millis, sinceTick>>, spent' = 0
    PROVE  LoopIInv'
<1>1. LoopTypeOK'
  BY LookTypes DEF LoopIInv, LoopTypeOK, Names
<1>2. /\ status'["triggerTickRoutine"] = status["triggerTickRoutine"]
      /\ delayStart'["triggerTickRoutine"] = delayStart["triggerTickRoutine"]
  BY DEF LoopIInv, LoopTypeOK, Sched!Runs, Sched!Skips, Names
<1>3. DelayTracksTick'
  BY <1>2 DEF LoopIInv, DelayTracksTick, Sched!Elapsed, Sched!Minus
<1>4. GapBound'
  BY LookTypes DEF LoopIInv, LoopTypeOK, GapBound, Behind, Names
<1> QED BY <1>1, <1>3, <1>4 DEF LoopIInv

\* A run of triggerTickRoutine.
LEMMA TickRuns ==
    ASSUME LoopIInv, triggerTickRoutine, spent' = 0
    PROVE  LoopIInv'
<1> DEFINE c == "triggerTickRoutine"
<1>1. LoopTypeOK' /\ current' = 4 /\ sinceTick' = 0
  BY LookTypes DEF LoopIInv, LoopTypeOK, triggerTickRoutine, tick, Names
<1>2. delayStart'[c] = millis % DelayClock /\ millis' = millis
  BY DEF LoopIInv, LoopTypeOK, triggerTickRoutine, Sched!Runs, Delay, tick, Names
<1>3. DelayTracksTick'
  <2>1. millis \in Nat
    BY DEF LoopIInv, LoopTypeOK
  <2>2. millis % DelayClock <= millis /\ (millis - (millis % DelayClock)) % DelayClock = 0
    BY <2>1, NoLowPart
  <2> QED BY <1>1, <1>2, <2>2 DEF DelayTracksTick, Sched!Elapsed, Sched!Minus
<1>4. GapBound'
  BY <1>1 DEF GapBound, Behind, LoopIInv, LoopTypeOK
<1> QED BY <1>1, <1>3, <1>4 DEF LoopIInv

\* triggerTickRoutine is looked at and is not due.
LEMMA TickSkips ==
    ASSUME LoopIInv, Sched!Skips("triggerTickRoutine"), UNCHANGED vars, spent' = 0
    PROVE  LoopIInv'
<1> DEFINE c == "triggerTickRoutine"
<1>1. LoopTypeOK' /\ current' = 4
  BY LookTypes DEF LoopIInv, LoopTypeOK, vars, Names
<1>2. DelayTracksTick'
  BY DEF LoopIInv, DelayTracksTick, Sched!Elapsed, Sched!Minus, Sched!Skips, vars
<1>3. sinceTick < TickDelay
  BY DEF LoopIInv, DelayTracksTick, LoopTypeOK, Sched!Skips, Sched!Due, Sched!isDelayExpired,
         Sched!DelayOf, Sched!Longest, Delay
<1>4. GapBound'
  BY <1>1, <1>3 DEF GapBound, Behind, LoopIInv, LoopTypeOK, vars
<1> QED BY <1>1, <1>2, <1>4 DEF LoopIInv

\* The difference of the clock and an earlier low part counts on, modulo the
\* 16-bit clock, also where the whole clock wraps.
LEMMA ElapsedNext ==
    ASSUME NEW m \in 0 .. ClockSize - 1, NEW s \in 0 .. DelayClock - 1
    PROVE  LET next == IF m + 1 = ClockSize THEN 0 ELSE m + 1
           IN  (Minus(m, s) % DelayClock) + 1 < DelayClock
                => Minus(next, s) % DelayClock = (Minus(m, s) % DelayClock) + 1
<1> DEFINE next == IF m + 1 = ClockSize THEN 0 ELSE m + 1
           x == Minus(m, s)
           y == Minus(next, s)
<1>1. x \in Nat /\ (y = x + 1 \/ (y = 0 /\ x + 1 = ClockSize))
  BY DelayClockFits DEF Minus
<1> HIDE DEF x, y
<1>2. (x + 1) % DelayClock = IF (x % DelayClock) + 1 = DelayClock THEN 0 ELSE (x % DelayClock) + 1
  BY <1>1, RemainderNext
<1>3. x % DelayClock \in 0 .. DelayClock - 1
  BY <1>1, Division
<1>4. CASE y = x + 1
  BY <1>2, <1>3, <1>4 DEF x, y
<1>5. CASE y = 0 /\ x + 1 = ClockSize
  BY <1>2, <1>3, <1>5 DEF x, y
<1> QED BY <1>1, <1>4, <1>5

\* A time unit passes within the time a run may take: the next tick is in time.
LEMMA ElapseInTime ==
    ASSUME LoopIInv, Elapse
    PROVE  LoopIInv' /\ sinceTick < TickGap
<1>1. sinceTick + 1 <= TickGap
  BY DEF LoopIInv, LoopTypeOK, GapBound, Behind, Elapse
<1>2. LoopTypeOK'
  BY DEF LoopIInv, LoopTypeOK, Elapse, Tock, Later
<1>3. DelayTracksTick'
  <2>1. SUFFICES ASSUME status["triggerTickRoutine"] = "Delaying"
                 PROVE  Minus(Later, delayStart["triggerTickRoutine"]) % DelayClock = sinceTick + 1
    BY DEF Elapse, Tock, DelayTracksTick, Sched!Elapsed, Sched!Minus, Minus
  <2>2. Minus(millis, delayStart["triggerTickRoutine"]) % DelayClock = sinceTick
    BY <2>1 DEF LoopIInv, DelayTracksTick, Sched!Elapsed, Sched!Minus, Minus
  <2>3. sinceTick + 1 < DelayClock
    BY <1>1 DEF LoopIInv, LoopTypeOK
  <2> QED BY <2>2, <2>3, ElapsedNext DEF LoopIInv, LoopTypeOK, Later, Names
<1>4. GapBound'
  BY DEF LoopIInv, LoopTypeOK, GapBound, Behind, Elapse, Tock
<1> QED BY <1>1, <1>2, <1>3, <1>4 DEF LoopIInv, LoopTypeOK

\* Each step keeps LoopIInv.
LEMMA NextLoop == LoopIInv /\ [LoopNext]_loopVars => LoopIInv'
<1> SUFFICES ASSUME LoopIInv, [LoopNext]_loopVars PROVE LoopIInv'
  OBVIOUS
<1>1. ASSUME configRoutine, spent' = 0 PROVE LoopIInv'
  BY <1>1, OtherRuns DEF configRoutine, vars
<1>2. ASSUME radioRxRoutine, spent' = 0 PROVE LoopIInv'
  BY <1>2, OtherRuns DEF radioRxRoutine, vars, Trigger, trigger
<1>3. ASSUME triggerTickRoutine, spent' = 0 PROVE LoopIInv'
  BY <1>3, TickRuns
<1>4. ASSUME NotDue, spent' = 0 PROVE LoopIInv'
  <2>1. PICK c \in Names : Sched!Skips(c)
    BY <1>4 DEF NotDue, Sched!Name, Coroutines, Names
  <2>2. CASE c = "triggerTickRoutine"
    BY <1>4, <2>1, <2>2, TickSkips DEF NotDue
  <2>3. CASE c # "triggerTickRoutine"
    BY <1>4, <2>1, <2>3, OtherRuns DEF NotDue, vars, Names
  <2> QED BY <2>2, <2>3
<1>5. CASE Elapse
  BY <1>5, ElapseInTime
<1>6. CASE UNCHANGED loopVars
  BY <1>6 DEF loopVars, vars, LoopIInv, LoopTypeOK, DelayTracksTick, GapBound, Behind,
              Sched!Elapsed, Sched!Minus
<1> QED BY <1>1, <1>2, <1>3, <1>4, <1>5, <1>6 DEF LoopNext, loop

\* LoopIInv is an invariant.
THEOREM LoopInvariance == LoopSpec => []LoopIInv
BY InitLoop, NextLoop, PTL DEF LoopSpec

\* The 16-bit clock of a delay always tells the real time since the last tick.
THEOREM DelayCorrect == LoopSpec => []DelayTracksTick
<1>1. LoopIInv => DelayTracksTick
  BY DEF LoopIInv
<1> QED BY <1>1, LoopInvariance, PTL

\* A call of loop is a call of trigger, a tick or nothing; time passes only while
\* a tick is not overdue.
LEMMA StepTrigger == LoopIInv /\ [LoopNext]_loopVars => [Next]_vars
<1> SUFFICES ASSUME LoopIInv, [LoopNext]_loopVars PROVE [Next]_vars
  OBVIOUS
<1>1. CASE loop
  BY <1>1 DEF loop, configRoutine, radioRxRoutine, triggerTickRoutine, NotDue, Next
<1>2. CASE Elapse
  BY <1>2, ElapseInTime DEF Elapse, Next, Advance
<1>3. CASE UNCHANGED loopVars
  BY <1>3 DEF loopVars
<1> QED BY <1>1, <1>2, <1>3 DEF LoopNext

\* The receiver's loop implements Trigger: the scheduler never lets a tick wait
\* for more than the delay and a round of its list.
THEOREM LoopImplementsTrigger == LoopSpec => TriggerSpec
<1>1. LoopSpec => Init /\ [][Next]_vars
  <2>1. LoopInit => Init
    BY DEF LoopInit
  <2> QED BY <2>1, StepTrigger, LoopInvariance, PTL DEF LoopSpec
<1> QED BY <1>1 DEF TriggerSpec, Spec

\* So a relay under this scheduler is a pulse, by ImplementsPulse.
THEOREM LoopImplementsPulse == LoopSpec => PulseSpec
BY LoopImplementsTrigger, ImplementsPulse DEF TriggerSpec
=============================================================================
