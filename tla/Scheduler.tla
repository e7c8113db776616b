----------------------------- MODULE Scheduler -----------------------------
(***************************************************************************)
(* mcu/common/AceRoutine: CoroutineScheduler, as the firmware uses it.     *)
(* Its coroutines loop for ever; each turn of a loop ends in COROUTINE_    *)
(* YIELD or in COROUTINE_DELAY.  One call of CoroutineScheduler::loop      *)
(* looks at one coroutine of the list, and runs it if it is due.           *)
(***************************************************************************)
EXTENDS Clock, Sequences

CONSTANTS Coroutines,  \* the list: insertSorted orders it by name
          Delay,       \* what each coroutine delays for; 0 if it yields
          DelayClock   \* a delay is measured modulo this: 2^16

VARIABLES current,     \* mCurrent, as a position; past the end at a round's end
          status, delayStart

Name == {Coroutines[i] : i \in 1 .. Len(Coroutines)}

\* setup: the constructors have put every coroutine in the list.
Init ==
    /\ current = 1
    /\ status = [c \in Name |-> "Yielding"]
    /\ delayStart = [c \in Name |-> 0]

\* setDelay keeps delays below half of the clock.
Longest == DelayClock \div 2 - 1
DelayOf(c) == IF Delay[c] >= Longest THEN Longest ELSE Delay[c]

\* Mutant: the difference keeps all its bits, as the clock does
ElapsedWide(c) == Minus(millis, delayStart[c])

\* uint16_t elapsedMillis: the low part of the difference.
Elapsed(c) == Minus(millis, delayStart[c]) % DelayClock

\* Mutant: the time is compared with that of the end of the delay
deadlinePassed(c) == millis % DelayClock >= delayStart[c] + DelayOf(c)

\* Mutant: a delay is over when more than it has passed
isDelayPast(c) == Elapsed(c) > DelayOf(c)

isDelayExpired(c) == Elapsed(c) >= DelayOf(c)

Due(c) == status[c] = "Delaying" => isDelayExpired(c)

\* A call at the end of the list goes on with its first coroutine.
At == IF current > Len(Coroutines) THEN 1 ELSE current

Looks(c) == Coroutines[At] = c /\ current' = At + 1

\* The coroutine runs one turn of its loop; this is how the turn ends.
Runs(c) ==
    /\ Looks(c)
    /\ Due(c)
    /\ IF Delay[c] = 0
       THEN /\ status' = [status EXCEPT ![c] = "Yielding"]
            /\ UNCHANGED delayStart
       ELSE /\ status' = [status EXCEPT ![c] = "Delaying"]
            /\ delayStart' = [delayStart EXCEPT ![c] = millis % DelayClock]

Skips(c) ==
    /\ Looks(c)
    /\ ~Due(c)
    /\ UNCHANGED <<status, delayStart>>
=============================================================================
