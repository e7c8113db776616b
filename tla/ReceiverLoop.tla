---------------------------- MODULE ReceiverLoop ----------------------------
(***************************************************************************)
(* mcu/rx/rx.ino: the receiver's loop().  A step is one call of            *)
(* CoroutineScheduler::loop or one time unit.  Between the steps of two    *)
(* calls at most MaxRun time units pass: what the longest run of a         *)
(* coroutine takes.  There is one relay here; each has its own Trigger.    *)
(* The loop implements Trigger: it is what calls tick often enough.        *)
(***************************************************************************)
EXTENDS Trigger, Sequences

CONSTANTS DelayClock, TickDelay, MaxRun

VARIABLES current, status, delayStart,
          spent              \* time units since the last call

Coroutines == <<"configRoutine", "radioRxRoutine", "triggerTickRoutine">>

Delay == [configRoutine |-> 0, radioRxRoutine |-> 0, triggerTickRoutine |-> TickDelay]

\* 2^32 is a multiple of 2^16, and rounds of the loop are short: a delay of 50 ms
\* is seen to be over before the 16-bit clock has gone round.  Trigger is told a
\* gap of a delay and a round.
ASSUME LoopAssumption ==
    /\ DelayClock \in Nat \ {0}
    /\ ClockSize % DelayClock = 0
    /\ TickDelay \in Nat \ {0}
    /\ MaxRun \in Nat \ {0}
    /\ TickDelay < DelayClock \div 2 - 1
    /\ TickDelay + 3 * MaxRun < DelayClock
    /\ TickGap = TickDelay - 1 + 3 * MaxRun

Sched == INSTANCE Scheduler

loopVars == <<vars, current, status, delayStart, spent>>

LoopInit == Init /\ Sched!Init /\ spent = 0

\* What configRoutine does concerns no relay.
configRoutine == Sched!Runs("configRoutine") /\ UNCHANGED vars

\* One run handles all the frames that wait.  Of the FIREs for this relay among
\* them the last one counts.
radioRxRoutine == Sched!Runs("radioRxRoutine") /\ (Trigger \/ UNCHANGED vars)

triggerTickRoutine == Sched!Runs("triggerTickRoutine") /\ tick

NotDue == (\E c \in Sched!Name : Sched!Skips(c)) /\ UNCHANGED vars

loop ==
    /\ configRoutine \/ radioRxRoutine \/ triggerTickRoutine \/ NotDue
    /\ spent' = 0

Elapse ==
    /\ spent < MaxRun
    /\ spent' = spent + 1
    /\ Tock
    /\ UNCHANGED <<current, status, delayStart>>

LoopNext == loop \/ Elapse

LoopSpec == LoopInit /\ [][LoopNext]_loopVars

\* The sketch's main() calls loop for ever, and time goes on.
LoopFairSpec == LoopSpec /\ WF_loopVars(loop) /\ WF_loopVars(Elapse)
-----------------------------------------------------------------------------
\* The 16-bit difference that decides when triggerTickRoutine is due is the real
\* time since it ran, although neither clock is reset.
DelayTracksTick ==
    status["triggerTickRoutine"] = "Delaying" => Sched!Elapsed("triggerTickRoutine") = sinceTick

\* The loop is a Trigger whose tick is called in time: never more than the delay
\* and one round of the list after the last call.
TriggerSpec == Spec
=============================================================================
