------------------------------ MODULE Receiver ------------------------------
(***************************************************************************)
(* mcu/rx/rx.ino: the receivers, one for each device id.  An action is one *)
(* run of a coroutine between two yields, for one frame where the          *)
(* coroutine loops over all that are available.  The outputs count         *)
(* boundaries of time units, of triggerTickRoutine's delay each (50 ms,    *)
(* also the unit of a FIRE frame's duration byte); what they leave open is *)
(* the slack of Pulse: where within a unit a FIRE comes, and where within  *)
(* it the relays are ticked.                                               *)
(***************************************************************************)
EXTENDS Radio

VARIABLES held,          \* the frame, if any, that a device's parser keeps back
          active,        \* the relays that are switched on, by device
          left,          \* unit boundaries after which a relay's duration is
                         \* surely over
          sinceTick,     \* unit boundaries since triggerTickRoutine last ran
          belated        \* history: the relays whose last FIRE was kept back

receiverVars == <<held, active, left, sinceTick, belated>>

\* setup: a RelayTrigger starts with its relay off, a coroutine without a delay.
ReceiverInit ==
    /\ held = [d \in Device |-> << >>]
    /\ active = [d \in Device |-> {}]
    /\ left = [d \in Device |-> [k \in Relay |-> 0]]
    /\ sinceTick = [d \in Device |-> 1]
    /\ belated = [d \in Device |-> {}]

\* Mutant: the target of a FIRE is not compared
IsFireForAnyone(d, f) == f.op = "FIRE" /\ f.relay \in Relay

\* The broadcast id 0xff is for all, but not in a FIRE.
IsPingFor(d, f) == f.op = "PING" /\ f.id \in {d, 255}
IsFireFor(d, f) == f.op = "FIRE" /\ f.id = d /\ f.relay \in Relay

\* radioRxRoutine, OP_PING
AnswerPing(d, f) ==
    /\ IsPingFor(d, f)
    /\ toTransmitter' = Fitting(Append(toTransmitter, RxPongOf(d, active[d])))
    /\ UNCHANGED <<active, left, belated>>

\* radioRxRoutine, OP_FIRE: Trigger::trigger.  It comes somewhere within a unit, so
\* that a duration of n is over at the n-th boundary at the earliest and surely
\* after one more.
Fire(d, f) ==
    /\ IsFireFor(d, f)
    /\ active' = [active EXCEPT ![d] = @ \cup {f.relay}]
    /\ left' = [left EXCEPT ![d][f.relay] = IF f.duration = 0 THEN 0 ELSE f.duration + 1]
    /\ belated' = [belated EXCEPT ![d] = IF held[d] = << >> THEN @ \ {f.relay}
                                                          ELSE @ \cup {f.relay}]
    /\ UNCHANGED toTransmitter

\* Any other frame does nothing.
Ignore(d, f) ==
    /\ ~IsPingFor(d, f) /\ ~IsFireFor(d, f)
    /\ UNCHANGED <<active, left, belated, toTransmitter>>

\* The parser accepts f, by which it keeps nothing back any more.
Accept(d, f) ==
    /\ AnswerPing(d, f) \/ Fire(d, f) \/ Ignore(d, f)
    /\ held' = [held EXCEPT ![d] = << >>]
    /\ UNCHANGED sinceTick

\* A frame comes in.  Its end symbol may be the one that a frame before it lacks:
\* then that one is accepted, and this one is gone.
radioRxRoutine(d) ==
    /\ toReceiver[d] # << >>
    /\ Accept(d, Head(held[d] \o toReceiver[d]))
    /\ toReceiver' = [toReceiver EXCEPT ![d] = Tail(@)]

\* Of a frame whose checksum was right only the end symbol is lost: the parser
\* keeps it back until it sees another.  A frame that would be ignored is as good
\* as lost then, and so is the next, which it swallows.
HoldBack(d) ==
    /\ toReceiver[d] # << >> /\ held[d] = << >>
    /\ IsPingFor(d, Head(toReceiver[d])) \/ IsFireFor(d, Head(toReceiver[d]))
    /\ held' = [held EXCEPT ![d] = <<Head(toReceiver[d])>>]
    /\ toReceiver' = [toReceiver EXCEPT ![d] = Tail(@)]
    /\ UNCHANGED <<active, left, sinceTick, belated, toTransmitter>>

\* Something else on the air has an end symbol: noise, or an answer of another
\* receiver.
StrayEnd(d) ==
    /\ held[d] # << >>
    /\ Accept(d, Head(held[d]))
    /\ UNCHANGED toReceiver

Expired(d)   == {k \in Relay : left[d][k] = 0}
Expiring(d)  == {k \in Relay : left[d][k] = 1}

\* Mutant: the loop over the relays ends one too early
TickButLast(d, over) == active' = [active EXCEPT ![d] = @ \ (over \ {NUM_RELAYS - 1})]

\* Trigger::tick, for every relay
Tick(d, over) == active' = [active EXCEPT ![d] = @ \ over]

\* Some of the relays whose duration ends within this unit are past it already.
triggerTickRoutine(d) ==
    /\ sinceTick[d] > 0
    /\ \E early \in SUBSET Expiring(d) : Tick(d, Expired(d) \cup early)
    /\ left' = [left EXCEPT ![d] = [k \in Relay |-> IF k \in active'[d] THEN @[k] ELSE 0]]
    /\ belated' = [belated EXCEPT ![d] = @ \cap active'[d]]
    /\ sinceTick' = [sinceTick EXCEPT ![d] = 0]
    /\ UNCHANGED <<held, radioVars>>

\* The power fails and comes back.  What waited in the buffer and in the parser
\* is gone.
ReceiverRestart(d) ==
    /\ active' = [active EXCEPT ![d] = {}]
    /\ left' = [left EXCEPT ![d] = [k \in Relay |-> 0]]
    /\ sinceTick' = [sinceTick EXCEPT ![d] = 1]
    /\ belated' = [belated EXCEPT ![d] = {}]
    /\ toReceiver' = [toReceiver EXCEPT ![d] = << >>]
    /\ held' = [held EXCEPT ![d] = << >>]
    /\ UNCHANGED toTransmitter

\* A time unit passes.  Ticks are a delay of 50 ms and a round of the scheduler
\* apart: a little more than a unit, and never two.  What is kept back may stay.
ReceiverElapse ==
    /\ \A d \in Device : sinceTick[d] < 2
    /\ sinceTick' = [d \in Device |-> sinceTick[d] + 1]
    /\ left' = [d \in Device |-> [k \in Relay |-> IF left[d][k] = 0 THEN 0 ELSE left[d][k] - 1]]
    /\ UNCHANGED <<held, active, belated>>
-----------------------------------------------------------------------------
ReceiverTypeOK ==
    /\ held \in [Device -> Seq(ToReceiver)]
    /\ \A d \in Device : Len(held[d]) <= 1
    /\ active \in [Device -> SUBSET Relay]
    /\ left \in [Device -> [Relay -> 0 .. MaxDuration + 1]]
    /\ sinceTick \in [Device -> 0 .. 2]
    /\ belated \in [Device -> SUBSET Relay]
=============================================================================
