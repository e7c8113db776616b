------------------------------- MODULE Radio -------------------------------
(***************************************************************************)
(* The air between one transmitter and its receivers, frame by frame: what *)
(* the framing makes of the bytes (Datagram, implemented by FrameLink).    *)
(* Every receiver hears every frame of the transmitter.  Frames wait in    *)
(* order in the input buffer of the serial port they come in by; a frame   *)
(* that finds it full, or is hit by noise, is lost and nobody is told.     *)
(* Receivers ignore what receivers write, and that is left out.            *)
(***************************************************************************)
EXTENDS Integers, Sequences

CONSTANTS Device,        \* the receivers' device ids
          NUM_RELAYS,    \* of each
          MaxDuration,   \* the longest a FIRE asks for, in units of 50 ms
          BufferFrames,  \* how many frames an input buffer holds
          Latency        \* the longest a frame is on its way to a receiver's
                         \* parser, from write() on, in units of 50 ms

Byte  == 0 .. 255
Relay == 0 .. NUM_RELAYS - 1

ASSUME RadioAssumption == /\ Device \subseteq Byte
                          /\ NUM_RELAYS \in Byte \ {0}
                          /\ MaxDuration \in Nat \ {0}
                          /\ BufferFrames \in Nat \ {0}
                          /\ Latency \in Nat

VARIABLES toReceiver,    \* what waits at each receiver
          toTransmitter  \* what waits at the transmitter

radioVars == <<toReceiver, toTransmitter>>

\* What goes to the receivers carries its age, in time units since write().
PingFor(id)          == [op |-> "PING", id |-> id, age |-> 0]
FireFor(id, k, n)    == [op |-> "FIRE", id |-> id, relay |-> k, duration |-> n, age |-> 0]
FireAckOf(id, k, on) == [op |-> "FIRE_ACK", id |-> id, relay |-> k, active |-> on, age |-> 0]
RxPongOf(id, relays) == [op |-> "RX_PONG", id |-> id, active |-> relays]

RadioInit == toReceiver = [d \in Device |-> << >>] /\ toTransmitter = << >>

Fitting(q) == [i \in 1 .. (IF Len(q) <= BufferFrames THEN Len(q) ELSE BufferFrames) |-> q[i]]

\* write() on the transmitter's radio, which is out of set mode whenever a
\* coroutine of Transmitter runs (RadioFollows of ConfigSession).
Broadcast(frames) ==
    toReceiver' = [d \in Device |-> Fitting(toReceiver[d] \o frames)]

\* A frame on the way is lost.  Buffers are read from the front, so losing the
\* front one at any time loses any of them.
LoseToReceiver(d) ==
    /\ toReceiver[d] # << >>
    /\ toReceiver' = [toReceiver EXCEPT ![d] = Tail(@)]
    /\ UNCHANGED toTransmitter

LoseToTransmitter ==
    /\ toTransmitter # << >>
    /\ toTransmitter' = Tail(toTransmitter)
    /\ UNCHANGED toReceiver

\* A time unit passes.  What has been on its way for Latency units must have been
\* read or lost.
RadioElapse ==
    /\ \A d \in Device : \A i \in DOMAIN toReceiver[d] : toReceiver[d][i].age < Latency
    /\ toReceiver' = [d \in Device |->
                         [i \in DOMAIN toReceiver[d] |-> [toReceiver[d][i] EXCEPT !.age = @ + 1]]]
    /\ UNCHANGED toTransmitter
-----------------------------------------------------------------------------
Age == 0 .. Latency

ToReceiver ==
    [op : {"PING"}, id : Byte, age : Age]
    \cup [op : {"FIRE"}, id : Byte, relay : Byte, duration : 0 .. MaxDuration, age : Age]
    \cup [op : {"FIRE_ACK"}, id : Byte, relay : Byte, active : BOOLEAN, age : Age]

ToTransmitter == [op : {"RX_PONG"}, id : Device, active : SUBSET Relay]

RadioTypeOK ==
    /\ toReceiver \in [Device -> Seq(ToReceiver)]
    /\ toTransmitter \in Seq(ToTransmitter)
    /\ \A d \in Device : Len(toReceiver[d]) <= BufferFrames
    /\ Len(toTransmitter) <= BufferFrames
=============================================================================
