----------------------------- MODULE PingStream -----------------------------
(***************************************************************************)
(* A transmitter that only sends its periodic PING, without a fault, and a *)
(* receiver whose parser begins to listen at any byte of it: it was        *)
(* switched on, or came into range, in the middle of a frame.  The size    *)
(* byte is read from whatever follows the first START, and the CRC a       *)
(* wrong frame swallows is not searched for another START.                 *)
(***************************************************************************)
EXTENDS FrameParser

CONSTANTS Targets,      \* device ids that are PINGed
          BufferSize    \* pingRoutine's uint8_t buf[ 32 ]

VARIABLES pings,        \* the bytes of one PING: the line repeats them for ever
          position      \* how many of them were heard since the last START sent

vars == <<parserVars, pings, position>>

\* createPingFrame: opcode 0, the target's id as its payload
PingFrame(id) == createFrame(0, 0, <<id>>, 0)

Init ==
    /\ \E id \in Targets : pings = frameToBuffer(PingFrame(id), BufferSize)
    /\ position \in 0 .. Len(pings) - 1
    /\ flags = 0 /\ opcode = 0 /\ payload_size = 0
    /\ payload = [i \in 0 .. FRAME_MAX_PAYLOAD_SIZE - 1 |-> 0]
    /\ ParserInit

Hear ==
    /\ addByte(pings[position + 1])
    /\ position' = (position + 1) % Len(pings)
    /\ UNCHANGED pings

Spec == Init /\ [][Hear]_vars

\* The transmitter goes on PINGing and the receiver goes on reading.
FairSpec == Spec /\ WF_vars(Hear)
-----------------------------------------------------------------------------
\* The parser falls into step with the stream, wherever it begins to listen:
\* from some byte on it returns every PING, so that the receiver answers it.
Synchronises == <>[](position = 0 => ret)

\* docs/frame.md: an OP_PONG "should be sent in response to OP_PING", so a
\* receiver that is PINGed without end sooner or later notices it.
PingsAnswered == []<>ret
=============================================================================
