----------------------------- MODULE FrameLink -----------------------------
(***************************************************************************)
(* A sender that writes encoded frames to a line that loses, alters and    *)
(* invents bytes, and a FrameParser that reads it: the firmware's          *)
(*     while( available() ) if( addByte( read() ) ) ...                    *)
(* loops, on the serial link and on the air.                               *)
(***************************************************************************)
EXTENDS FrameParser, SequencesExt

CONSTANTS Messages,     \* what is sent: a sequence of different <<opcode, payload>>
          MaxFaults,    \* how many bytes the line gets wrong
          BadBytes,     \* what it may put in their place
          BufferSize    \* the senders' buffers: uint8_t buf[ 32 ]

VARIABLES sent,         \* how many messages were sent
          channel,      \* bytes on the way
          faults,       \* how many bytes went wrong
          delivered     \* the frames the parser returned

vars == <<parserVars, sent, channel, faults, delivered>>

FrameOf(m) == createFrame(m[1], 0, m[2], 0)

\* The messages fit the array and the buffer, and their checksums are two bytes, which
\* may be any.  Nothing keeps the symbols out of the payloads.
ASSUME LinkAssumption ==
    /\ MaxFaults \in Nat /\ BadBytes \subseteq Byte /\ BufferSize \in Nat
    /\ Messages \in Seq(Byte \X Seq(Byte))
    /\ \A i \in 1 .. Len(Messages) :
         /\ Len(Messages[i][2]) <= FRAME_MAX_PAYLOAD_SIZE
         /\ 7 + Len(Messages[i][2]) <= BufferSize
         /\ Crc(Body(FrameOf(Messages[i]))) \in Byte \X Byte

\* What frameToBuffer writes into buf for each of the messages.
Encodings == [i \in 1 .. Len(Messages) |-> frameToBuffer(FrameOf(Messages[i]), BufferSize)]

\* The firmware's parsers are globals: their memory starts as zeros.
Init ==
    /\ flags = 0 /\ opcode = 0 /\ payload_size = 0
    /\ payload = [i \in 0 .. FRAME_MAX_PAYLOAD_SIZE - 1 |-> 0]
    /\ ParserInit
    /\ sent = 0 /\ channel = << >> /\ faults = 0 /\ delivered = << >>

\* write( buf, bsize ).  The parser only sees the order of the bytes, so a frame
\* is sent when the bytes of the last one are gone.
Send ==
    /\ sent < Len(Messages)
    /\ channel = << >>
    /\ sent' = sent + 1
    /\ channel' = Encodings[sent + 1]
    /\ UNCHANGED <<parserVars, faults, delivered>>

Receive ==
    /\ channel # << >>
    /\ addByte(Head(channel))
    /\ channel' = Tail(channel)
    /\ delivered' = IF ret' THEN Append(delivered, getFrame') ELSE delivered
    /\ UNCHANGED <<sent, faults>>

Lose ==
    /\ channel # << >> /\ channel' = Tail(channel)

Alter(b) ==
    /\ channel # << >> /\ b # Head(channel)
    /\ channel' = <<b>> \o Tail(channel)

Invent(b) == channel' = <<b>> \o channel

Fault ==
    /\ faults < MaxFaults
    /\ faults' = faults + 1
    /\ Lose \/ \E b \in BadBytes : Alter(b) \/ Invent(b)
    /\ UNCHANGED <<parserVars, sent, delivered>>

Done == sent = Len(Messages) /\ channel = << >> /\ UNCHANGED vars

Next == Send \/ Receive \/ Fault \/ Done

Spec == Init /\ [][Next]_vars

FairSpec == Spec /\ WF_vars(Send) /\ WF_vars(Receive)
-----------------------------------------------------------------------------
\* The message a delivered frame carries.  The flags are not compared: the
\* checksum does not cover them and no handler reads them.
Message(f) == <<f.opcode, Payload(f)>>

NumberOf(f) == SelectInSeq(Messages, LAMBDA m : m = Message(f))

\* No line makes the parser deliver a frame that was not sent, or one sent
\* before or at the same time as the last one delivered.
DatagramOfLine ==
    INSTANCE Datagram WITH received <- [i \in 1 .. Len(delivered) |-> NumberOf(delivered[i])]

DatagramSpec == DatagramOfLine!Spec

\* A frame is never held back for longer than the line was at fault: without a
\* fault it is delivered by its own last byte, and each byte that goes wrong can
\* keep it, or a FIRE in it, until the end of one more frame.
Fresh == [][delivered' # delivered => NumberOf(getFrame') >= sent - faults]_vars

\* When the line did nothing wrong and is empty, exactly what was sent has been
\* delivered, in order: the parser takes apart what frameToBuffer has put together,
\* whatever the bytes are and whatever the frames before have left in its arrays.
RoundTrip ==
    faults = 0 /\ channel = << >> =>
        [i \in 1 .. Len(delivered) |-> Message(delivered[i])] = SubSeq(Messages, 1, sent)

\* A line that does nothing wrong delivers everything, in order.
CleanDelivery == <>[](faults = 0 => Len(delivered) = Len(Messages))
=============================================================================
