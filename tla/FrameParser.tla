---------------------------- MODULE FrameParser ----------------------------
(***************************************************************************)
(* common/frameparser.h: the byte-at-a-time parser of a serial or radio    *)
(* stream.  One action per state of addByte.  The two scratch arrays are   *)
(* sequences, so their offsets are their lengths; _curFrame.payload is an  *)
(* array, because getFrame returns all of it, stale elements included.     *)
(*                                                                         *)
(* wire is a history variable: the bytes consumed since the start symbol   *)
(* of the frame in progress, without those ignored while waiting for its   *)
(* end symbol.                                                             *)
(***************************************************************************)
EXTENDS Frame

VARIABLES curState, flags, opcode, payload_size, payload, curPayloadOffset,
          buffer,          \* _buffer[0 .. _curBufferOffset - 1]
          crcBuffer,       \* _crcBuffer[0 .. _curCRCOffset - 1]
          ret,             \* what the last addByte returned
          wire

frameVars  == <<flags, opcode, payload_size, payload>>
parserVars == <<curState, frameVars, curPayloadOffset, buffer, crcBuffer, ret, wire>>

State == {"WAITING_START_SYMBOL", "WAITING_FLAGS", "WAITING_OPCODE",
          "WAITING_PAYLOAD_SIZE", "WAITING_PAYLOAD", "WAITING_CRC",
          "WAITING_END_SYMBOL"}

CrcSize == 2                                   \* sizeof(uint16_t)

getFrame == [flags |-> flags, opcode |-> opcode,
             payload_size |-> payload_size, payload |-> payload]

(***************************************************************************)
(* The constructor sets the state and the buffer offset; a parser that is  *)
(* not a global of the firmware starts with an arbitrary _curFrame.        *)
(***************************************************************************)
ParserInit ==
    /\ curState = "WAITING_START_SYMBOL"
    /\ flags \in Byte /\ opcode \in Byte /\ payload_size \in Byte
    /\ payload \in [0 .. FRAME_MAX_PAYLOAD_SIZE - 1 -> Byte]
    /\ curPayloadOffset = 0
    /\ buffer = << >> /\ crcBuffer = << >>
    /\ ret = FALSE
    /\ wire = << >>

WaitingStart(b) ==
    /\ curState = "WAITING_START_SYMBOL"
    /\ ret' = FALSE
    /\ IF b = START
       THEN curState' = "WAITING_FLAGS" /\ wire' = <<b>>
       ELSE UNCHANGED <<curState, wire>>
    /\ UNCHANGED <<frameVars, curPayloadOffset, buffer, crcBuffer>>

\* Mutant: the scratch buffer of a dropped frame is kept
WaitingFlagsNoReset(b) ==
    /\ curState = "WAITING_FLAGS"
    /\ curState' = "WAITING_OPCODE"
    /\ flags' = b
    /\ ret' = FALSE /\ wire' = Append(wire, b)
    /\ UNCHANGED <<opcode, payload_size, payload, curPayloadOffset, buffer, crcBuffer>>

WaitingFlags(b) ==
    /\ curState = "WAITING_FLAGS"
    /\ curState' = "WAITING_OPCODE"
    /\ flags' = b
    /\ buffer' = << >>
    /\ ret' = FALSE /\ wire' = Append(wire, b)
    /\ UNCHANGED <<opcode, payload_size, payload, curPayloadOffset, crcBuffer>>

WaitingOpcode(b) ==
    /\ curState = "WAITING_OPCODE"
    /\ curState' = "WAITING_PAYLOAD_SIZE"
    /\ opcode' = b
    /\ buffer' = Append(buffer, b)
    /\ ret' = FALSE /\ wire' = Append(wire, b)
    /\ UNCHANGED <<flags, payload_size, payload, curPayloadOffset, crcBuffer>>

WaitingPayloadSize(b) ==
    /\ curState = "WAITING_PAYLOAD_SIZE"
    /\ payload_size' = b
    /\ buffer' = Append(buffer, b)
    /\ IF b > 0
       THEN /\ curState' = "WAITING_PAYLOAD"
            /\ curPayloadOffset' = 0
            /\ UNCHANGED crcBuffer
       ELSE /\ curState' = "WAITING_CRC"
            /\ crcBuffer' = << >>
            /\ UNCHANGED curPayloadOffset
    /\ ret' = FALSE /\ wire' = Append(wire, b)
    /\ UNCHANGED <<flags, opcode, payload>>

\* Mutant: one payload byte too many
PayloadDoneLate(n) == n > payload_size

PayloadDone(n) == n >= payload_size

WaitingPayload(b) ==
    /\ curState = "WAITING_PAYLOAD"
    /\ buffer' = Append(buffer, b)
    /\ payload' = [payload EXCEPT ![curPayloadOffset] = b]
    /\ curPayloadOffset' = curPayloadOffset + 1
    /\ IF PayloadDone(curPayloadOffset')
       THEN curState' = "WAITING_CRC" /\ crcBuffer' = << >>
       ELSE UNCHANGED <<curState, crcBuffer>>
    /\ ret' = FALSE /\ wire' = Append(wire, b)
    /\ UNCHANGED <<flags, opcode, payload_size>>

\* Mutant: the checksum is not compared
ChecksumUnread(crc) == Len(buffer) > 0

ChecksumRight(crc) == Len(buffer) > 0 /\ crc = Crc(buffer)

\* A wrong checksum drops the frame; none of its bytes are looked at again.
WaitingCrc(b) ==
    /\ curState = "WAITING_CRC"
    /\ crcBuffer' = Append(crcBuffer, b)
    /\ curState' = IF Len(crcBuffer') < CrcSize THEN curState
                   ELSE IF ChecksumRight(crcBuffer')
                        THEN "WAITING_END_SYMBOL"
                        ELSE "WAITING_START_SYMBOL"
    /\ ret' = FALSE /\ wire' = Append(wire, b)
    /\ UNCHANGED <<frameVars, curPayloadOffset, buffer>>

\* Mutant: the frame ends at the start symbol of the next
IsStart(b) == b = START

IsEnd(b) == b = END

\* Any byte but the end symbol is ignored, for as long as it takes.
WaitingEnd(b) ==
    /\ curState = "WAITING_END_SYMBOL"
    /\ IF IsEnd(b)
       THEN /\ ret' = TRUE
            /\ curState' = "WAITING_START_SYMBOL"
            /\ curPayloadOffset' = 0 /\ buffer' = << >> /\ crcBuffer' = << >>
            /\ wire' = Append(wire, b)
       ELSE /\ ret' = FALSE
            /\ UNCHANGED <<curState, curPayloadOffset, buffer, crcBuffer, wire>>
    /\ UNCHANGED frameVars

addByte(b) == \/ WaitingStart(b)
              \/ WaitingFlags(b)
              \/ WaitingOpcode(b)
              \/ WaitingPayloadSize(b)
              \/ WaitingPayload(b)
              \/ WaitingCrc(b)
              \/ WaitingEnd(b)

ParserNext == \E b \in Byte : addByte(b)

ParserSpec == ParserInit /\ [][ParserNext]_parserVars
-----------------------------------------------------------------------------
\* No offset ever leaves the array it indexes (the type of the arrays).
ParserTypeOK ==
    /\ curState \in State
    /\ flags \in Byte /\ opcode \in Byte /\ payload_size \in Byte
    /\ payload \in [0 .. FRAME_MAX_PAYLOAD_SIZE - 1 -> Byte]
    /\ curPayloadOffset \in 0 .. FRAME_MAX_PAYLOAD_SIZE
    /\ buffer \in Seq(Byte) /\ Len(buffer) <= FRAME_MAX_PAYLOAD_SIZE + 8
    /\ crcBuffer \in Seq(Byte) /\ Len(crcBuffer) <= CrcSize
    /\ ret \in BOOLEAN
    /\ wire \in Seq(Byte)

\* Whatever the stream, addByte returns true only for a frame that some
\* frameToBuffer could have written: the accepted bytes are those of the frame
\* getFrame returns, its checksum included, so nothing of an earlier, dropped
\* frame is left in it.
OnlyEncodings ==
    ret => wire = frameToBuffer(getFrame, 7 + FRAME_MAX_PAYLOAD_SIZE)
=============================================================================
