------------------------------- MODULE Frame -------------------------------
(***************************************************************************)
(* The wire format of common/frame.h: a Frame and the bytes frameToBuffer  *)
(* makes of it.  A byte is a natural number below ByteMax + 1; the program *)
(* has ByteMax = 255, START = 0xBE, END = 0xEF and Crc = the CCITT CRC of  *)
(* CRC16.tla.  The program's payload array has FRAME_MAX_PAYLOAD_SIZE =    *)
(* ByteMax elements, one for every size a size byte can announce.          *)
(***************************************************************************)
EXTENDS Naturals, Sequences

CONSTANTS ByteMax, START, END,
          Crc(_)          \* the two checksum bytes of a sequence of bytes

Byte == 0 .. ByteMax

ASSUME ByteAssumption == /\ ByteMax \in Nat \ {0}
                         /\ START \in Byte
                         /\ END \in Byte

FRAME_MAX_PAYLOAD_SIZE == ByteMax

\* Only the first payload_size elements of the payload array travel.
Frame == [flags : Byte, opcode : Byte, payload_size : Byte,
          payload : [0 .. FRAME_MAX_PAYLOAD_SIZE - 1 -> Byte]]

Payload(f) == [i \in 1 .. f.payload_size |-> f.payload[i - 1]]

\* What the checksum covers: OPCODE, SIZE and the payload, not the flags.
Body(f) == <<f.opcode, f.payload_size>> \o Payload(f)

\* Mutant: the sender's checksum begins at the size byte
frameToBufferFromSize(f, bufferSize) ==
    IF bufferSize < 7 + f.payload_size
    THEN << >>
    ELSE <<START, f.flags>> \o Body(f) \o Crc(Tail(Body(f))) \o <<END>>

\* The bytes of f in a caller's buffer of bufferSize bytes; a frame that does
\* not fit is not written at all (the function returns 0).
frameToBuffer(f, bufferSize) ==
    IF bufferSize < 7 + f.payload_size
    THEN << >>
    ELSE <<START, f.flags>> \o Body(f) \o Crc(Body(f)) \o <<END>>

\* createFrame: a payload too long for the array is dropped altogether.  Nobody
\* asks it for the encryption flag.
createFrame(opcode, flags, payload, rest) ==
    LET size == IF Len(payload) <= FRAME_MAX_PAYLOAD_SIZE THEN Len(payload) ELSE 0
    IN  [flags |-> flags, opcode |-> opcode, payload_size |-> size,
         payload |-> [i \in 0 .. FRAME_MAX_PAYLOAD_SIZE - 1 |->
                        IF i < size THEN payload[i + 1] ELSE rest]]
=============================================================================
