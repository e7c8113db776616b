------------------------- MODULE FrameParserProofs -------------------------
(***************************************************************************)
(* FrameParser, for every byte size, every choice of the two symbols and   *)
(* every checksum function: it returns true only for encodings.            *)
(***************************************************************************)
EXTENDS FrameParser, SequenceTheorems, TLAPS

USE ByteAssumption

\* What is in the scratch buffer when n payload bytes of p are in.
Received(op, size, p, n) == <<op, size>> \o [i \in 1 .. n |-> p[i - 1]]

\* The bytes of the frame in progress, by state: the scratch buffers hold
\* exactly what was consumed since the start symbol, and the frame under
\* construction the same values.
WireShape ==
    /\ curState = "WAITING_FLAGS" => wire = <<START>>
    /\ curState = "WAITING_OPCODE" => wire = <<START, flags>> /\ buffer = << >>
    /\ curState = "WAITING_PAYLOAD_SIZE" =>
         wire = <<START, flags>> \o buffer /\ buffer = <<opcode>>
    /\ curState = "WAITING_PAYLOAD" =>
         /\ curPayloadOffset < payload_size
         /\ wire = <<START, flags>> \o buffer
         /\ buffer = Received(opcode, payload_size, payload, curPayloadOffset)
    /\ curState = "WAITING_CRC" =>
         /\ Len(crcBuffer) < CrcSize
         /\ wire = <<START, flags>> \o buffer \o crcBuffer
         /\ buffer = Received(opcode, payload_size, payload, payload_size)
    /\ curState = "WAITING_END_SYMBOL" =>
         /\ Len(crcBuffer) = CrcSize /\ crcBuffer = Crc(buffer)
         /\ wire = <<START, flags>> \o buffer \o crcBuffer
         /\ buffer = Received(opcode, payload_size, payload, payload_size)

IInv == ParserTypeOK /\ WireShape /\ OnlyEncodings
-----------------------------------------------------------------------------
\* Appending to the right-hand part of a concatenation.
LEMMA AppendRight ==
    ASSUME NEW s \in Seq(Byte), NEW t \in Seq(Byte), NEW e \in Byte
    PROVE  /\ Append(s \o t, e) = s \o Append(t, e)
           /\ Append(s, e) = s \o <<e>>
           /\ s \o t \in Seq(Byte) /\ Append(t, e) \in Seq(Byte)
           /\ s \o << >> = s
OBVIOUS

\* The same behind two parts.
LEMMA AppendThird ==
    ASSUME NEW s \in Seq(Byte), NEW t \in Seq(Byte), NEW u \in Seq(Byte), NEW e \in Byte
    PROVE  Append(s \o t \o u, e) = s \o t \o Append(u, e)
<1>1. s \o t \in Seq(Byte)
  OBVIOUS
<1> QED BY <1>1, AppendRight

\* Two bytes, one after the other.
LEMMA AppendPair ==
    ASSUME NEW a \in Byte, NEW b \in Byte
    PROVE  Append(<<a>>, b) = <<a, b>>
<1>1. <<a>> \in Seq(Byte) /\ Len(<<a>>) = 1 /\ <<a>>[1] = a
  OBVIOUS
<1>2. /\ Append(<<a>>, b) \in Seq(Byte) /\ Len(Append(<<a>>, b)) = 2
      /\ Append(<<a>>, b)[1] = a /\ Append(<<a>>, b)[2] = b
  BY <1>1
<1>3. <<a, b>> \in Seq(Byte) /\ Len(<<a, b>>) = 2 /\ <<a, b>>[1] = a /\ <<a, b>>[2] = b
  OBVIOUS
<1>4. \A i \in 1 .. 2 : Append(<<a>>, b)[i] = <<a, b>>[i]
  BY <1>2, <1>3
<1> QED BY <1>2, <1>3, <1>4, SeqEqual

\* One payload byte more.
LEMMA ReceivedNext ==
    ASSUME ParserTypeOK, NEW n \in 0 .. FRAME_MAX_PAYLOAD_SIZE - 1, NEW b \in Byte,
           payload' = [payload EXCEPT ![n] = b]
    PROVE  Received(opcode, payload_size, payload', n + 1)
             = Append(Received(opcode, payload_size, payload, n), b)
<1> DEFINE head == <<opcode, payload_size>>
           old  == [i \in 1 .. n |-> payload[i - 1]]
           new  == [i \in 1 .. n + 1 |-> payload'[i - 1]]
<1>1. n \in Nat /\ head \in Seq(Byte) /\ payload \in [0 .. FRAME_MAX_PAYLOAD_SIZE - 1 -> Byte]
  BY DEF ParserTypeOK
<1>2. \A i \in 1 .. n : payload[i - 1] \in Byte /\ payload'[i - 1] = payload[i - 1]
  BY <1>1 DEF FRAME_MAX_PAYLOAD_SIZE
<1>3. payload'[n] = b
  BY <1>1
<1>4. old \in Seq(Byte) /\ Len(old) = n
  BY <1>1, <1>2
<1>5. new = Append(old, b)
  BY <1>1, <1>2, <1>3, <1>4
<1>6. head \o Append(old, b) = Append(head \o old, b)
  BY <1>1, <1>4, AppendRight
<1>7. Received(opcode, payload_size, payload', n + 1) = head \o new
  BY DEF Received
<1> QED BY <1>5, <1>6, <1>7 DEF Received

\* Payload of a frame is what Received says when all of it is in.
LEMMA ReceivedAll == Received(opcode, payload_size, payload, payload_size) = Body(getFrame)
BY DEF Received, Body, Payload, getFrame

\* Initially nothing is in progress.
LEMMA InitIInv == ParserInit => IInv
<1> SUFFICES ASSUME ParserInit PROVE IInv
  OBVIOUS
<1>1. ParserTypeOK
  <2>1. curState \in State /\ curPayloadOffset \in 0 .. FRAME_MAX_PAYLOAD_SIZE
    BY DEF ParserInit, State, FRAME_MAX_PAYLOAD_SIZE
  <2>2. /\ buffer \in Seq(Byte) /\ Len(buffer) <= FRAME_MAX_PAYLOAD_SIZE + 8
        /\ crcBuffer \in Seq(Byte) /\ Len(crcBuffer) <= CrcSize /\ wire \in Seq(Byte)
    BY DEF ParserInit, FRAME_MAX_PAYLOAD_SIZE, CrcSize
  <2> QED BY <2>1, <2>2, Zenon DEF ParserInit, ParserTypeOK
<1>2. WireShape /\ OnlyEncodings
  BY DEF ParserInit, WireShape, OnlyEncodings
<1> QED BY <1>1, <1>2 DEF IInv

\* While a frame is in progress the scratch buffer is as long as its part of
\* the frame.
LEMMA BufferLength ==
    ASSUME ParserTypeOK, NEW n \in 0 .. FRAME_MAX_PAYLOAD_SIZE
    PROVE  Received(opcode, payload_size, payload, n) \in Seq(Byte) /\ Len(Received(opcode, payload_size, payload, n)) = n + 2
<1>0. /\ opcode \in Byte /\ payload_size \in Byte
      /\ payload \in [0 .. FRAME_MAX_PAYLOAD_SIZE - 1 -> Byte]
  BY DEF ParserTypeOK
<1>1. [i \in 1 .. n |-> payload[i - 1]] \in Seq(Byte)
  <2>1. \A i \in 1 .. n : payload[i - 1] \in Byte
    BY <1>0 DEF FRAME_MAX_PAYLOAD_SIZE
  <2> QED BY <2>1
<1> QED BY <1>0, <1>1 DEF Received

\* In every state the buffers are in use their lengths are those of the frame.
LEMMA Lengths ==
    ASSUME IInv
    PROVE  /\ curState = "WAITING_OPCODE" => Len(buffer) = 0
           /\ curState = "WAITING_PAYLOAD_SIZE" => Len(buffer) = 1
           /\ curState = "WAITING_PAYLOAD" =>
                /\ curPayloadOffset \in 0 .. FRAME_MAX_PAYLOAD_SIZE - 1
                /\ Len(buffer) = curPayloadOffset + 2
           /\ curState = "WAITING_CRC" => Len(crcBuffer) < CrcSize
<1>1. ParserTypeOK /\ WireShape
  BY DEF IInv
<1>2. CASE curState = "WAITING_PAYLOAD"
  <2>1. curPayloadOffset \in 0 .. FRAME_MAX_PAYLOAD_SIZE - 1
    <3>1. curPayloadOffset < payload_size /\ payload_size \in Byte
          /\ curPayloadOffset \in 0 .. FRAME_MAX_PAYLOAD_SIZE
      BY <1>1, <1>2 DEF WireShape, ParserTypeOK
    <3> QED BY <3>1 DEF Byte, FRAME_MAX_PAYLOAD_SIZE
  <2>2. curPayloadOffset \in 0 .. FRAME_MAX_PAYLOAD_SIZE
    BY <1>1 DEF ParserTypeOK
  <2>3. Len(buffer) = curPayloadOffset + 2
    BY <1>1, <1>2, <2>2, BufferLength DEF WireShape
  <2> QED BY <1>2, <2>1, <2>3
<1>3. CASE curState # "WAITING_PAYLOAD"
  BY <1>1, <1>3 DEF WireShape
<1> QED BY <1>2, <1>3

\* Every byte keeps the types.
LEMMA NextTypeOK == IInv /\ ParserNext => ParserTypeOK'
<1> SUFFICES ASSUME IInv, NEW b \in Byte, addByte(b) PROVE ParserTypeOK'
  BY DEF ParserNext
<1> DEFINE BytesOK == /\ flags \in Byte /\ opcode \in Byte /\ payload_size \in Byte
                      /\ payload \in [0 .. FRAME_MAX_PAYLOAD_SIZE - 1 -> Byte]
                      /\ wire \in Seq(Byte)
           BuffersOK == /\ curState \in State
                        /\ curPayloadOffset \in 0 .. FRAME_MAX_PAYLOAD_SIZE
                        /\ buffer \in Seq(Byte) /\ Len(buffer) <= FRAME_MAX_PAYLOAD_SIZE + 8
                        /\ crcBuffer \in Seq(Byte) /\ Len(crcBuffer) <= CrcSize
<1> USE DEF State, CrcSize
<1>0. BytesOK /\ BuffersOK
  BY DEF IInv, ParserTypeOK
<1>a. FRAME_MAX_PAYLOAD_SIZE \in Nat \ {0} /\ b \in Nat
  BY DEF FRAME_MAX_PAYLOAD_SIZE, Byte
<1>b. << >> \in Seq(Byte) /\ Len(<< >>) = 0
  OBVIOUS
<1>f. 0 <= CrcSize /\ 0 <= FRAME_MAX_PAYLOAD_SIZE + 8
  BY <1>a
<1>c. /\ buffer \in Seq(Byte) /\ Len(buffer) \in Nat /\ Len(buffer) <= FRAME_MAX_PAYLOAD_SIZE + 8
      /\ crcBuffer \in Seq(Byte) /\ Len(crcBuffer) <= CrcSize
      /\ Append(buffer, b) \in Seq(Byte) /\ Len(Append(buffer, b)) = Len(buffer) + 1
  BY <1>0
<1>d. \A s \in {crcBuffer, << >>} : s \in Seq(Byte) /\ Len(s) <= CrcSize
  BY <1>b, <1>f, <1>c, Zenon
<1>e. \A s \in {buffer, << >>} : s \in Seq(Byte) /\ Len(s) <= FRAME_MAX_PAYLOAD_SIZE + 8
  BY <1>b, <1>f, <1>c, Zenon
<1>1. ret' \in BOOLEAN
  BY Zenon DEF IInv, ParserTypeOK, addByte, WaitingStart, WaitingFlags, WaitingOpcode,
     WaitingPayloadSize, WaitingPayload, PayloadDone, WaitingCrc, ChecksumRight, WaitingEnd, IsEnd
<1>2. SUFFICES BytesOK' /\ BuffersOK'
  BY <1>1, Zenon DEF ParserTypeOK
<1>3. CASE WaitingStart(b)
  <2>1. /\ wire' \in {wire, <<b>>} /\ curState' \in {curState, "WAITING_FLAGS"}
        /\ UNCHANGED <<flags, opcode, payload_size, payload, curPayloadOffset, buffer, crcBuffer>>
    BY <1>3 DEF WaitingStart, frameVars
  <2>2. <<b>> \in Seq(Byte)
    OBVIOUS
  <2> QED BY <1>0, <2>1, <2>2
<1>4. CASE WaitingFlags(b)
  BY <1>0, <1>a, <1>4 DEF WaitingFlags
<1>5. CASE WaitingOpcode(b)
  BY <1>0, <1>a, <1>5, Lengths DEF WaitingOpcode
<1>6. CASE WaitingPayloadSize(b)
  <2>1. /\ payload_size' = b /\ UNCHANGED <<flags, opcode, payload>>
        /\ wire' = Append(wire, b) /\ buffer' = Append(buffer, b)
        /\ curState' \in {"WAITING_PAYLOAD", "WAITING_CRC"}
        /\ crcBuffer' \in {crcBuffer, << >>} /\ curPayloadOffset' \in {curPayloadOffset, 0}
    BY <1>6 DEF WaitingPayloadSize
  <2>2. Len(buffer) = 1
    BY <1>6, Lengths DEF WaitingPayloadSize
  <2>3. BytesOK'
    BY <1>0, <2>1
  <2>4. curState' \in State /\ curPayloadOffset' \in 0 .. FRAME_MAX_PAYLOAD_SIZE
    BY <1>0, <1>a, <2>1
  <2>5. buffer' \in Seq(Byte) /\ Len(buffer') = 2
    BY <1>c, <2>1, <2>2
  <2>6. crcBuffer' \in Seq(Byte) /\ Len(crcBuffer') <= CrcSize
    BY <1>d, <2>1, Zenon
  <2> QED BY <1>a, <2>3, <2>4, <2>5, <2>6
<1>7. CASE WaitingPayload(b)
  <2>1. /\ payload' = [payload EXCEPT ![curPayloadOffset] = b]
        /\ UNCHANGED <<flags, opcode, payload_size>>
        /\ wire' = Append(wire, b) /\ buffer' = Append(buffer, b)
        /\ curState' \in {"WAITING_PAYLOAD", "WAITING_CRC"}
        /\ crcBuffer' \in {crcBuffer, << >>} /\ curPayloadOffset' = curPayloadOffset + 1
    BY <1>7 DEF WaitingPayload, PayloadDone
  <2>2. /\ curPayloadOffset \in 0 .. FRAME_MAX_PAYLOAD_SIZE - 1
        /\ Len(buffer) = curPayloadOffset + 2
    BY <1>7, Lengths DEF WaitingPayload, PayloadDone
  <2>3. BytesOK'
    BY <1>0, <2>1, <2>2
  <2>4. curState' \in State /\ curPayloadOffset' \in 0 .. FRAME_MAX_PAYLOAD_SIZE
    BY <1>0, <1>a, <2>1, <2>2
  <2>5. buffer' \in Seq(Byte) /\ Len(buffer') = curPayloadOffset + 3
    BY <1>0, <2>1, <2>2
  <2>6. crcBuffer' \in Seq(Byte) /\ Len(crcBuffer') <= CrcSize
    BY <1>d, <2>1, Zenon
  <2> QED BY <1>a, <2>2, <2>3, <2>4, <2>5, <2>6
<1>8. CASE WaitingCrc(b)
  BY <1>0, <1>8, Lengths DEF WaitingCrc, ChecksumRight, frameVars
<1>9. CASE WaitingEnd(b)
  <2>1. /\ UNCHANGED <<flags, opcode, payload_size, payload>>
        /\ curState' \in {curState, "WAITING_START_SYMBOL"}
        /\ buffer' \in {buffer, << >>} /\ crcBuffer' \in {crcBuffer, << >>}
        /\ curPayloadOffset' \in {curPayloadOffset, 0}
    BY <1>9 DEF WaitingEnd, IsEnd, frameVars
  <2>2. wire' \in Seq(Byte)
    <3>1. CASE b = END
      BY <1>0, <1>9, <3>1 DEF WaitingEnd, IsEnd
    <3>2. CASE b # END
      BY <1>0, <1>9, <3>2 DEF WaitingEnd, IsEnd
    <3> QED BY <3>1, <3>2
  <2>3. BytesOK'
    BY <1>0, <2>1, <2>2
  <2>4. /\ buffer' \in Seq(Byte) /\ Len(buffer') <= FRAME_MAX_PAYLOAD_SIZE + 8
        /\ crcBuffer' \in Seq(Byte) /\ Len(crcBuffer') <= CrcSize
    BY <1>d, <1>e, <2>1, Zenon
  <2>5. curState' \in State /\ curPayloadOffset' \in 0 .. FRAME_MAX_PAYLOAD_SIZE
    BY <1>0, <1>a, <2>1
  <2> QED BY <2>3, <2>4, <2>5
<1> QED BY <1>3, <1>4, <1>5, <1>6, <1>7, <1>8, <1>9 DEF addByte

\* The end symbol completes the encoding of the frame getFrame returns.
LEMMA Complete ==
    ASSUME IInv, curState = "WAITING_END_SYMBOL"
    PROVE  Append(wire, END) = frameToBuffer(getFrame, 7 + FRAME_MAX_PAYLOAD_SIZE)
<1>1. /\ crcBuffer = Crc(buffer) /\ buffer = Body(getFrame)
      /\ wire = <<START, flags>> \o buffer \o crcBuffer
  BY ReceivedAll DEF IInv, WireShape
<1>2. wire \in Seq(Byte) /\ payload_size \in Byte
  BY DEF IInv, ParserTypeOK
<1>3. Append(wire, END) = wire \o <<END>>
  BY <1>2, AppendRight
<1>4. ~ (7 + FRAME_MAX_PAYLOAD_SIZE < 7 + payload_size)
  BY <1>2 DEF FRAME_MAX_PAYLOAD_SIZE, Byte
<1>5. getFrame.payload_size = payload_size /\ getFrame.flags = flags
  BY DEF getFrame
<1>6. frameToBuffer(getFrame, 7 + FRAME_MAX_PAYLOAD_SIZE)
        = <<START, getFrame.flags>> \o Body(getFrame) \o Crc(Body(getFrame)) \o <<END>>
  BY <1>4, <1>5 DEF frameToBuffer
<1> QED BY <1>1, <1>3, <1>5, <1>6

\* Every byte keeps the scratch buffers in step with the bytes consumed.
LEMMA NextShape == IInv /\ ParserNext => WireShape' /\ OnlyEncodings'
<1> SUFFICES ASSUME IInv, NEW b \in Byte, addByte(b) PROVE WireShape' /\ OnlyEncodings'
  BY DEF ParserNext
<1>0. /\ ParserTypeOK /\ WireShape /\ OnlyEncodings
      /\ flags \in Byte /\ opcode \in Byte /\ payload_size \in Byte
      /\ buffer \in Seq(Byte) /\ crcBuffer \in Seq(Byte) /\ wire \in Seq(Byte)
  BY DEF IInv, ParserTypeOK
<1>1. CASE WaitingStart(b)
  <2>1. /\ ret' = FALSE
        /\ \/ curState' = "WAITING_FLAGS" /\ wire' = <<START>>
           \/ curState' = "WAITING_START_SYMBOL"
    BY <1>1 DEF WaitingStart
  <2> QED BY <2>1 DEF WireShape, OnlyEncodings
<1>2. CASE WaitingFlags(b)
  <2>1. wire' = <<START, flags'>>
    <3>1. wire = <<START>> /\ wire' = Append(wire, b) /\ flags' = b
      BY <1>0, <1>2 DEF WaitingFlags, WireShape
    <3> QED BY <3>1, AppendPair
  <2> QED BY <1>2, <2>1 DEF WaitingFlags, WireShape, OnlyEncodings
<1>3. CASE WaitingOpcode(b)
  <2>1. wire' = <<START, flags>> \o <<b>> /\ buffer' = <<b>>
    <3>1. /\ wire = <<START, flags>> /\ wire' = Append(wire, b)
          /\ buffer = << >> /\ buffer' = Append(buffer, b)
      BY <1>0, <1>3 DEF WaitingOpcode, WireShape
    <3> QED BY <3>1
  <2> QED BY <1>3, <2>1 DEF WaitingOpcode, WireShape, OnlyEncodings
<1>4. CASE WaitingPayloadSize(b)
  <2>1. /\ buffer' = <<opcode, b>> /\ wire' = <<START, flags>> \o buffer'
        /\ wire' \in Seq(Byte)
    <3>1. buffer = <<opcode>> /\ wire = <<START, flags>> \o buffer
      BY <1>0, <1>4 DEF WaitingPayloadSize, WireShape
    <3>2. wire' = Append(wire, b) /\ buffer' = Append(buffer, b)
      BY <1>4 DEF WaitingPayloadSize
    <3>3. Append(<<opcode>>, b) = <<opcode, b>> /\ Append(wire, b) \in Seq(Byte)
      <4>1. Append(wire, b) \in Seq(Byte)
        BY <1>0
      <4> QED BY <1>0, <4>1, AppendPair
    <3>4. <<START, flags>> \in Seq(Byte)
      BY <1>0
    <3>5. Append(<<START, flags>> \o buffer, b) = <<START, flags>> \o Append(buffer, b)
      BY <1>0, <3>4, AppendRight
    <3> QED BY <3>1, <3>2, <3>3, <3>5
  <2>2. Received(opcode', payload_size', payload', 0) = buffer'
    <3>1. [i \in 1 .. 0 |-> payload'[i - 1]] = << >>
      OBVIOUS
    <3>2. opcode' = opcode /\ payload_size' = b
      BY <1>4 DEF WaitingPayloadSize
    <3> QED BY <1>0, <2>1, <3>1, <3>2 DEF Received
  <2>3. CASE b > 0
    <3>1. /\ curState' = "WAITING_PAYLOAD" /\ ret' = FALSE
          /\ curPayloadOffset' = 0 /\ payload_size' = b /\ flags' = flags
      BY <1>4, <2>3 DEF WaitingPayloadSize
    <3>2. curPayloadOffset' < payload_size'
      BY <2>3, <3>1
    <3> QED BY <2>1, <2>2, <3>1, <3>2 DEF WireShape, OnlyEncodings
  <2>4. CASE b = 0
    <3>1. /\ curState' = "WAITING_CRC" /\ ret' = FALSE
          /\ crcBuffer' = << >> /\ payload_size' = 0
      BY <1>4, <2>4 DEF WaitingPayloadSize
    <3>2. wire' = <<START, flags>> \o buffer' \o << >> /\ flags' = flags
      BY <1>0, <1>4, <2>1, AppendRight DEF WaitingPayloadSize
    <3>3. Len(crcBuffer') < CrcSize
      BY <3>1 DEF CrcSize
    <3>4. buffer' = Received(opcode', payload_size', payload', payload_size')
      BY <2>2, <3>1
    <3> QED BY <3>1, <3>2, <3>3, <3>4 DEF WireShape, OnlyEncodings
  <2> QED BY <2>3, <2>4 DEF Byte
<1>5. CASE WaitingPayload(b)
  <2>1. /\ curPayloadOffset < payload_size /\ curPayloadOffset \in 0 .. FRAME_MAX_PAYLOAD_SIZE - 1
        /\ wire = <<START, flags>> \o buffer /\ buffer = Received(opcode, payload_size, payload, curPayloadOffset)
    BY <1>0, <1>5, Lengths DEF WaitingPayload, PayloadDone, WireShape
  <2>2. buffer' = Received(opcode, payload_size, payload', curPayloadOffset + 1)
    <3>1. buffer' = Append(buffer, b) /\ payload' = [payload EXCEPT ![curPayloadOffset] = b]
      BY <1>5 DEF WaitingPayload, PayloadDone
    <3> QED BY <1>0, <2>1, <3>1, ReceivedNext
  <2>3. wire' = <<START, flags>> \o buffer' /\ buffer' \in Seq(Byte)
    BY <1>0, <1>5, <2>1, AppendRight DEF WaitingPayload, PayloadDone
  <2>4. CASE curPayloadOffset + 1 >= payload_size
    <3>1. curPayloadOffset + 1 = payload_size
      BY <1>0, <2>1, <2>4 DEF Byte, FRAME_MAX_PAYLOAD_SIZE
    <3>2. /\ curState' = "WAITING_CRC" /\ ret' = FALSE /\ crcBuffer' = << >>
          /\ payload_size' = payload_size /\ flags' = flags /\ opcode' = opcode
      BY <1>5, <2>4 DEF WaitingPayload, PayloadDone
    <3>3. wire' = <<START, flags>> \o buffer' \o << >>
      BY <1>0, <2>3, AppendRight
    <3>4. Len(crcBuffer') < CrcSize
      BY <3>2 DEF CrcSize
    <3> QED BY <2>2, <3>1, <3>2, <3>3, <3>4 DEF WireShape, OnlyEncodings
  <2>5. CASE ~ (curPayloadOffset + 1 >= payload_size)
    <3>1. /\ curState' = "WAITING_PAYLOAD" /\ ret' = FALSE
          /\ curPayloadOffset' = curPayloadOffset + 1
          /\ payload_size' = payload_size /\ flags' = flags /\ opcode' = opcode
      BY <1>5, <2>5 DEF WaitingPayload, PayloadDone
    <3>2. curPayloadOffset' < payload_size'
      BY <1>0, <2>1, <2>5, <3>1 DEF Byte, FRAME_MAX_PAYLOAD_SIZE
    <3> QED BY <2>2, <2>3, <3>1, <3>2 DEF WireShape, OnlyEncodings
  <2> QED BY <2>4, <2>5
<1>6. CASE WaitingCrc(b)
  <2>1. /\ wire = <<START, flags>> \o buffer \o crcBuffer /\ Len(crcBuffer) < CrcSize
        /\ buffer = Received(opcode, payload_size, payload, payload_size)
    BY <1>0, <1>6 DEF WaitingCrc, ChecksumRight, WireShape
  <2>2. /\ ret' = FALSE /\ crcBuffer' = Append(crcBuffer, b) /\ wire' = Append(wire, b)
        /\ UNCHANGED <<flags, opcode, payload_size, payload, buffer>>
        /\ \/ curState' = "WAITING_CRC" /\ Len(crcBuffer') < CrcSize
           \/ /\ curState' = "WAITING_END_SYMBOL" /\ crcBuffer' = Crc(buffer)
              /\ ~(Len(crcBuffer') < CrcSize)
           \/ curState' = "WAITING_START_SYMBOL"
    BY <1>6 DEF WaitingCrc, ChecksumRight, frameVars
  <2>3. wire' = <<START, flags>> \o buffer \o crcBuffer'
    <3>1. <<START, flags>> \in Seq(Byte)
      BY <1>0
    <3>2. Append(<<START, flags>> \o buffer \o crcBuffer, b)
            = <<START, flags>> \o buffer \o Append(crcBuffer, b)
      <4>1. buffer \in Seq(Byte) /\ crcBuffer \in Seq(Byte) /\ b \in Byte
        BY <1>0
      <4> QED BY ONLY <3>1, <4>1, AppendThird
    <3>3. wire = <<START, flags>> \o buffer \o crcBuffer
      BY <2>1
    <3>4. crcBuffer' = Append(crcBuffer, b) /\ wire' = Append(wire, b)
      BY <2>2
    <3> QED BY <3>2, <3>3, <3>4, Zenon
  <2>4. ~(Len(crcBuffer') < CrcSize) => Len(crcBuffer') = CrcSize
    BY <1>0, <2>1, <2>2 DEF CrcSize
  <2> QED BY <2>1, <2>2, <2>3, <2>4 DEF WireShape, OnlyEncodings
<1>7. CASE WaitingEnd(b)
  <2>1. UNCHANGED <<flags, opcode, payload_size, payload>> /\ curState = "WAITING_END_SYMBOL"
    BY <1>7 DEF WaitingEnd, IsEnd, frameVars
  <2>2. CASE b = END
    <3>1. ret' = TRUE /\ curState' = "WAITING_START_SYMBOL" /\ wire' = Append(wire, END)
      BY <1>7, <2>2 DEF WaitingEnd, IsEnd
    <3>2. getFrame' = getFrame
      BY <2>1 DEF getFrame
    <3>3. wire' = frameToBuffer(getFrame, 7 + FRAME_MAX_PAYLOAD_SIZE)
      BY <2>1, <3>1, Complete
    <3> QED BY <3>1, <3>2, <3>3 DEF WireShape, OnlyEncodings
  <2>3. CASE b # END
    <3>1. /\ ret' = FALSE /\ curState' = curState
          /\ UNCHANGED <<buffer, crcBuffer, wire>>
      BY <1>7, <2>3 DEF WaitingEnd, IsEnd
    <3> QED BY <1>0, <2>1, <3>1 DEF WireShape, OnlyEncodings
  <2> QED BY <2>2, <2>3
<1> QED BY <1>1, <1>2, <1>3, <1>4, <1>5, <1>6, <1>7 DEF addByte

\* A step that changes nothing changes no part of the invariant.
LEMMA StutterIInv == IInv /\ UNCHANGED parserVars => IInv'
<1> SUFFICES ASSUME IInv, UNCHANGED parserVars PROVE IInv'
  OBVIOUS
<1>1. ParserTypeOK' /\ WireShape' /\ OnlyEncodings'
  BY DEF parserVars, frameVars, IInv, ParserTypeOK, WireShape, OnlyEncodings, Received, getFrame
<1> QED BY <1>1 DEF IInv

\* The inductive invariant of the parser.
THEOREM Invariance == ParserSpec => []IInv
<1>1. IInv /\ [ParserNext]_parserVars => IInv'
  BY NextTypeOK, NextShape, StutterIInv DEF IInv
<1> QED BY <1>1, InitIInv, PTL DEF ParserSpec

\* No stream of bytes makes the parser leave its arrays.
THEOREM TypeCorrect == ParserSpec => []ParserTypeOK
<1>1. IInv => ParserTypeOK
  BY DEF IInv
<1> QED BY <1>1, Invariance, PTL

\* Whatever the stream and whatever the checksum, the parser returns true only
\* for the bytes some call of frameToBuffer would write for the frame it returns.
THEOREM Soundness == ParserSpec => []OnlyEncodings
<1>1. IInv => OnlyEncodings
  BY DEF IInv
<1> QED BY <1>1, Invariance, PTL
=============================================================================
