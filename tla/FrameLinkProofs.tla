-------------------------- MODULE FrameLinkProofs --------------------------
(***************************************************************************)
(* A line without faults between a sender and a FrameParser, for every     *)
(* byte size, choice of the two symbols, checksum of two bytes and list of *)
(* messages that fit the buffer: what is sent is delivered, in order.      *)
(***************************************************************************)
EXTENDS FrameLink, FrameParserProofs

USE ByteAssumption

\* The sequences s and t, one behind the other, are e.
Split(s, t, e) ==
    /\ Len(s) + Len(t) = Len(e)
    /\ \A n \in 1 .. Len(s) : s[n] = e[n]
    /\ \A n \in 1 .. Len(t) : t[n] = e[Len(s) + n]

LinkTypeOK ==
    /\ sent \in 0 .. Len(Messages)
    /\ channel \in Seq(Byte)
    /\ faults \in Nat
    /\ delivered \in Seq(Frame)

\* Between two frames the parser waits for the start of the next; within a frame it
\* has consumed, into wire, what is not on the line any more.
OnTrack ==
    /\ curState = "WAITING_START_SYMBOL" =>
         channel = << >> \/ (sent > 0 /\ channel = Encodings[sent])
    /\ curState # "WAITING_START_SYMBOL" =>
         sent > 0 /\ Split(wire, channel, Encodings[sent])

AllDelivered ==
    /\ Len(delivered) = IF channel = << >> THEN sent ELSE sent - 1
    /\ \A i \in 1 .. Len(delivered) : Message(delivered[i]) = Messages[i]

LinkInv == IInv /\ LinkTypeOK /\ (faults = 0 => OnTrack /\ AllDelivered)
-----------------------------------------------------------------------------
\* One more byte changes hands.
LEMMA SplitStep ==
    ASSUME NEW s \in Seq(Byte), NEW t \in Seq(Byte), NEW e \in Seq(Byte),
           Split(s, t, e), t # << >>
    PROVE  /\ Len(s) + 1 \in 1 .. Len(e) /\ Head(t) = e[Len(s) + 1]
           /\ Split(Append(s, Head(t)), Tail(t), e)
<1> DEFINE a == Append(s, Head(t))
           r == Tail(t)
<1>1. /\ Len(a) = Len(s) + 1 /\ a[Len(s) + 1] = Head(t)
      /\ \A n \in 1 .. Len(s) : a[n] = s[n]
      /\ Len(t) = Len(r) + 1 /\ Head(t) = t[1] /\ Len(s) \in Nat /\ Len(r) \in Nat
      /\ \A n \in 1 .. Len(r) : r[n] = t[n + 1]
  OBVIOUS
<1> HIDE DEF a, r
<1>2. Len(s) + 1 \in 1 .. Len(e) /\ Head(t) = e[Len(s) + 1]
  BY <1>1 DEF Split
<1>3. \A n \in 1 .. Len(a) : a[n] = e[n]
  <2>1. ASSUME NEW n \in 1 .. Len(a) PROVE a[n] = e[n]
    <3>1. n \in 1 .. Len(s) \/ n = Len(s) + 1
      BY <1>1
    <3> QED BY <1>1, <1>2, <3>1 DEF Split
  <2> QED BY <2>1
<1>4. ASSUME NEW n \in 1 .. Len(r) PROVE r[n] = e[Len(a) + n]
  <2>1. n + 1 \in 1 .. Len(t) /\ Len(s) + (n + 1) = Len(a) + n
    BY <1>1
  <2>2. t[n + 1] = e[Len(s) + (n + 1)]
    BY <2>1 DEF Split
  <2> QED BY <1>1, <2>1, <2>2
<1>5. Len(a) + Len(r) = Len(e)
  BY <1>1 DEF Split
<1> QED BY <1>2, <1>3, <1>4, <1>5 DEF Split, a, r

\* Two bytes are a sequence.
LEMMA PairIsSequence == ASSUME NEW c \in Byte \X Byte PROVE c \in Seq(Byte) /\ Len(c) = 2
<1>1. PICK x \in Byte, y \in Byte : c = <<x, y>>
  OBVIOUS
<1> QED BY <1>1

\* A byte in a concatenation is one of the first part or of the second.
LEMMA ConcatByte ==
    ASSUME NEW s \in Seq(Byte), NEW t \in Seq(Byte)
    PROVE  /\ s \o t \in Seq(Byte) /\ Len(s \o t) = Len(s) + Len(t)
           /\ \A n \in 1 .. Len(s) : (s \o t)[n] = s[n]
           /\ \A n \in 1 .. Len(t) : (s \o t)[Len(s) + n] = t[n]
OBVIOUS

\* The messages that are sent, and where their parts are in the encodings.
LEMMA Layout ==
    ASSUME NEW i \in 1 .. Len(Messages)
    PROVE  LET m    == Messages[i]
               e    == Encodings[i]
               size == Len(m[2])
               c    == Crc(Body(FrameOf(m)))
           IN  /\ m \in Byte \X Seq(Byte) /\ size \in Byte
               /\ e \in Seq(Byte) /\ Len(e) = 7 + size
               /\ Body(FrameOf(m)) = <<m[1], size>> \o m[2]
               /\ c \in Byte \X Byte
               /\ e[1] = START /\ e[3] = m[1] /\ e[4] = size
               /\ \A k \in 1 .. size : e[4 + k] = m[2][k]
               /\ e[5 + size] = c[1] /\ e[6 + size] = c[2] /\ e[7 + size] = END
<1> DEFINE m    == Messages[i]
           op   == m[1]
           p    == m[2]
           size == Len(p)
           f    == FrameOf(m)
           c    == Crc(Body(f))
           e    == Encodings[i]
<1>1. m \in Byte \X Seq(Byte)
  BY LinkAssumption
<1>2. op \in Byte /\ p \in Seq(Byte) /\ size \in Nat /\ m = <<op, p>>
  BY <1>1
<1>3. size <= FRAME_MAX_PAYLOAD_SIZE /\ 7 + size <= BufferSize /\ BufferSize \in Nat
      /\ c \in Byte \X Byte
  BY LinkAssumption
<1>4. size \in Byte /\ START \in Byte /\ END \in Byte /\ 0 \in Byte /\ FRAME_MAX_PAYLOAD_SIZE \in Nat
  BY <1>2, <1>3 DEF Byte, FRAME_MAX_PAYLOAD_SIZE
<1> HIDE DEF m, e
<1>5. f = [flags |-> 0, opcode |-> op, payload_size |-> size,
           payload |-> [k \in 0 .. FRAME_MAX_PAYLOAD_SIZE - 1 |-> IF k < size THEN p[k + 1] ELSE 0]]
  BY <1>3 DEF FrameOf, createFrame
<1>a. f.flags = 0 /\ f.opcode = op /\ f.payload_size = size
  BY <1>5
<1>6. Payload(f) = p
  <2>1. Payload(f) = [k \in 1 .. size |-> p[k]]
    <3>1. ASSUME NEW k \in 1 .. size PROVE f.payload[k - 1] = p[k]
      <4>1. k - 1 \in 0 .. FRAME_MAX_PAYLOAD_SIZE - 1 /\ k - 1 < size /\ (k - 1) + 1 = k
        BY <1>2, <1>3, <1>4
      <4> QED BY <1>5, <4>1
    <3> QED BY <1>a, <3>1 DEF Payload
  <2> QED BY <1>2, <2>1
<1>7. Body(f) = <<op, size>> \o p
  BY <1>6, <1>a DEF Body
<1> DEFINE b == <<op, size>> \o p
           h == <<START, 0>>
<1>8. /\ b \in Seq(Byte) /\ Len(b) = 2 + size /\ b[1] = op /\ b[2] = size
      /\ \A k \in 1 .. size : b[2 + k] = p[k]
  BY <1>2, <1>4
<1>9. c \in Seq(Byte) /\ Len(c) = 2
  BY <1>3, PairIsSequence
<1>10. e = h \o b \o c \o <<END>>
  <2>1. e = frameToBuffer(f, BufferSize)
    BY DEF e, m, Encodings
  <2>2. ~(BufferSize < 7 + f.payload_size) /\ f.flags = 0
    BY <1>2, <1>3, <1>a
  <2> QED BY <1>7, <2>1, <2>2 DEF frameToBuffer
<1> HIDE DEF b, c
<1> DEFINE hb == h \o b
           hbc == hb \o c
<1>11. h \in Seq(Byte) /\ Len(h) = 2 /\ h[1] = START
  BY <1>4
<1>12. /\ hb \in Seq(Byte) /\ Len(hb) = 4 + size /\ hb[1] = START
       /\ \A k \in 1 .. 2 + size : hb[2 + k] = b[k]
  <2>1. /\ hb \in Seq(Byte) /\ Len(hb) = Len(h) + Len(b)
        /\ \A k \in 1 .. Len(h) : hb[k] = h[k]
        /\ \A k \in 1 .. Len(b) : hb[Len(h) + k] = b[k]
    BY <1>8, <1>11, ConcatByte
  <2> QED BY <1>2, <1>8, <1>11, <2>1
<1> HIDE DEF h, hb
<1>13. /\ hbc \in Seq(Byte) /\ Len(hbc) = 6 + size
       /\ \A k \in 1 .. 4 + size : hbc[k] = hb[k]
       /\ hbc[5 + size] = c[1] /\ hbc[6 + size] = c[2]
  <2>1. /\ hbc \in Seq(Byte) /\ Len(hbc) = Len(hb) + Len(c)
        /\ \A k \in 1 .. Len(hb) : hbc[k] = hb[k]
        /\ \A k \in 1 .. Len(c) : hbc[Len(hb) + k] = c[k]
    BY <1>9, <1>12, ConcatByte
  <2>2. Len(hb) + 1 = 5 + size /\ Len(hb) + 2 = 6 + size
    BY <1>2, <1>12
  <2>3. hbc[Len(hb) + 1] = c[1] /\ hbc[Len(hb) + 2] = c[2]
    BY <1>9, <2>1
  <2> QED BY <1>2, <1>9, <1>12, <2>1, <2>2, <2>3
<1> HIDE DEF hbc
<1>14. /\ e \in Seq(Byte) /\ Len(e) = 7 + size
       /\ \A k \in 1 .. 6 + size : e[k] = hbc[k]
       /\ e[7 + size] = END
  <2>1. <<END>> \in Seq(Byte) /\ Len(<<END>>) = 1 /\ <<END>>[1] = END
    BY <1>4
  <2>2. e = hbc \o <<END>>
    BY <1>10 DEF hbc, hb
  <2>3. /\ e \in Seq(Byte) /\ Len(e) = Len(hbc) + 1
        /\ \A k \in 1 .. Len(hbc) : e[k] = hbc[k]
        /\ e[Len(hbc) + 1] = END
    BY <1>13, <2>1, <2>2, ConcatByte
  <2> QED BY <1>2, <1>13, <2>3
<1>15. e[1] = START /\ e[3] = op /\ e[4] = size
  <2>1. 1 \in 1 .. 2 + size /\ 2 \in 1 .. 2 + size /\ 2 + 1 = 3 /\ 2 + 2 = 4
    BY <1>2
  <2>2. hb[3] = op /\ hb[4] = size
    BY <1>8, <1>12, <2>1
  <2>3. \A k \in {1, 3, 4} : k \in 1 .. 4 + size /\ k \in 1 .. 6 + size
    BY <1>2
  <2> QED BY <1>12, <1>13, <1>14, <2>2, <2>3
<1>16. ASSUME NEW k \in 1 .. size PROVE e[4 + k] = p[k]
  <2>1. 2 + k \in 1 .. Len(b) /\ 2 + (2 + k) = 4 + k /\ 4 + k \in 1 .. 4 + size /\ 4 + k \in 1 .. 6 + size
    BY <1>2, <1>8
  <2>2. hb[4 + k] = b[2 + k]
    BY <1>12, <2>1
  <2> QED BY <1>8, <1>13, <1>14, <2>1, <2>2
<1>17. e[5 + size] = c[1] /\ e[6 + size] = c[2]
  <2>1. 5 + size \in 1 .. 6 + size /\ 6 + size \in 1 .. 6 + size
    BY <1>2
  <2> QED BY <1>13, <1>14, <2>1
<1> QED BY <1>1, <1>3, <1>4, <1>7, <1>14, <1>15, <1>16, <1>17 DEF m, e, c, b
-----------------------------------------------------------------------------
\* What the parser has consumed of a frame when n bytes of its payload are in.
LEMMA Consumed ==
    ASSUME ParserTypeOK, NEW n \in 0 .. FRAME_MAX_PAYLOAD_SIZE
    PROVE  LET w == <<START, flags>> \o Received(opcode, payload_size, payload, n)
           IN  /\ w \in Seq(Byte) /\ Len(w) = 4 + n
               /\ w[3] = opcode /\ w[4] = payload_size
               /\ \A k \in 1 .. n : w[4 + k] = payload[k - 1]
<1> DEFINE p == [k \in 1 .. n |-> payload[k - 1]]
           g == <<opcode, payload_size>>
           h == <<START, flags>>
           r == g \o p
           w == h \o r
<1>1. /\ flags \in Byte /\ opcode \in Byte /\ payload_size \in Byte /\ START \in Byte
      /\ payload \in [0 .. FRAME_MAX_PAYLOAD_SIZE - 1 -> Byte]
      /\ FRAME_MAX_PAYLOAD_SIZE \in Nat /\ n \in Nat
  BY DEF ParserTypeOK, FRAME_MAX_PAYLOAD_SIZE
<1>2. p \in Seq(Byte) /\ Len(p) = n /\ \A k \in 1 .. n : p[k] = payload[k - 1]
  <2>1. ASSUME NEW k \in 1 .. n PROVE payload[k - 1] \in Byte
    <3>1. k - 1 \in 0 .. FRAME_MAX_PAYLOAD_SIZE - 1
      BY <1>1
    <3> QED BY <1>1, <3>1
  <2> QED BY <1>1, <2>1
<1>3. /\ g \in Seq(Byte) /\ Len(g) = 2 /\ g[1] = opcode /\ g[2] = payload_size
      /\ h \in Seq(Byte) /\ Len(h) = 2
  BY <1>1
<1>4. Received(opcode, payload_size, payload, n) = r
  BY DEF Received
<1> HIDE DEF p, g, h
<1>5. /\ r \in Seq(Byte) /\ Len(r) = 2 + n /\ r[1] = opcode /\ r[2] = payload_size
      /\ \A k \in 1 .. n : r[2 + k] = payload[k - 1]
  <2>1. /\ r \in Seq(Byte) /\ Len(r) = Len(g) + Len(p)
        /\ \A k \in 1 .. Len(g) : r[k] = g[k]
        /\ \A k \in 1 .. Len(p) : r[Len(g) + k] = p[k]
    BY <1>2, <1>3, ConcatByte
  <2> QED BY <1>1, <1>2, <1>3, <2>1
<1> HIDE DEF r
<1>6. /\ w \in Seq(Byte) /\ Len(w) = 4 + n
      /\ \A k \in 1 .. 2 + n : w[2 + k] = r[k]
  <2>1. /\ w \in Seq(Byte) /\ Len(w) = Len(h) + Len(r)
        /\ \A k \in 1 .. Len(r) : w[Len(h) + k] = r[k]
    BY <1>3, <1>5, ConcatByte
  <2> QED BY <1>1, <1>3, <1>5, <2>1
<1>7. w[3] = opcode /\ w[4] = payload_size
  <2>1. 1 \in 1 .. 2 + n /\ 2 \in 1 .. 2 + n /\ 2 + 1 = 3 /\ 2 + 2 = 4
    BY <1>1
  <2> QED BY <1>5, <1>6, <2>1
<1>8. ASSUME NEW k \in 1 .. n PROVE w[4 + k] = payload[k - 1]
  <2>1. 2 + k \in 1 .. 2 + n /\ 2 + (2 + k) = 4 + k
    BY <1>1
  <2> QED BY <1>5, <1>6, <2>1
<1> QED BY <1>4, <1>6, <1>7, <1>8 DEF h

\* The same, by the parser's state.
LEMMA Within ==
    ASSUME IInv
    PROVE  /\ curState = "WAITING_FLAGS" => Len(wire) = 1
           /\ curState = "WAITING_OPCODE" => Len(wire) = 2
           /\ curState = "WAITING_PAYLOAD_SIZE" => Len(wire) = 3
           /\ curState = "WAITING_PAYLOAD" =>
                /\ Len(wire) = 4 + curPayloadOffset /\ curPayloadOffset < payload_size
                /\ wire[4] = payload_size
           /\ curState \in {"WAITING_CRC", "WAITING_END_SYMBOL"} =>
                /\ Len(wire) = 4 + payload_size + Len(crcBuffer)
                /\ wire[3] = opcode /\ wire[4] = payload_size
                /\ \A k \in 1 .. payload_size : wire[4 + k] = payload[k - 1]
                /\ \A k \in 1 .. Len(crcBuffer) : wire[4 + payload_size + k] = crcBuffer[k]
<1>1. /\ ParserTypeOK /\ WireShape
      /\ flags \in Byte /\ opcode \in Byte /\ START \in Byte /\ crcBuffer \in Seq(Byte)
      /\ payload_size \in 0 .. FRAME_MAX_PAYLOAD_SIZE
      /\ curPayloadOffset \in 0 .. FRAME_MAX_PAYLOAD_SIZE
  <2>1. ParserTypeOK /\ WireShape
    BY DEF IInv
  <2> QED BY <2>1 DEF ParserTypeOK, FRAME_MAX_PAYLOAD_SIZE, Byte
<1>2. CASE curState \in {"WAITING_FLAGS", "WAITING_OPCODE", "WAITING_PAYLOAD_SIZE"}
  <2>1. CASE curState = "WAITING_FLAGS"
    BY <1>1, <2>1 DEF WireShape
  <2>2. CASE curState = "WAITING_OPCODE"
    BY <1>1, <2>2 DEF WireShape
  <2>3. CASE curState = "WAITING_PAYLOAD_SIZE"
    <3>1. wire = <<START, flags>> \o <<opcode>>
      BY <1>1, <2>3 DEF WireShape
    <3> QED BY <1>1, <2>3, <3>1
  <2> QED BY <1>2, <2>1, <2>2, <2>3
<1>3. CASE curState = "WAITING_PAYLOAD"
  <2>1. /\ wire = <<START, flags>> \o Received(opcode, payload_size, payload, curPayloadOffset)
        /\ curPayloadOffset < payload_size
    BY <1>1, <1>3 DEF WireShape
  <2>2. Len(wire) = 4 + curPayloadOffset /\ wire[4] = payload_size
    BY <1>1, <2>1, Consumed
  <2> QED BY <1>3, <2>1, <2>2
<1>4. CASE curState \in {"WAITING_CRC", "WAITING_END_SYMBOL"}
  <2> DEFINE w == <<START, flags>> \o Received(opcode, payload_size, payload, payload_size)
  <2>1. wire = w \o crcBuffer
    BY <1>1, <1>4 DEF WireShape
  <2>2. /\ w \in Seq(Byte) /\ Len(w) = 4 + payload_size
        /\ w[3] = opcode /\ w[4] = payload_size
        /\ \A k \in 1 .. payload_size : w[4 + k] = payload[k - 1]
    BY <1>1, Consumed
  <2> HIDE DEF w
  <2>3. /\ Len(wire) = Len(w) + Len(crcBuffer)
        /\ \A k \in 1 .. Len(w) : wire[k] = w[k]
        /\ \A k \in 1 .. Len(crcBuffer) : wire[Len(w) + k] = crcBuffer[k]
    BY <1>1, <2>1, <2>2, ConcatByte
  <2>4. /\ 3 \in 1 .. Len(w) /\ 4 \in 1 .. Len(w)
        /\ \A k \in 1 .. payload_size : 4 + k \in 1 .. Len(w)
    BY <1>1, <2>2
  <2> QED BY <1>4, <2>2, <2>3, <2>4
<1> QED BY <1>2, <1>3, <1>4

\* On track within a frame, the parser has most of it, and has it right.
LEMMA Parsed ==
    ASSUME IInv, LinkTypeOK, OnTrack, curState # "WAITING_START_SYMBOL"
    PROVE  LET m    == Messages[sent]
               size == Len(m[2])
           IN  /\ sent \in 1 .. Len(Messages)
               /\ Len(wire) + Len(channel) = 7 + size
               /\ Len(wire) \in Nat
               /\ curState # "WAITING_END_SYMBOL" => Len(wire) <= 5 + size
               /\ curState = "WAITING_END_SYMBOL" => Len(wire) = 6 + size
               /\ curState \in {"WAITING_CRC", "WAITING_END_SYMBOL"} =>
                    /\ payload_size = size
                    /\ Message(getFrame) = m
                    /\ buffer = Body(FrameOf(m))
<1> DEFINE m    == Messages[sent]
           e    == Encodings[sent]
           size == Len(m[2])
<1>1. sent \in 1 .. Len(Messages) /\ Split(wire, channel, e)
  BY DEF LinkTypeOK, OnTrack
<1>2. /\ m \in Byte \X Seq(Byte) /\ size \in Byte
      /\ e \in Seq(Byte) /\ Len(e) = 7 + size
      /\ Body(FrameOf(m)) = <<m[1], size>> \o m[2]
      /\ e[3] = m[1] /\ e[4] = size
      /\ \A k \in 1 .. size : e[4 + k] = m[2][k]
  BY <1>1, Layout
<1>a. size \in Nat
  BY <1>2 DEF Byte
<1> HIDE DEF m, e, size
<1>3. /\ wire \in Seq(Byte) /\ Len(wire) \in Nat /\ channel \in Seq(Byte)
      /\ payload_size \in Nat /\ curPayloadOffset \in Nat
      /\ Len(crcBuffer) \in Nat /\ curState \in State
  <2>1. ParserTypeOK
    BY DEF IInv
  <2>2. wire \in Seq(Byte) /\ crcBuffer \in Seq(Byte) /\ curState \in State
    BY <2>1 DEF ParserTypeOK
  <2>3. payload_size \in Nat /\ curPayloadOffset \in Nat
    BY <2>1 DEF ParserTypeOK, Byte, FRAME_MAX_PAYLOAD_SIZE
  <2>4. Len(wire) \in Nat /\ Len(crcBuffer) \in Nat
    BY <2>2
  <2> QED BY <2>2, <2>3, <2>4 DEF LinkTypeOK
<1>4. Len(wire) + Len(channel) = 7 + size /\ \A n \in 1 .. Len(wire) : wire[n] = e[n]
  BY <1>1, <1>2 DEF Split
<1>5. CASE curState \in {"WAITING_FLAGS", "WAITING_OPCODE", "WAITING_PAYLOAD_SIZE"}
  <2>1. PICK n \in 1 .. 3 : Len(wire) = n
    BY <1>5, Within
  <2>2. n <= 5 + size
    BY <1>a
  <2> QED BY <1>1, <1>3, <1>4, <1>5, <2>1, <2>2 DEF m, size
<1>6. CASE curState = "WAITING_PAYLOAD"
  <2>1. Len(wire) = 4 + curPayloadOffset /\ curPayloadOffset < payload_size /\ wire[4] = payload_size
    BY <1>6, Within
  <2>2. payload_size = size
    <3>1. 4 \in 1 .. Len(wire)
      BY <1>3, <2>1
    <3> QED BY <1>2, <1>4, <2>1, <3>1
  <2>3. Len(wire) <= 5 + size
    BY <1>a, <1>3, <2>1, <2>2
  <2> QED BY <1>1, <1>3, <1>4, <1>6, <2>3 DEF m, size
<1>7. CASE curState \in {"WAITING_CRC", "WAITING_END_SYMBOL"}
  <2>1. /\ Len(wire) = 4 + payload_size + Len(crcBuffer)
        /\ wire[3] = opcode /\ wire[4] = payload_size
        /\ \A k \in 1 .. payload_size : wire[4 + k] = payload[k - 1]
    BY <1>7, Within
  <2>2. payload_size = size /\ opcode = m[1]
    <3>1. 3 \in 1 .. Len(wire) /\ 4 \in 1 .. Len(wire)
      BY <1>3, <2>1
    <3> QED BY <1>2, <1>4, <2>1, <3>1
  <2>3. ASSUME NEW k \in 1 .. size PROVE payload[k - 1] = m[2][k]
    <3>1. 4 + k \in 1 .. Len(wire) /\ k \in 1 .. payload_size
      BY <1>a, <1>3, <2>1, <2>2
    <3> QED BY <1>2, <1>4, <2>1, <3>1
  <2>4. m[2] \in Seq(Byte) /\ Len(m[2]) = size /\ m = <<m[1], m[2]>>
    BY <1>2 DEF size
  <2>5. [k \in 1 .. size |-> payload[k - 1]] = m[2]
    <3>1. [k \in 1 .. size |-> payload[k - 1]] = [k \in 1 .. size |-> m[2][k]]
      BY <2>3
    <3>2. m[2] = [k \in 1 .. size |-> m[2][k]]
      BY <2>4
    <3> QED BY <3>1, <3>2
  <2>6. Payload(getFrame) = m[2] /\ getFrame.opcode = m[1]
    BY <2>2, <2>5 DEF Payload, getFrame
  <2>7. Message(getFrame) = m
    BY <2>4, <2>6 DEF Message
  <2>8. buffer = Body(FrameOf(m))
    <3>1. buffer = Received(opcode, payload_size, payload, payload_size)
      BY <1>7 DEF IInv, WireShape
    <3> QED BY <1>2, <2>2, <2>5, <3>1 DEF Received
  <2>9. /\ curState = "WAITING_CRC" => Len(crcBuffer) < 2
        /\ curState = "WAITING_END_SYMBOL" => Len(crcBuffer) = 2
    BY DEF IInv, WireShape, CrcSize
  <2>10. /\ curState # "WAITING_END_SYMBOL" => Len(wire) <= 5 + size
         /\ curState = "WAITING_END_SYMBOL" => Len(wire) = 6 + size
    <3>1. Len(wire) = 4 + size + Len(crcBuffer)
      BY <2>1, <2>2
    <3>2. CASE curState = "WAITING_CRC"
      <4>1. Len(crcBuffer) < 2
        BY <2>9, <3>2
      <4>2. Len(wire) <= 5 + size
        BY <1>a, <1>3, <3>1, <4>1
      <4> QED BY <3>2, <4>2
    <3>3. CASE curState = "WAITING_END_SYMBOL"
      <4>1. Len(crcBuffer) = 2
        BY <2>9, <3>3
      <4>2. Len(wire) = 6 + size
        BY <1>a, <1>3, <3>1, <4>1
      <4> QED BY <3>3, <4>2
    <3> QED BY <1>7, <3>2, <3>3
  <2> QED BY <1>1, <1>3, <1>4, <2>2, <2>7, <2>8, <2>10 DEF m, size
<1> QED BY <1>3, <1>5, <1>6, <1>7 DEF State
-----------------------------------------------------------------------------
\* The firmware's parsers are some of those that the parser's proofs are about.
LEMMA InitLinkInv == Init => LinkInv
<1> SUFFICES ASSUME Init PROVE LinkInv
  OBVIOUS
<1>1. 0 \in Byte
  BY DEF Byte
<1>2. ParserInit
  BY DEF Init
<1>3. IInv
  BY <1>2, InitIInv
<1>4. LinkTypeOK
  BY LinkAssumption DEF Init, LinkTypeOK
<1>5. OnTrack /\ AllDelivered
  BY DEF Init, ParserInit, OnTrack, AllDelivered
<1> QED BY <1>3, <1>4, <1>5 DEF LinkInv

\* The line's bytes are bytes, so the parser's invariant holds at its end.
LEMMA ReceiveTyped ==
    ASSUME IInv, LinkTypeOK, Receive
    PROVE  IInv' /\ LinkTypeOK' /\ getFrame' \in Frame
<1>1. /\ channel # << >> /\ channel \in Seq(Byte) /\ addByte(Head(channel))
      /\ channel' = Tail(channel) /\ UNCHANGED <<sent, faults>>
      /\ delivered' = IF ret' THEN Append(delivered, getFrame') ELSE delivered
  BY DEF Receive, LinkTypeOK
<1>2. Head(channel) \in Byte /\ channel' \in Seq(Byte)
  BY <1>1
<1>3. ParserNext
  BY <1>1, <1>2 DEF ParserNext
<1>4. IInv'
  BY <1>3, NextTypeOK, NextShape DEF IInv
<1>5. getFrame' \in Frame
  <2>1. /\ flags' \in Byte /\ opcode' \in Byte /\ payload_size' \in Byte
        /\ payload' \in [0 .. FRAME_MAX_PAYLOAD_SIZE - 1 -> Byte]
    BY <1>4 DEF IInv, ParserTypeOK
  <2> QED BY <2>1 DEF getFrame, Frame
<1>6. delivered' \in Seq(Frame)
  <2>1. delivered \in Seq(Frame)
    BY DEF LinkTypeOK
  <2>2. Append(delivered, getFrame') \in Seq(Frame)
    BY <1>5, <2>1
  <2> QED BY <1>1, <2>1, <2>2
<1> QED BY <1>1, <1>2, <1>4, <1>5, <1>6 DEF LinkTypeOK

\* What is left of a line after its first byte.
LEMMA RestOfLine ==
    ASSUME NEW q \in Seq(Byte), q # << >>
    PROVE  /\ Len(q) >= 2 => Tail(q) # << >>
           /\ Len(q) = 1  => Tail(q) = << >>
<1>1. Len(Tail(q)) = Len(q) - 1 /\ Len(q) \in Nat /\ Tail(q) \in Seq(Byte)
  OBVIOUS
<1>2. ASSUME Len(q) >= 2 PROVE Tail(q) # << >>
  <2>1. Len(Tail(q)) # 0
    BY <1>1, <1>2
  <2>2. Len(<< >>) = 0
    OBVIOUS
  <2> QED BY <2>1, <2>2
<1>3. ASSUME Len(q) = 1 PROVE Tail(q) = << >>
  <2>1. Len(Tail(q)) = 0
    BY <1>1, <1>3
  <2> QED BY <1>1, <2>1, EmptySeq
<1> QED BY <1>2, <1>3

\* The start symbol of a frame is not taken for anything else.
LEMMA ReceiveStart ==
    ASSUME IInv, LinkTypeOK, OnTrack, AllDelivered, Receive,
           curState = "WAITING_START_SYMBOL"
    PROVE  OnTrack' /\ AllDelivered'
<1> DEFINE e == Encodings[sent]
           b == Head(channel)
<1>1. /\ channel # << >> /\ channel = e /\ sent \in 1 .. Len(Messages)
      /\ addByte(b) /\ channel' = Tail(channel) /\ sent' = sent
      /\ delivered' = IF ret' THEN Append(delivered, getFrame') ELSE delivered
  BY DEF Receive, OnTrack, LinkTypeOK
<1>2. e \in Seq(Byte) /\ Len(e) >= 7 /\ e[1] = START
  <2>1. e \in Seq(Byte) /\ e[1] = START /\ Len(e) = 7 + Len(Messages[sent][2])
        /\ Len(Messages[sent][2]) \in Byte
    BY <1>1, Layout
  <2>2. Len(Messages[sent][2]) \in Nat
    BY <2>1 DEF Byte
  <2> QED BY <2>1, <2>2
<1>3. WaitingStart(b)
  BY <1>1 DEF addByte, WaitingFlags, WaitingOpcode, WaitingPayloadSize, WaitingPayload,
              WaitingCrc, WaitingEnd
<1> HIDE DEF e
<1>4. b = START
  BY <1>1, <1>2
<1>5. curState' = "WAITING_FLAGS" /\ wire' = <<START>> /\ ret' = FALSE
  BY <1>3, <1>4 DEF WaitingStart
<1>6. Len(channel') = Len(e) - 1 /\ \A n \in 1 .. Len(channel') : channel'[n] = e[n + 1]
  BY <1>1, <1>2
<1>7. Len(wire') = 1 /\ wire'[1] = START
  BY <1>5
<1>8. Split(wire', channel', e)
  <2>1. Len(wire') + Len(channel') = Len(e)
    BY <1>2, <1>6, <1>7
  <2>2. \A n \in 1 .. Len(wire') : wire'[n] = e[n]
    BY <1>2, <1>7
  <2>3. \A n \in 1 .. Len(channel') : channel'[n] = e[Len(wire') + n]
    BY <1>6, <1>7
  <2> QED BY <2>1, <2>2, <2>3 DEF Split
<1>9. OnTrack'
  BY <1>1, <1>5, <1>8 DEF OnTrack, e
<1>10. channel' # << >>
  <2>1. channel \in Seq(Byte) /\ Len(channel) >= 2
    BY <1>1, <1>2
  <2> QED BY <1>1, <2>1, RestOfLine
<1>11. AllDelivered'
  BY <1>1, <1>5, <1>10 DEF AllDelivered
<1> QED BY <1>9, <1>11

\* A byte within a frame keeps the parser on track, for its checksum is right and its
\* end is where the parser looks for it.
LEMMA ReceiveWithin ==
    ASSUME IInv, LinkTypeOK, OnTrack, AllDelivered, Receive,
           curState # "WAITING_START_SYMBOL"
    PROVE  OnTrack' /\ AllDelivered'
<1> DEFINE m    == Messages[sent]
           e    == Encodings[sent]
           size == Len(m[2])
           c    == Crc(Body(FrameOf(m)))
           b    == Head(channel)
<1>1. /\ channel # << >> /\ channel \in Seq(Byte) /\ wire \in Seq(Byte)
      /\ addByte(b) /\ channel' = Tail(channel) /\ sent' = sent
      /\ delivered' = IF ret' THEN Append(delivered, getFrame') ELSE delivered
      /\ delivered \in Seq(Frame)
      /\ Split(wire, channel, e)
  BY DEF Receive, OnTrack, LinkTypeOK, IInv, ParserTypeOK
<1>2. /\ sent \in 1 .. Len(Messages)
      /\ Len(wire) + Len(channel) = 7 + size
      /\ Len(wire) \in Nat
      /\ curState # "WAITING_END_SYMBOL" => Len(wire) <= 5 + size
      /\ curState = "WAITING_END_SYMBOL" => Len(wire) = 6 + size
      /\ curState \in {"WAITING_CRC", "WAITING_END_SYMBOL"} =>
           payload_size = size /\ Message(getFrame) = m /\ buffer = Body(FrameOf(m))
  BY Parsed
<1>3. /\ m \in Byte \X Seq(Byte) /\ size \in Byte /\ e \in Seq(Byte) /\ c \in Byte \X Byte
      /\ e[5 + size] = c[1] /\ e[6 + size] = c[2] /\ e[7 + size] = END
  BY <1>2, Layout
<1>4. size \in Nat
  BY <1>3 DEF Byte
<1> HIDE DEF m, e, size, c
<1>5. b = e[Len(wire) + 1] /\ Split(Append(wire, b), Tail(channel), e)
  BY <1>1, <1>3, SplitStep
<1> HIDE DEF b
<1>6. ASSUME wire' = Append(wire, b), curState' # "WAITING_START_SYMBOL", ret' = FALSE,
             Len(wire) <= 5 + size
      PROVE  OnTrack' /\ AllDelivered'
  <2>1. OnTrack'
    BY <1>1, <1>2, <1>5, <1>6 DEF OnTrack, e
  <2>2. Len(channel) >= 2
    BY <1>2, <1>4, <1>6
  <2>3. channel' # << >>
    BY <1>1, <2>2, RestOfLine
  <2> QED BY <1>1, <1>6, <2>1, <2>3 DEF AllDelivered
<1>7. CASE WaitingFlags(b) \/ WaitingOpcode(b) \/ WaitingPayloadSize(b) \/ WaitingPayload(b)
  <2>1. wire' = Append(wire, b) /\ curState' # "WAITING_START_SYMBOL" /\ ret' = FALSE
        /\ curState # "WAITING_END_SYMBOL"
    BY <1>7 DEF WaitingFlags, WaitingOpcode, WaitingPayloadSize, WaitingPayload
  <2> QED BY <1>2, <1>6, <2>1
<1>8. CASE WaitingCrc(b)
  <2>1. /\ curState = "WAITING_CRC" /\ crcBuffer' = Append(crcBuffer, b)
        /\ wire' = Append(wire, b) /\ ret' = FALSE
        /\ curState' = IF Len(crcBuffer') < CrcSize THEN curState
                       ELSE IF ChecksumRight(crcBuffer')
                            THEN "WAITING_END_SYMBOL"
                            ELSE "WAITING_START_SYMBOL"
    BY <1>8 DEF WaitingCrc
  <2>2. /\ crcBuffer \in Seq(Byte) /\ Len(crcBuffer) < 2 /\ Len(crcBuffer) \in Nat
        /\ Len(wire) = 4 + payload_size + Len(crcBuffer)
        /\ \A k \in 1 .. Len(crcBuffer) : wire[4 + payload_size + k] = crcBuffer[k]
    <3>1. crcBuffer \in Seq(Byte)
      BY DEF IInv, ParserTypeOK
    <3>2. Len(crcBuffer) < 2
      BY <2>1 DEF IInv, WireShape, CrcSize
    <3>3. Len(wire) = 4 + payload_size + Len(crcBuffer)
          /\ \A k \in 1 .. Len(crcBuffer) : wire[4 + payload_size + k] = crcBuffer[k]
      BY <2>1, Within
    <3> QED BY <3>1, <3>2, <3>3
  <2>3. payload_size = size /\ buffer = Body(FrameOf(m))
    BY <1>2, <2>1
  <2>4. ASSUME ~(Len(crcBuffer') < CrcSize) PROVE ChecksumRight(crcBuffer')
    <3>1. Len(crcBuffer) = 1
      <4>1. Len(crcBuffer') = Len(crcBuffer) + 1
        BY <1>1, <2>1, <2>2
      <4>2. ~(Len(crcBuffer') < 2)
        BY <2>4 DEF CrcSize
      <4>3. PICK n \in Nat : Len(crcBuffer) = n
        BY <2>2
      <4>4. n < 2 /\ ~(n + 1 < 2)
        BY <2>2, <4>1, <4>2, <4>3
      <4>5. n = 1
        BY <4>4
      <4> QED BY <4>3, <4>5
    <3>2. Len(wire) = 5 + size /\ wire[5 + size] = crcBuffer[1]
      <4>1. Len(wire) = 5 + size
        BY <1>4, <2>2, <2>3, <3>1
      <4>2. wire[4 + size + 1] = crcBuffer[1] /\ 4 + size + 1 = 5 + size
        BY <1>4, <2>2, <2>3, <3>1
      <4> QED BY <4>1, <4>2
    <3>3. b = c[2]
      <4>1. Len(wire) + 1 = 6 + size
        BY <1>4, <3>2
      <4> QED BY <1>3, <1>5, <4>1
    <3>4. crcBuffer[1] = c[1]
      <4>1. 5 + size \in 1 .. Len(wire)
        BY <1>4, <3>2
      <4> QED BY <1>1, <1>3, <3>2, <4>1 DEF Split
    <3>5. PICK x \in Byte, y \in Byte : c = <<x, y>>
      BY <1>3
    <3>6. crcBuffer = <<x>> /\ b = y
      BY <2>2, <3>1, <3>3, <3>4, <3>5
    <3>7. crcBuffer' = c
      BY <2>1, <3>5, <3>6, AppendPair
    <3>8. Len(buffer) > 0
      <4>1. payload_size \in 0 .. FRAME_MAX_PAYLOAD_SIZE /\ ParserTypeOK
            /\ buffer = Received(opcode, payload_size, payload, payload_size)
        BY <2>1 DEF IInv, ParserTypeOK, WireShape, Byte, FRAME_MAX_PAYLOAD_SIZE
      <4>2. Len(buffer) = payload_size + 2 /\ payload_size \in Nat
        BY <4>1, BufferLength DEF FRAME_MAX_PAYLOAD_SIZE
      <4> QED BY <4>2
    <3> QED BY <2>3, <3>7, <3>8 DEF ChecksumRight, c
  <2>5. curState' # "WAITING_START_SYMBOL"
    BY <2>1, <2>4
  <2> QED BY <1>2, <1>6, <2>1, <2>5
<1>9. CASE WaitingEnd(b)
  <2>1. curState = "WAITING_END_SYMBOL" /\ Len(wire) = 6 + size /\ Message(getFrame) = m
    BY <1>2, <1>9 DEF WaitingEnd
  <2>2. b = END
    <3>1. Len(wire) + 1 = 7 + size
      BY <1>4, <2>1
    <3> QED BY <1>3, <1>5, <3>1
  <2>3. /\ ret' = TRUE /\ curState' = "WAITING_START_SYMBOL"
        /\ UNCHANGED <<flags, opcode, payload_size, payload>>
    BY <1>9, <2>2 DEF WaitingEnd, IsEnd, frameVars
  <2>4. channel' = << >>
    <3>1. Len(channel) = 1
      <4>1. PICK n \in Nat : Len(channel) = n
        BY <1>1
      <4>2. 6 + size + n = 7 + size
        BY <1>2, <2>1, <4>1
      <4>3. n = 1
        BY <1>4, <4>2
      <4> QED BY <4>1, <4>3
    <3> QED BY <1>1, <3>1, RestOfLine
  <2>5. getFrame' = getFrame
    BY <2>3 DEF getFrame
  <2>6. delivered' = Append(delivered, getFrame) /\ getFrame \in Frame
    BY <1>1, <2>3, <2>5, ReceiveTyped
  <2>7. /\ Len(delivered) = sent - 1
        /\ \A i \in 1 .. Len(delivered) : Message(delivered[i]) = Messages[i]
    BY <1>1 DEF AllDelivered
  <2>8. Len(delivered') = sent /\ delivered'[sent] = getFrame
        /\ \A i \in 1 .. sent - 1 : delivered'[i] = delivered[i]
    BY <1>1, <1>2, <2>6, <2>7
  <2>9. ASSUME NEW i \in 1 .. sent PROVE Message(delivered'[i]) = Messages[i]
    <3>1. CASE i = sent
      BY <2>1, <2>8, <3>1 DEF m
    <3>2. CASE i # sent
      <4>1. i \in 1 .. sent - 1
        BY <1>2, <3>2
      <4> QED BY <2>7, <2>8, <4>1
    <3> QED BY <3>1, <3>2
  <2> QED BY <1>1, <2>3, <2>4, <2>8, <2>9 DEF OnTrack, AllDelivered
<1>10. CASE WaitingStart(b)
  BY <1>10 DEF WaitingStart
<1> QED BY <1>1, <1>7, <1>8, <1>9, <1>10 DEF addByte

\* Each step keeps LinkInv.
LEMMA NextLinkInv == LinkInv /\ [Next]_vars => LinkInv'
<1> SUFFICES ASSUME LinkInv, [Next]_vars PROVE LinkInv'
  OBVIOUS
<1>1. IInv /\ LinkTypeOK /\ (faults = 0 => OnTrack /\ AllDelivered)
  BY DEF LinkInv
<1>2. CASE Send
  <2>1. /\ sent < Len(Messages) /\ channel = << >> /\ sent' = sent + 1
        /\ channel' = Encodings[sent + 1] /\ UNCHANGED <<parserVars, faults, delivered>>
    BY <1>2 DEF Send
  <2>2. sent + 1 \in 1 .. Len(Messages) /\ sent \in Nat /\ Len(Messages) \in Nat
    BY <1>1, <2>1, LinkAssumption DEF LinkTypeOK
  <2>3. Encodings[sent + 1] \in Seq(Byte) /\ Encodings[sent + 1] # << >>
    <3>1. /\ Encodings[sent + 1] \in Seq(Byte)
          /\ Len(Encodings[sent + 1]) = 7 + Len(Messages[sent + 1][2])
          /\ Len(Messages[sent + 1][2]) \in Byte
      BY <2>2, Layout
    <3>2. Len(Messages[sent + 1][2]) \in Nat
      BY <3>1 DEF Byte
    <3> QED BY <3>1, <3>2
  <2>4. IInv'
    BY <1>1, <2>1, StutterIInv
  <2>5. LinkTypeOK'
    BY <1>1, <2>1, <2>2, <2>3 DEF LinkTypeOK
  <2>6. ASSUME faults = 0 PROVE OnTrack' /\ AllDelivered'
    <3>1. curState' = curState
      BY <2>1 DEF parserVars
    <3>2. curState = "WAITING_START_SYMBOL"
      <4> SUFFICES ASSUME curState # "WAITING_START_SYMBOL" PROVE FALSE
        OBVIOUS
      <4>1. /\ Len(wire) + Len(channel) = 7 + Len(Messages[sent][2])
            /\ Len(wire) <= 6 + Len(Messages[sent][2]) /\ Len(wire) \in Nat
            /\ Len(Messages[sent][2]) \in Nat
        <5>1. sent \in 1 .. Len(Messages)
          BY <1>1, <2>6, Parsed
        <5>2. Len(Messages[sent][2]) \in Nat
          BY <5>1, Layout DEF Byte
        <5> QED BY <1>1, <2>6, <5>2, Parsed
      <4>2. Len(channel) = 0
        BY <2>1
      <4> QED BY <4>1, <4>2
    <3>3. OnTrack'
      BY <2>1, <2>2, <3>1, <3>2 DEF OnTrack
    <3>4. AllDelivered'
      BY <1>1, <2>1, <2>2, <2>3, <2>6 DEF AllDelivered
    <3> QED BY <3>3, <3>4
  <2> QED BY <2>1, <2>4, <2>5, <2>6 DEF LinkInv
<1>3. CASE Receive
  <2>1. IInv' /\ LinkTypeOK' /\ faults' = faults
    BY <1>1, <1>3, ReceiveTyped DEF Receive
  <2>2. ASSUME faults = 0 PROVE OnTrack' /\ AllDelivered'
    BY <1>1, <1>3, <2>2, ReceiveStart, ReceiveWithin
  <2> QED BY <2>1, <2>2 DEF LinkInv
<1>4. CASE Fault
  <2>1. /\ faults' = faults + 1 /\ UNCHANGED <<parserVars, sent, delivered>>
        /\ Lose \/ \E b \in BadBytes : Alter(b) \/ Invent(b)
    BY <1>4 DEF Fault
  <2>2. channel \in Seq(Byte) /\ BadBytes \subseteq Byte
    BY <1>1, LinkAssumption DEF LinkTypeOK
  <2>3. channel' \in Seq(Byte)
    <3>1. CASE Lose
      BY <2>2, <3>1 DEF Lose
    <3>2. ASSUME NEW b \in BadBytes, Alter(b) PROVE channel' \in Seq(Byte)
      <4>1. <<b>> \in Seq(Byte) /\ Tail(channel) \in Seq(Byte) /\ channel' = <<b>> \o Tail(channel)
        BY <2>2, <3>2 DEF Alter
      <4> QED BY <4>1, ConcatByte
    <3>3. ASSUME NEW b \in BadBytes, Invent(b) PROVE channel' \in Seq(Byte)
      <4>1. <<b>> \in Seq(Byte) /\ channel' = <<b>> \o channel
        BY <2>2, <3>3 DEF Invent
      <4> QED BY <2>2, <4>1, ConcatByte
    <3> QED BY <2>1, <3>1, <3>2, <3>3
  <2>4. IInv'
    BY <1>1, <2>1, StutterIInv
  <2>5. LinkTypeOK' /\ faults' # 0
    BY <1>1, <2>1, <2>3 DEF LinkTypeOK
  <2> QED BY <2>4, <2>5 DEF LinkInv
<1>5. CASE Done \/ UNCHANGED vars
  <2>1. UNCHANGED <<parserVars, sent, channel, faults, delivered>>
    BY <1>5 DEF Done, vars
  <2>2. IInv'
    BY <1>1, <2>1, StutterIInv
  <2>3. UNCHANGED <<curState, wire>>
    BY <2>1 DEF parserVars
  <2>4. LinkTypeOK' /\ (faults' = 0 => OnTrack' /\ AllDelivered')
    BY <1>1, <2>1, <2>3 DEF LinkTypeOK, OnTrack, AllDelivered
  <2> QED BY <2>2, <2>4 DEF LinkInv
<1> QED BY <1>2, <1>3, <1>4, <1>5 DEF Next

\* Over a line without faults every message arrives, unaltered and in order, and when
\* the line is empty all of them have, whatever bytes they are made of.
THEOREM RoundTripHolds == Spec => []RoundTrip
<1>1. LinkInv => RoundTrip
  <2> SUFFICES ASSUME LinkInv, faults = 0, channel = << >>
               PROVE  [i \in 1 .. Len(delivered) |-> Message(delivered[i])]
                        = SubSeq(Messages, 1, sent)
    BY DEF RoundTrip
  <2>1. /\ Len(delivered) = sent
        /\ \A i \in 1 .. Len(delivered) : Message(delivered[i]) = Messages[i]
    BY DEF LinkInv, AllDelivered
  <2>2. sent \in 0 .. Len(Messages) /\ Messages \in Seq(Byte \X Seq(Byte))
    BY LinkAssumption DEF LinkInv, LinkTypeOK
  <2>3. SubSeq(Messages, 1, sent) = [i \in 1 .. sent |-> Messages[i]]
    BY <2>2
  <2> QED BY <2>1, <2>3
<1> QED BY <1>1, InitLinkInv, NextLinkInv, PTL DEF Spec
=============================================================================
