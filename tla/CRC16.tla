------------------------------- MODULE CRC16 -------------------------------
(***************************************************************************)
(* common/crc16.cpp: the CCITT checksum, bit by bit, in 16-bit arithmetic. *)
(* The steps are functions, so that TLC evaluates each argument once.      *)
(***************************************************************************)
EXTENDS Naturals, Sequences, Bitwise

POLY == 4129                                            \* 0x1021

Word == 0 .. 2^16 - 1

processByte(crc, data) ==
    LET xor[x, y \in Word] == x ^^ y
        shift[r \in Word]  == IF r >= 2^15 THEN xor[(2 * r) % 2^16, POLY] ELSE 2 * r
        bits[r \in Word]   ==
            LET after[i \in 0 .. 8] == IF i = 0 THEN r ELSE shift[after[i - 1]]
            IN  after[8]
    IN  bits[xor[crc, data * 2^8]]

\* The register is zero before, and is reset after.  The loop is cut in halves
\* only to keep TLC's stack small.
processBuffer(bytes) ==
    LET run[crc \in Word, from, to \in 0 .. Len(bytes)] ==
            IF to = from THEN crc
            ELSE IF to = from + 1 THEN processByte(crc, bytes[to])
            ELSE LET mid == (from + to) \div 2
                 IN  run[run[crc, from, mid], mid, to]
    IN  run[0, 0, Len(bytes)]

\* The two bytes memcpy takes from a uint16_t on the little-endian AVR and PC.
CrcBytes(bytes) == LET crc == processBuffer(bytes) IN <<crc % 2^8, crc \div 2^8>>
=============================================================================
