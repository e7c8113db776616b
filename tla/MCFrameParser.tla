--------------------------- MODULE MCFrameParser ---------------------------
(***************************************************************************)
(* The parser on every stream over an alphabet of three byte values: size  *)
(* bytes 0, 1 and 2, a start and an end symbol that may also appear as     *)
(* data, and a checksum that depends on every byte and its place.          *)
(***************************************************************************)
EXTENDS FrameParser

MCCrc(s) ==
    LET sum[i \in 0 .. Len(s)] == IF i = 0 THEN Len(s) ELSE sum[i - 1] + i * s[i]
    IN  <<sum[Len(s)] % 3, (sum[Len(s)] \div 3) % 3>>
=============================================================================
