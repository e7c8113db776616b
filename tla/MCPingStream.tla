---------------------------- MODULE MCPingStream ----------------------------
EXTENDS PingStream, CRC16

\* A second 190 stands in the frame of these: the id itself or in the checksum.
SecondStart == {105, 110, 190, 231}

MCTargets == (0 .. 255) \ SecondStart
=============================================================================
