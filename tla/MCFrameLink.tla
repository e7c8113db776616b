---------------------------- MODULE MCFrameLink ----------------------------
(***************************************************************************)
(* Frames of the radio link with the firmware's bytes and checksum: a PING *)
(* and a FIRE for device 1, the RX_PONG that reports relay 0 active, a PING *)
(* for device 2, and a FIRE_ACK.                                           *)
(***************************************************************************)
EXTENDS FrameLink, CRC16

MCMessages == << <<0, <<1>> >>, <<16, <<1, 0, 20>> >>, <<2, <<1, 1, 1, 0>> >>,
                 <<0, <<2>> >>, <<17, <<1, 1, 0>> >> >>

MCBadBytes == {0, 1, 2, START, END}
=============================================================================
