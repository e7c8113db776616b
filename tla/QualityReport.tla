--------------------------- MODULE QualityReport ---------------------------
(***************************************************************************)
(* The link quality of a transmitter and one receiver: PINGs, answers that *)
(* are lost or come while at most MaxInFlight PINGs wait for one, and the  *)
(* value the transmitter reports for OP_GET_RADIO_QUALITY.                 *)
(***************************************************************************)
EXTENDS LinkQuality

CONSTANT MaxInFlight

VARIABLES inFlight,      \* PINGs whose answer is on the way
          report         \* the last quality reported; 256 before the first

vars == <<linkVars, inFlight, report>>

Init == LinkInit /\ inFlight = 0 /\ report = 256

\* pingRoutine.  The transmitter does not wait for an answer.
Ping ==
    /\ inFlight < MaxInFlight
    /\ pushPing
    /\ inFlight' = inFlight + 1
    /\ UNCHANGED report

\* radioRxRoutine, OP_RX_PONG of the current target
Pong ==
    /\ inFlight > 0
    /\ pushPong
    /\ inFlight' = inFlight - 1
    /\ UNCHANGED report

\* Either frame is lost: nobody tells the transmitter.
Lose ==
    /\ inFlight > 0
    /\ inFlight' = inFlight - 1
    /\ UNCHANGED <<linkVars, report>>

\* configRoutine, OP_GET_RADIO_QUALITY
Report ==
    /\ report' \in Reports(pushes)
    /\ UNCHANGED <<linkVars, inFlight>>

Next == Ping \/ Pong \/ Lose \/ Report

Spec == Init /\ [][Next]_vars
-----------------------------------------------------------------------------
\* docs/comm_diagrams/ping_pong.msc: radio_quality = PONG_COUNT / PING_COUNT.
\* It is while every answer comes before the next PING: a window of even length
\* then never holds more PONGs than PINGs, and the reported byte does not wrap.
ReportIsShare ==
    [][report' # report /\ Pings(pushes) > 0
         => report' * Pings(pushes) <= 255 * Pongs(pushes)
            /\ 255 * Pongs(pushes) < (report' + 1) * Pings(pushes)]_vars
=============================================================================
