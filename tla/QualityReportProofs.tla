------------------------ MODULE QualityReportProofs ------------------------
(***************************************************************************)
(* QualityReport, for every window length and delay of the answers.        *)
(***************************************************************************)
EXTENDS QualityReport, LinkQualityProofs

\* The window of every transmitter keeps the invariant.
THEOREM WindowCorrect == Spec => []LinkInv
<1>1. Init => LinkInv
  BY InitKeeps DEF Init
<1>2. LinkInv /\ [Next]_vars => LinkInv'
  <2> SUFFICES ASSUME LinkInv, [Next]_vars PROVE LinkInv'
    OBVIOUS
  <2>1. CASE Ping
    BY <2>1, PingKeeps DEF Ping
  <2>2. CASE Pong
    BY <2>2, PongKeeps DEF Pong
  <2>3. CASE Lose \/ Report \/ UNCHANGED vars
    BY <2>3 DEF Lose, Report, vars, linkVars, LinkInv, LinkTypeOK, SilentTail
  <2> QED BY <2>1, <2>2, <2>3 DEF Next
<1> QED BY <1>1, <1>2, PTL DEF Spec

\* Five ninths of the window's length without an answer take the link down,
\* for every window length and however late or often answers came before.
THEOREM SilentLinkDown == Spec => []SilenceTakesDown
BY WindowCorrect, SilenceCounts, PTL
=============================================================================
