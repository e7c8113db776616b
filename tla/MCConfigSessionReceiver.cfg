SPECIFICATION Spec
CONSTANTS
  Item = {"id", "channel", "target1"}
  LineFrames = 2
  PingFrames = 1
  Nothing = Nothing
  EEPROMs <- MCEEPROMs
  Radios <- MCRadios
  Typed <- MCTyped
INVARIANT AckTrue
