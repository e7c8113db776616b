SPECIFICATION LoopFairSpec
CONSTANTS
  ClockSize = 32
  DelayClock = 16
  Durations = {0, 1, 7}
  TickDelay = 3
  MaxRun = 1
  TickGap = 5
INVARIANTS
  TypeOK
  ClockTracksAge
  DelayTracksTick
PROPERTIES
  PulseSpec
  TriggerSpec
  Released
