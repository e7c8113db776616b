SPECIFICATION Spec
CONSTANTS
  S = 3
  Device = {1}
  NUM_RELAYS = 1
  BufferFrames = 1
  MaxDuration = 1
  NUM_TARGET_DEVICES = 2
  TRIGGER_DURATION = 1
  Command <- MCCommands
  Forgotten = 4
  Latency = 0
  StoredIds <- OneEach
INVARIANTS
  TypeOK
  DeadMan
  SilenceTakesDown
PROPERTIES
  LinkGate
  LedNotInvented
