SPECIFICATION Spec
CONSTANTS
  S = 3
  Device = {1, 2}
  NUM_RELAYS = 1
  BufferFrames = 1
  MaxDuration = 1
  NUM_TARGET_DEVICES = 1
  TRIGGER_DURATION = 1
  Command = {}
  Forgotten = 1
  Latency = 0
  StoredIds <- OneEach
INVARIANT AcksForHostOnly
