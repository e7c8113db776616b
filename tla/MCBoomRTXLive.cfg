SPECIFICATION FairSpec
CONSTANTS
  S = 2
  Device = {1}
  NUM_RELAYS = 1
  BufferFrames = 2
  MaxDuration = 1
  NUM_TARGET_DEVICES = 1
  TRIGGER_DURATION = 1
  Command = {}
  Forgotten = 1
  Latency = 1
  StoredIds <- OneEach
PROPERTIES
  Released
  LinkComesUp
  LightFollows
