SPECIFICATION FairSpec
CONSTANTS
  ByteMax = 255
  START = 190
  END = 239
  Crc <- CrcBytes
  Targets <- MCTargets
  BufferSize = 32
PROPERTY Synchronises
