SPECIFICATION FairSpec
CONSTANTS
  ByteMax = 255
  START = 190
  END = 239
  Crc <- CrcBytes
  Targets <- SecondStart
  BufferSize = 32
PROPERTY PingsAnswered
