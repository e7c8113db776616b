SPECIFICATION ParserSpec
CONSTANTS
  ByteMax = 2
  START = 1
  END = 2
  Crc <- MCCrc
INVARIANTS
  ParserTypeOK
  OnlyEncodings
