SPECIFICATION FairSpec
CONSTANTS
  ByteMax = 255
  START = 190
  END = 239
  Crc <- CrcBytes
  Messages <- MCMessages
  MaxFaults = 1
  BadBytes <- MCBadBytes
  BufferSize = 32
INVARIANT RoundTrip
PROPERTIES
  DatagramSpec
  CleanDelivery
  Fresh
