CONSTANTS
  s_header_size = 2
  BufferSize = 4
  WordRange = 64
  PacketSizes = {0, 1, 2, 5, 6}
  MaxFrames = 4
  Pipelined = FALSE
SPECIFICATION FairSpec
INVARIANT FullyStored
PROPERTY EventuallyDispatched
CHECK_DEADLOCK FALSE
