CONSTANTS
  s_header_size = 2
  BufferSize = 4
  WordRange = 64
  PacketSizes = {0, 1, 2}
  MaxFrames = 3
  Pipelined = TRUE
SPECIFICATION FairSpec
PROPERTY EventuallyDispatched
CHECK_DEADLOCK FALSE
