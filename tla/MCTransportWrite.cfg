CONSTANTS
  Senders = {s1, s2}
  Io = io
  MaxSends = 2
SPECIFICATION FairSpec
INVARIANTS
  Conservation
  BuffersOwned
PROPERTIES
  EventuallyWritten
  ImplementsChannel
CHECK_DEADLOCK FALSE
