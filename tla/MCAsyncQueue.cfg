CONSTANTS
  MaxMessages = 2
  MaxWriters = 1
  Receives = {r1, r2}
  Waits <- AllWaits
  RepeatCounts <- AllCounts
  m_batch_size = 1
  INT_MAX = 4
  MaxDuration = 7
  TicksPerMs = 2
SPECIFICATION FairSpec
INVARIANTS
  OnePlace
  StillListening
PROPERTY EventuallyHandled
CHECK_DEADLOCK FALSE
