CONSTANTS
  MaxMessages = 2
  MaxWriters = 1
  Receives = {r1}
  Waits <- AllWaits
  RepeatCounts <- AllCounts
  m_batch_size = 1
  INT_MAX = 4
  MaxDuration = 7
  TicksPerMs = 2
SPECIFICATION MailboxSpec
INVARIANT HandlerInvoked
CHECK_DEADLOCK FALSE
