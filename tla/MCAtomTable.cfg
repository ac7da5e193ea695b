CONSTANTS
  Threads = {t1, t2}
  NoThread = none
  Names = {a, b, c, long}
  TooLong = {long}
  EmptyAtom = empty
  Capacity = 3
SPECIFICATION FairSpec
INVARIANT TableInv
PROPERTIES
  ImplementsInterning
  LockReleased
CHECK_DEADLOCK FALSE
