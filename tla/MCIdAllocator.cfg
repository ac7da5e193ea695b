SPECIFICATION Spec
CONSTANTS
  t1 = t1
  t2 = t2
  Threads <- MCThreads
  Limit = 4
  LowWords = 3
  HighWords = 3
INVARIANTS
  FreshNumbers
  FreshRefs
