SPECIFICATION FairSpec
CONSTANTS
  NR = 2
  LongMax = 7
  InitPriority = 1
  MaxPriority = 2
  MaxIncrement = 1
  Delays = {0, 1}
INVARIANTS IInv
PROPERTIES GoodChoice  
