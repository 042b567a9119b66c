SPECIFICATION FairQueueSpec
CONSTANTS
  Devices = {1, 2}
  Blocks = {1, 2, 3}
  NR_REQUEST = 4
INVARIANTS QueueInvariant
PROPERTY EveryRequestServed
