SPECIFICATION FairSpec
CONSTANTS
  Buffers <- MCBuffers
  start_sect <- MCStart
  nr_sects <- MCSize
  MAX_ERRORS = 3
  NR_REQUEST = 3
  Values = {0, 1}
INVARIANTS InStep SameOnDisk
PROPERTIES ImplementsElevator EveryRequestEnds
